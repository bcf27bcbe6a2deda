--------------------------- MODULE ProjectionGuard ---------------------------
(***************************************************************************)
(* The estimate a measureless query (a projection) is admitted on: how     *)
(* many distinct rows it may return, from the member counts of the catalog *)
(* and the shape of the filters alone.  A count of 0 stands for unknown.   *)
(***************************************************************************)
EXTENDS Mqo

AtLeastOne(n) == IF n = 0 THEN 1 ELSE n
Smaller(m, n) == IF m <= n THEN m ELSE n
Numeric(v) == v[1] \in {"integer", "decimal"}

(* The members a level is known to have: the cardinality the capture wrote *)
(* down, else the size of the captured domain.                             *)
KnownMembers(c, key) ==
  IF key \notin LevelKeys(c) THEN 0
  ELSE LET l == LevelAt(c, key)
       IN IF l.card > 0 THEN l.card ELSE Cardinality(l.domain)

ProjectedLevels(q, hier) == {d \in ToSet(q.dims) : d.hier = hier}
Base(c, q, hier) == Max({KnownMembers(c, d) : d \in ProjectedLevels(q, hier)})

(***************************************************************************)
(* single_filter_estimate: the rows one filter leaves of a hierarchy, as a *)
(* set that is empty when the filter says nothing of it.                   *)
(***************************************************************************)
RangeEstimate(c, q, hier, f, cap) ==
  LET n == KnownMembers(c, f.key)
      bounded == \A v \in ToSet(f.members) : Numeric(v)
  IN CASE f.key \in ProjectedLevels(q, hier) /\ n = 0 -> {cap}
       [] f.key \in ProjectedLevels(q, hier) /\ bounded ->
            LET lo == f.members[1][2]
                hi == f.members[2][2]
            IN {Smaller(n, (IF lo <= hi THEN hi - lo ELSE lo - hi) + 1)}
       [] f.key \notin ProjectedLevels(q, hier) /\ f.key.hier = hier
            /\ Base(c, q, hier) > 0 -> {AtLeastOne(Base(c, q, hier) \div 10)}
       [] OTHER -> {}

LeafEstimate(c, q, hier, f, cap) ==
  CASE f.kind \in {"Member", "MemberLevel"} /\ f.hier = hier /\ ~ f.exclude ->
         {Len(f.members)}
    [] f.kind = "Range" -> RangeEstimate(c, q, hier, f, cap)
    [] OTHER -> {}

(* hierarchy_filter_estimate: the least of what the filters leave; in a    *)
(* group, the parts that say something of the hierarchy are combined.      *)
GroupOf(kind, said) ==
  CASE said = << >> -> {}
    [] kind = "And" /\ said # << >> -> {Min(UNION ToSet(said))}
    [] OTHER -> {FoldLeft(LAMBDA n, e : n + Min(e), 0, said)}

FilterEstimates(c, q, hier, cap) ==
  UNION {LET parts == IF IsGroup(f) THEN f.subs ELSE <<f>>
         IN GroupOf(f.kind,
              SelectSeq([i \in DOMAIN parts |->
                           LeafEstimate(c, q, hier, parts[i], cap)],
                        LAMBDA e : e # {})) :
           f \in ToSet(q.filters)}

(* The estimate of one hierarchy group; empty when nothing is known.       *)
Least(counts) == IF counts = {} THEN {} ELSE {AtLeastOne(Min(counts))}
GroupEstimate(c, q, hier, cap) ==
  Least(({Base(c, q, hier)} \ {0}) \cup FilterEstimates(c, q, hier, cap))

(* cross_hierarchy_filter_selectivity: filters on hierarchies that are not *)
(* projected, applied one after the other.                                 *)
Leaves(f) ==
  IF ~ IsGroup(f) THEN <<f>>
  ELSE FlattenSeq([i \in DOMAIN f.subs |->
                     IF IsGroup(f.subs[i]) THEN f.subs[i].subs
                     ELSE <<f.subs[i]>>])

Reduced(q, estimate) ==
  LET projected == {d.hier : d \in ToSet(q.dims)}
      leaves == FlattenSeq([i \in DOMAIN q.filters |-> Leaves(q.filters[i])])
      Apply(n, f) ==
        CASE f.hier \in projected -> n
          [] f.kind = "Range" -> AtLeastOne(n \div 10)
          [] f.kind \in {"Member", "MemberLevel"} /\ ~ f.exclude ->
               IF Len(f.members) < n THEN AtLeastOne(Len(f.members)) ELSE n
          [] OTHER -> n
      reduced[i \in 0 .. Len(leaves)] ==
        IF i = 0 THEN estimate ELSE Apply(reduced[i - 1], leaves[i])
  IN reduced[Len(leaves)]

(***************************************************************************)
(* check_projection_cardinality: the groups in the order their hierarchies *)
(* first appear; the product of the groups is advisory, and stops at the   *)
(* cap.                                                                    *)
(***************************************************************************)
HierarchyOrder(q) ==
  LET firsts == {i \in DOMAIN q.dims :
                   \A j \in 1 .. i - 1 : q.dims[j].hier # q.dims[i].hier}
  IN Chosen([i \in DOMAIN q.dims |-> q.dims[i].hier], firsts)

(* Faulty: a group over the cap is only noted.                             *)
FaultyTakeGroup(q, cap, acc, n) ==
  IF cap > 0 /\ acc.total * n > cap
  THEN [acc EXCEPT !.total = cap, !.advisory = TRUE]
  ELSE [acc EXCEPT !.total = @ * n]
TakeGroup(q, cap, acc, n) ==
  CASE cap > 0 /\ n > cap ->
         LET r == Reduced(q, acc.total * n)
         IN IF r <= cap THEN [acc EXCEPT !.total = r, !.advisory = TRUE]
            ELSE [acc EXCEPT !.ok = FALSE]
    [] cap > 0 /\ n <= cap /\ acc.total * n > cap ->
         [acc EXCEPT !.total = cap, !.advisory = TRUE]
    [] OTHER -> [acc EXCEPT !.total = @ * n]

NextGroup(q, cap, acc, est) ==
  IF acc.ok /\ est # {} THEN TakeGroup(q, cap, acc, Min(est))
  ELSE [acc EXCEPT !.ok = FALSE]

Within(q, cap, end) ==
  /\ end.ok /\ cap > 0
  /\ (IF end.advisory THEN end.total ELSE Reduced(q, end.total)) <= cap

Groups(c, q, cap, hiers) ==
  LET groups[i \in 0 .. Len(hiers)] ==
        IF i = 0 THEN [ok |-> TRUE, total |-> 1, advisory |-> FALSE]
        ELSE NextGroup(q, cap, groups[i - 1], GroupEstimate(c, q, hiers[i], cap))
  IN groups[Len(hiers)]

WithinCardinality(c, q, cap) ==
  q.dims = << >> \/ Within(q, cap, Groups(c, q, cap, HierarchyOrder(q)))

(***************************************************************************)
(* check_projection_guard: a limit within the cap bounds the rows whatever *)
(* the levels hold, and has to say which rows it means.                    *)
(***************************************************************************)
GuardVerdict(c, q, cap) ==
  IF q.limit >= 1 /\ q.limit <= cap
  THEN IF q.order # << >> THEN "Admit" ELSE "UnorderedLimit"
  ELSE IF WithinCardinality(c, q, cap) THEN "Admit" ELSE "TooLarge"

(* The distinct rows the projection has: what the guard estimates.         *)
DistinctRows(c, q) ==
  {[k \in ToSet(q.dims) |-> c.cells[r][k]] : r \in Asked(c, q)}
=============================================================================
