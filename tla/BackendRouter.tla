---------------------------- MODULE BackendRouter ----------------------------
(***************************************************************************)
(* mqo-route: which backend a bound query goes to, and the SQL it is given *)
(* when that backend is SQL.                                               *)
(*                                                                         *)
(* A bound query b is the query with the columns its names were bound to.  *)
(* The text a compiler writes is modelled by what it tells the engine: the *)
(* columns to return, the rows its filters keep, the calculation members   *)
(* and time intelligence it applies, the order and the limit, and whether  *)
(* it names a column the cube does not have.                               *)
(***************************************************************************)
EXTENDS Mqo

CONSTANT EstimateWidth    \* the estimate is a product modulo 2^64
ASSUME EstimateWidthAssumption == EstimateWidth \in Nat \ {0}

Text(by, b, rows) ==
  [by |-> by, measures |-> [i \in DOMAIN b.measures |-> b.measures[i].name],
   dims |-> [i \in DOMAIN b.dims |-> b.dims[i].key], rows |-> rows,
   calc |-> {}, ti |-> << >>, order |-> << >>, limit |-> NoLimit,
   unknown |-> FALSE]

CalcMembers(q) == {f \in ToSet(q.filters) : f.kind = "CalcGroup"}

(***************************************************************************)
(* estimate_rows: one factor per projected level, a level without          *)
(* statistics counting 1, capped by the members listed for its hierarchy.  *)
(***************************************************************************)
Factor(q, l) ==
  Min({IF l.stat = 0 THEN 1 ELSE l.stat} \cup
      {Len(f.members) : f \in {f \in ToSet(q.filters) :
                                 f.kind = "Member" /\ f.hier = l.key.hier}})

Product(q, b) ==
  FoldSet(LAMBDA l, n : n * Factor(q, l), 1, ToSet(b.dims))

EstimateRows(q, b) ==
  LET n == Product(q, b) % EstimateWidth IN IF n = 0 THEN 1 ELSE n

(***************************************************************************)
(* The SQL projection.  Columns are display labels; `pick` says which of   *)
(* the levels with that label the engine takes it for.                     *)
(***************************************************************************)
HasLabel(c, label) == Labelled(c, label) # {}

(* The column a filter is put on: for `Member`, the first bound level of   *)
(* its hierarchy, or else a column named like the hierarchy.               *)
BoundOn(b, hier) == SelectSeq(b.dims, LAMBDA l : l.key.hier = hier)
SqlColumn(b, f) ==
  IF f.kind # "Member" THEN f.key.label
  ELSE IF BoundOn(b, f.hier) = << >> THEN f.hier
       ELSE Head(BoundOn(b, f.hier)).key.label

(* Which filters turn into a predicate.                                    *)
SqlKeeps(f) ==
  \/ f.kind = "Range"
  \/ IsGroup(f) /\ f.subs # << >>
  \/ f.kind \in {"Member", "MemberLevel"} /\ f.members # << >>

(* Predicates that say nothing are left out, and groups left without any.  *)
SqlKept(fs) == Chosen(fs, {i \in DOMAIN fs : SqlKeeps(fs[i])})
SqlInner(f) == [f EXCEPT !.subs = SqlKept(@)]
SqlOuter(f) == [f EXCEPT !.subs = SqlKept([i \in DOMAIN @ |-> SqlInner(@[i])])]
SqlPredicates(q) == SqlKept([i \in DOMAIN q.filters |-> SqlOuter(q.filters[i])])

SqlHolds(c, b, pick, f, r) ==
  LET v == c.cells[r][pick[SqlColumn(b, f)]]
  IN IF f.kind = "Range"
     THEN ~ Above(f.members[1], v) /\ ~ Above(v, f.members[2])
     ELSE (v \in ToSet(f.members)) # f.exclude

SqlProjection(c, q, b, pick) ==
  LET fs == ToSet(SqlPredicates(q))
      known == \A f \in fs : \A g \in Parts(f) :
                 IsGroup(g) \/ HasLabel(c, SqlColumn(b, g))
      kept == {r \in Rows(c) : \A f \in fs :
                 Combined(LAMBDA g : SqlHolds(c, b, pick, g, r), f)}
  IN [Text("sql", b, IF known THEN kept ELSE {}) EXCEPT
        !.order = q.order, !.limit = q.limit, !.unknown = ~ known]

(***************************************************************************)
(* route: shape flags ask for MDX; otherwise more rows than the threshold  *)
(* (after the limit) ask for SQL, and only then is there an SQL text.      *)
(***************************************************************************)
RouteBackend(q, b, threshold, shaped) ==
  LET est == EstimateRows(q, b)
      bounded == IF q.limit = NoLimit \/ est <= q.limit THEN est ELSE q.limit
  IN IF shaped THEN "mdx" ELSE IF bounded > threshold THEN "sql" ELSE "dax"

RouteRefuses(q) == q.measures = << >> /\ ~ IsProjection(q)
=============================================================================
