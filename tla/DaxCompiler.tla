---------------------------- MODULE DaxCompiler ----------------------------
(***************************************************************************)
(* mqo-dax: the DAX a bound query is compiled to, and the queries it       *)
(* declines.  `pick` resolves a bare label: the compiler looks it up in a  *)
(* hash map from unique names to labels and takes the first it meets.      *)
(***************************************************************************)
EXTENDS BackendRouter

FirstRanked(ls) == CHOOSE l \in ls : \A o \in ls : l.rank <= o.rank

IsYear(v) == v[1] = "integer" /\ v[2] \in 1000 .. 9999

LevelsWithMember(c, hier, v) == {l \in LevelsOf(c, hier) : v \in l.domain}

(***************************************************************************)
(* resolve_member_level: the level a `Member` filter is put on, found by   *)
(* scanning the captured domains for the first member alone; a level the   *)
(* query groups by wins, a level called a year wins for a year.            *)
(***************************************************************************)
Settled(b, among) ==
  LET grouped == among \cap ToSet(b.dims)
  IN CASE grouped # {}                             -> {FirstRanked(grouped)}
       [] grouped = {} /\ Cardinality(among) = 1 -> among
       [] OTHER                                    -> {}
Years(ls) == {l \in ls : "year" \in ToSet(l.key.label)}

ScannedLevel(b, v, found) ==
  IF Cardinality(found) > 1 /\ IsYear(v) /\ Settled(b, Years(found)) # {}
  THEN Settled(b, Years(found)) ELSE Settled(b, found)

(* A hierarchy without any captured domain falls back to its first level.  *)
AnyDomain(c, hier) == \E l \in LevelsOf(c, hier) : l.domain # {}
FirstLevel(c, hier) ==
  LET ls == SelectSeq(c.levels, LAMBDA l : l.key.hier = hier)
  IN IF ls = << >> THEN {} ELSE {Head(ls)}

MemberGround(c, b, f) ==
  CASE f.members = << >>                            -> {}
    [] f.members # << >> /\ AnyDomain(c, f.hier)   ->
         ScannedLevel(b, Head(f.members),
                      LevelsWithMember(c, f.hier, Head(f.members)))
    [] OTHER                                        -> FirstLevel(c, f.hier)

(* canonical_level_key: a unique name as it is, a bare label by its pick.  *)
GroundKey(c, pick, key) ==
  IF key.hier # NoName THEN {key} \cap LevelKeys(c)
  ELSE IF HasLabel(c, key.label) THEN {pick[key.label]} ELSE {}

(* The level a leaf is put on; empty when the compiler cannot tell.        *)
Ground(c, b, pick, f) ==
  IF f.kind = "Member" THEN {l.key : l \in MemberGround(c, b, f)}
  ELSE GroundKey(c, pick, f.key)

(* Faulty: exclusion is not negated.                                       *)
FaultyDaxHolds(c, b, pick, f, r) ==
  IF f.kind = "CalcGroup" THEN TRUE
  ELSE \A k \in Ground(c, b, pick, f) :
         IF f.kind = "Range"
         THEN /\ ~ Above(f.members[1], c.cells[r][k])
              /\ ~ Above(c.cells[r][k], f.members[2])
         ELSE c.cells[r][k] \in ToSet(f.members)
DaxHolds(c, b, pick, f, r) ==
  IF f.kind = "CalcGroup" THEN TRUE
  ELSE \A k \in Ground(c, b, pick, f) :
         IF f.kind = "Range"
         THEN /\ ~ Above(f.members[1], c.cells[r][k])
              /\ ~ Above(c.cells[r][k], f.members[2])
         ELSE (c.cells[r][k] \in ToSet(f.members)) # f.exclude

(***************************************************************************)
(* What the compiler declines.                                             *)
(***************************************************************************)
(* filter_predicate and filter_expr_ctx: leaves that cannot be grounded,   *)
(* empty groups, calculation members within a group; and, for a projection *)
(* whose filters are joined into one predicate, calculation members at all.*)
Ungrounded(c, b, pick, f) ==
  /\ f.kind \in {"Member", "MemberLevel", "Range"}
  /\ Ground(c, b, pick, f) = {}
JoinsFilters(q) ==
  /\ IsProjection(q) /\ Len(q.filters) >= 2
  /\ \A f \in ToSet(q.filters) : f.kind # "Or"

DeclinesFilter(c, q, b, pick, f) ==
  \/ \E g \in Parts(f) : \/ Ungrounded(c, b, pick, g)
                         \/ IsGroup(g) /\ g.subs = << >>
                         \/ g.kind = "CalcGroup" /\ g # f
  \/ f.kind = "CalcGroup" /\ JoinsFilters(q)

(* build_measure_pairs and the gate on ungrounded references.              *)
NeedsDateTable(t) == t.op \in {"YoY", "PriorPeriod", "ToDate", "RunningTotal"}
DeclinesTime(c, b, t) ==
  CASE NeedsDateTable(t) -> ~ c.dateTable
    [] t.op = "Rank"     -> \A i \in DOMAIN b.measures : b.measures[i].name # t.by
    [] t.op = "Share"    -> t.key \notin LevelKeys(c)
    [] OTHER             -> FALSE

(* Order keys of a projection have to be levels; those of a measure query  *)
(* fall back to a measure name.                                            *)
DeclinesOrder(c, q, pick) ==
  IsProjection(q) /\ \E o \in ToSet(q.order) : GroundKey(c, pick, o.key) = {}

DaxDeclines(c, q, b, pick) ==
  \/ b.measures = << >> /\ ~ IsProjection(q)
  \/ b.measures # << >> /\ \E t \in ToSet(q.ti) : DeclinesTime(c, b, t)
  \/ \E f \in ToSet(q.filters) : DeclinesFilter(c, q, b, pick, f)
  \/ DeclinesOrder(c, q, pick)

(***************************************************************************)
(* The text.  A rank is a TOPN of its own and hides the limit; a limit is  *)
(* a TOPN too, by the first measure whatever the order keys say, except in *)
(* a projection, where the order keys are the sort of the TOPN.            *)
(***************************************************************************)
Ranks(q) == SelectSeq(q.ti, LAMBDA t : t.op = "Rank")

DaxText(c, q, b, pick) ==
  LET kept == {r \in Rows(c) : \A f \in ToSet(q.filters) :
                 Combined(LAMBDA g : DaxHolds(c, b, pick, g, r), f)}
  IN [Text("dax", b, kept) EXCEPT
        !.calc = CalcMembers(q),
        !.ti = q.ti,
        !.limit = IF Ranks(q) # << >> THEN Head(Ranks(q)).n ELSE q.limit,
        !.order = IF q.limit # NoLimit /\ ~ IsProjection(q) THEN << >>
                  ELSE q.order]
=============================================================================
