---------------------------- MODULE CatalogBinder ----------------------------
(***************************************************************************)
(* mqo-bind: names of a query resolved to columns of the catalog.  A       *)
(* reference is looked up in tiers and a later tier is tried only when the *)
(* earlier ones find nothing, so a binding is the set of columns the first *)
(* tier that finds any has found: bound when there is one, ambiguous when  *)
(* there are more.                                                         *)
(***************************************************************************)
EXTENDS ParamValidator

(* alias_resolve: the label less its first words, or less a type word.     *)
Aliases(label) ==
  (Suffixes(label) \ {label, << >>})
  \cup (IF Len(label) >= 3 /\ Last(label) \in {"name", "description", "code"}
        THEN {Front(label)} ELSE {})

FirstFound(tiers) ==
  IF \E i \in DOMAIN tiers : tiers[i] # {}
  THEN tiers[CHOOSE i \in DOMAIN tiers :
               tiers[i] # {} /\ \A j \in 1 .. i - 1 : tiers[j] = {}]
  ELSE {}

(* resolve_measure.                                                        *)
MeasuresFor(c, name) ==
  FirstFound(<<{m \in Measures(c) : m.name = name},
               {m \in Measures(c) : m.label = name},
               {m \in Measures(c) : name \in Aliases(m.label)}>>)

(* resolve_level, within the hierarchy the selection names.                *)
LevelsFor(c, d) ==
  FirstFound(<<{l \in Levels(c) : l.key = d},
               {l \in LevelsOf(c, d.hier) : d.label \in Aliases(l.key.label)}>>)

CalcMembersFor(c, f) ==
  {g \in c.calcGroups : g.group = f.hier /\ g.member = f.key.label}

(* The candidates of everything a query refers to.                         *)
Candidates(c, q) ==
  {MeasuresFor(c, n) : n \in ToSet(q.measures)}
  \cup {LevelsFor(c, d) : d \in ToSet(q.dims)}
  \cup {CalcMembersFor(c, f) :
          f \in {f \in ToSet(q.filters) : f.kind = "CalcGroup"}}

(***************************************************************************)
(* check_member_filters: decides only where every level of the hierarchy   *)
(* is enumerated.                                                          *)
(***************************************************************************)
Enumerated(c, hier) ==
  /\ LevelsOf(c, hier) # {}
  /\ \A l \in LevelsOf(c, hier) : l.domain # {}
LevelsWith(c, hier, v) == {l \in LevelsOf(c, hier) : v \in l.domain}

(* How many levels have each member of the filters that are decided.       *)
MemberCounts(c, q) ==
  UNION {{Cardinality(LevelsWith(c, f.hier, v)) : v \in ToSet(f.members)} :
           f \in {f \in ToSet(q.filters) :
                    f.kind = "Member" /\ Enumerated(c, f.hier)}}

(***************************************************************************)
(* check_cross_hierarchy_member_level_filters: a pinned level on a near    *)
(* twin of a projected hierarchy, the two sharing an attribute family.     *)
(***************************************************************************)
Captions(c) == {k.label : k \in LevelKeys(c)}

(* canonical_level_label: the longest proper suffix that is a caption.     *)
Family(c, label) ==
  LET shorter == (Suffixes(label) \ {label, << >>}) \cap Captions(c)
  IN IF shorter = {} THEN label
     ELSE CHOOSE s \in shorter : \A o \in shorter : Len(o) <= Len(s)
Families(c, hier) == {Family(c, l.key.label) : l \in LevelsOf(c, hier)}

CrossHierarchy(c, q) ==
  \E f \in ToSet(q.filters), d \in ToSet(q.dims) :
     /\ f.kind = "MemberLevel"
     /\ f.hier # d.hier
     /\ Families(c, f.hier) \cap Families(c, d.hier) # {}

(***************************************************************************)
(* Facts.  A column without facts is conformed and joins with everything.  *)
(***************************************************************************)
Joins(a, b) == a.facts = {} \/ b.facts = {} \/ a.facts \cap b.facts # {}

CrossFact(measures, levels) ==
  \E m \in ToSet(measures), l \in levels : ~ Joins(m, l)

IsDateLevel(l) == IsDateHierarchy(l.key.hier)

(* bind_with_date_roles: a measure needs one date level it joins with; the *)
(* date levels are then left out of the cross-fact check.                  *)
(* Faulty: one date role alone is taken to be the right one.               *)
FaultyDateRoleClash(measures, levels) ==
  LET dates == {l \in ToSet(levels) : IsDateLevel(l)}
  IN /\ Cardinality(dates) > 1
     /\ \E m \in ToSet(measures) : \A l \in dates : ~ Joins(m, l)
DateRoleClash(measures, levels) ==
  LET dates == {l \in ToSet(levels) : IsDateLevel(l)}
  IN dates # {} /\ \E m \in ToSet(measures) : \A l \in dates : ~ Joins(m, l)

(***************************************************************************)
(* The outcome, in the order the binder reports: the exit codes are 3 for  *)
(* ambiguous, 4 for what is not found or not bound, 6 for a date role, 5   *)
(* for a cross-fact path.                                                  *)
(***************************************************************************)
TheOnly(S) == CHOOSE x \in S : TRUE

BoundMeasures(c, q) ==
  [i \in DOMAIN q.measures |-> TheOnly(MeasuresFor(c, q.measures[i]))]
BoundDims(c, q) == [i \in DOMAIN q.dims |-> TheOnly(LevelsFor(c, q.dims[i]))]

Binding(c, q) ==
  LET found  == Candidates(c, q)
      ms     == BoundMeasures(c, q)
      ls     == BoundDims(c, q)
      counts == MemberCounts(c, q)
  IN IF \E s \in found : Cardinality(s) > 1 THEN "ambiguous"
     ELSE IF {} \in found THEN "not_found"
     ELSE IF 0 \in counts THEN "member_unbound"
     ELSE IF \E n \in counts : n > 1 THEN "member_ambiguous"
     ELSE IF CrossHierarchy(c, q) THEN "cross_hierarchy"
     ELSE IF c.enriched /\ DateRoleClash(ms, ls) THEN "date_role"
     ELSE IF c.enriched /\ CrossFact(ms, {l \in ToSet(ls) : ~ IsDateLevel(l)})
     THEN "cross_fact" ELSE "bound"

(* bind_step: what the pipeline makes of the exit code; it does not know 6.*)
BindError(outcome) ==
  CASE outcome = "cross_fact" -> "CrossFactIncompatible"
    [] outcome = "date_role"  -> "Subprocess"
    [] OTHER                  -> "NotGround"
=============================================================================
