--------------------------- MODULE ParamValidator ---------------------------
(***************************************************************************)
(* The checks a query passes before any tool runs: mqo-param-validator as  *)
(* the pipeline feeds it (param_validate), and the calculation-context     *)
(* check after it.  A refusal names a rule and the field it is about; the  *)
(* suggestion that goes with it is modelled by the queries a client gets   *)
(* by following it (Revisions).                                            *)
(*                                                                         *)
(* Left out: the rules whose inputs param_validate never fills (semi-      *)
(* additive sums and average-of-averages need an aggregation, channel      *)
(* scope and non-local paths need the facts of a hierarchy, date roles and *)
(* cross-fact paths need roles and subject areas), `Unmapped`, which       *)
(* param_validate discards, and rule 11, whose fuzzy matches only reword   *)
(* what wrong_level refuses and suggests anyway.                           *)
(***************************************************************************)
EXTENDS Mqo

Words(name) == ToSet(name)

(***************************************************************************)
(* What names say.                                                         *)
(***************************************************************************)
DateWords ==
  {"date", "year", "quarter", "month", "week", "day", "calendar", "fiscal"}
LagWords ==
  {"lag", "lagged", "prior", "previous", "prev", "parallelperiod",
   "prevmember", "preceding"}
CalcSuffixes ==
  {<<"price", "growth">>, <<"increase">>, <<"growth">>, <<"change">>,
   <<"yoy">>, <<"vs", "prior">>, <<"prior">>}
RatioWords == {"%", "pct", "rate", "average", "avg"}
AdditiveWords == {"increase", "growth", "delta"}
Qualifiers ==
  [description |-> 6, name |-> 5, desc |-> 5, code |-> 2, key |-> 1, id |-> 0]
ContextWords ==
  {"increase", "growth", "ratio", "change", "yoy", "mom", "qoq"}

RankShapes ==
  {<<"rank">>, <<"ranking">>, <<"row", "number">>, <<"rownum">>,
   <<"rownumber">>, <<"row", "no">>, <<"ordinal">>, <<"position">>,
   <<"row", "rank">>, <<"row", "order">>}

References(name, words) == Words(name) \cap words # {}

(* detect_calc_pattern: the words before the longest calc suffix, if any.  *)
CalcBases(name) ==
  {SubSeq(name, 1, Len(name) - Len(s)) :
     s \in {t \in CalcSuffixes : IsStrictSuffix(t, name)}}
HasCalcPattern(name) == CalcBases(name) # {}
CalcBase(name) ==
  CHOOSE b \in CalcBases(name) : \A o \in CalcBases(name) : Len(b) <= Len(o)

IsPackagedCalc(m) == m.calc \/ HasCalcPattern(m.label)

(* classify_calc: an additive word wins over a ratio word.                 *)
IsRatio(m) == /\ ~ References(m.label, AdditiveWords)
              /\ References(m.label, RatioWords)

(* The measure a reference finds first, by unique name or by label.        *)
NamedBy(c, name) ==
  {i \in DOMAIN c.measures : name \in {c.measures[i].name, c.measures[i].label}}
FirstNamed(c, name) ==
  c.measures[CHOOSE i \in NamedBy(c, name) :
               \A j \in NamedBy(c, name) : i <= j]

(***************************************************************************)
(* Near twins: levels of one core label on several hierarchies.            *)
(***************************************************************************)
IsDateHierarchy(hier) == References(hier, {"date", "calendar", "time"})

TwinCore(label) ==
  LET t == IF Len(label) > 1 /\ Last(label) = "name" THEN Front(label)
           ELSE label
  IN IF Len(t) < 2 THEN t ELSE SubSeq(t, Len(t) - 1, Len(t))

TwinsOf(c, key) ==
  {k \in LevelKeys(c) : /\ ~ IsDateHierarchy(k.hier)
                        /\ TwinCore(k.label) = TwinCore(key.label)}

(* The member to use instead: a display attribute if there is one, on the  *)
(* hierarchy every other member's hierarchy is a decorated path to.        *)
Preferred(twins) ==
  {k \in twins : (\E t \in twins : Last(t.label) = "name") => Last(k.label) = "name"}
Canonicals(twins) ==
  {k \in Preferred(twins) : \A t \in twins : IsSuffix(k.hier, t.hier)}
FirstOf(c, keys) ==
  c.levels[Min({i \in DOMAIN c.levels : c.levels[i].key \in keys})].key

(* The intent guard sees the filters param_validate passes on: `Member`    *)
(* and `Range` of the top level, and no other.                             *)
SeenFilters(q) == {f \in ToSet(q.filters) : f.kind \in {"Member", "Range"}}
MeansOwnHierarchy(q, i) ==
  \/ \E f \in SeenFilters(q) : f.hier = q.dims[i].hier
  \/ \E j \in DOMAIN q.dims \ {i} : q.dims[j].hier = q.dims[i].hier

(***************************************************************************)
(* The rules, each as the set of fields it refuses.                        *)
(***************************************************************************)
WrongLevel(c, q) ==
  {d \in ToSet(q.dims) : d.hier \in Hierarchies(c) /\ d \notin LevelKeys(c)}

(* Faulty: the canonical twin itself is not spared.                        *)
FaultyOutshone(c, d, twins, canonicals) ==
  /\ d \in twins
  /\ Cardinality({k.hier : k \in twins}) > 1
  /\ canonicals # {}
Outshone(c, d, twins, canonicals) ==
  /\ d \in twins
  /\ Cardinality({k.hier : k \in twins}) > 1
  /\ canonicals # {}
  /\ FirstOf(c, canonicals) # d
IsOutshone(c, d, twins) == Outshone(c, d, twins, Canonicals(twins))

NearTwin(c, q) ==
  {q.dims[i] : i \in {i \in DOMAIN q.dims :
                        /\ ~ MeansOwnHierarchy(q, i)
                        /\ IsOutshone(c, q.dims[i], TwinsOf(c, q.dims[i]))}}

(* Every measure reference comes without an aggregation, which counts as a *)
(* sum.                                                                    *)
CalcMisaggregation(c, q) ==
  {Bare(n) : n \in {n \in ToSet(q.measures) :
     /\ NamedBy(c, n) # {}
     /\ IsPackagedCalc(FirstNamed(c, n))
     /\ IsRatio(FirstNamed(c, n))}}

HasDateAxis(q) ==
  \/ \E d \in ToSet(q.dims) :
       References(d.hier, DateWords) \/ References(d.label, DateWords)
  \/ \E f \in SeenFilters(q) :
       References(f.hier, DateWords) \/ References(f.key.label, DateWords)

IsBaseOf(name, calc) ==
  /\ name # calc.label
  /\ Words(CalcBase(calc.label)) \subseteq Words(name)
  /\ ~ HasCalcPattern(name)
BaseRefs(q, calc) == {i \in DOMAIN q.measures : IsBaseOf(q.measures[i], calc)}

Rederived(c, q) ==
  {calc \in Measures(c) :
     /\ HasDateAxis(q)
     /\ HasCalcPattern(calc.label)
     /\ calc.label \notin ToSet(q.measures)
     /\ BaseRefs(q, calc) # {}
     /\ \/ Cardinality(BaseRefs(q, calc)) >= 2
        \/ \E i \in BaseRefs(q, calc) : References(q.measures[i], LagWords)}
Rederivation(c, q) == {Bare(calc.label) : calc \in Rederived(c, q)}

(* check_member_domain: refused only when every level the member could     *)
(* belong to is enumerated and none of them has it.                        *)
Comparable(c, hier, v) ==
  {l \in LevelsOf(c, hier) : l.type = v[1] /\ l.domain # {}}
OutOfDomain(c, hier, v) ==
  /\ Comparable(c, hier, v) # {}
  /\ \A l \in Comparable(c, hier, v) : v \notin l.domain
  /\ \A l \in LevelsOf(c, hier) :
       l.type # "none" /\ (l.type = v[1] => l.domain # {})

Astray(c, f) == {v \in ToSet(f.members) : OutOfDomain(c, f.hier, v)}
MemberDomain(c, q) ==
  {Key(f.hier, NoName) : f \in {f \in SeenFilters(q) :
     f.kind = "Member" /\ Astray(c, f) # {}}}

Mistyped(c, f) ==
  /\ f.key \in LevelKeys(c)
  /\ LET t == LevelAt(c, f.key).type
     IN t # "none" /\ \E v \in ToSet(f.members) : v[1] # t
RangeType(c, q) ==
  {f.key : f \in {f \in SeenFilters(q) : f.kind = "Range" /\ Mistyped(c, f)}}

RoleConfusion(c, q) ==
  LET levels == {k.label : k \in LevelKeys(c)}
  IN {Bare(n) : n \in {n \in ToSet(q.measures) :
                         n \in levels /\ NamedBy(c, n) = {}}}
     \cup {d \in ToSet(q.dims) : NamedBy(c, d.hier) # {} /\ d.hier \notin levels}

(* Rule 6: a rank the catalog does not have, as a measure or a hierarchy.  *)
IsGrounded(c, name) == NamedBy(c, name) # {} \/ Labelled(c, name) # {}
SyntheticRank(c, q) ==
  {Bare(n) : n \in {n \in ToSet(q.measures) \cap RankShapes : ~ IsGrounded(c, n)}}
  \cup {d \in ToSet(q.dims) : /\ d.hier \in RankShapes \ Hierarchies(c)
                              /\ ~ IsGrounded(c, d.hier)}

(* Rule 8: a label that is the end of one label of the catalog.  Rule 10:  *)
(* one that is the end of several, one of them in the hierarchy; it is not *)
(* asked whether the label itself is a level there.                        *)
EndingIn(c, label) == {k \in LevelKeys(c) : IsStrictSuffix(label, k.label)}
Truncated(c, q) ==
  {d \in ToSet(q.dims) :
     /\ Labelled(c, d.label) = {}
     /\ Cardinality({k.label : k \in EndingIn(c, d.label)}) = 1}
EndingHere(c, d) ==
  {k \in EndingIn(c, d.label) : Key(d.hier, k.label) \in LevelKeys(c)}
Ambiguous(c, q) ==
  {d \in ToSet(q.dims) \ Truncated(c, q) :
     Cardinality(EndingIn(c, d.label)) >= 2 /\ Cardinality(EndingHere(c, d)) = 1}

(* Rule 13: of two levels that say the same thing at the same grain, the   *)
(* descriptive one is kept, then the one without a qualifier, then the one *)
(* with the longer qualifier, then the first.                              *)
IsQualified(label) == Last(label) \in DOMAIN Qualifiers
CoGrainCore(label) ==
  IF Len(label) >= 2 /\ IsQualified(label) THEN Front(label) ELSE label
Grade(label) == IF IsQualified(label) THEN Qualifiers[Last(label)] ELSE 4

CoGrain(c, q) ==
  {q.dims[j] : j \in {j \in DOMAIN q.dims : \E i \in DOMAIN q.dims :
     LET a == q.dims[i]
         b == q.dims[j]
     IN /\ {a, b} \subseteq LevelKeys(c)
        /\ a.hier = b.hier /\ a.label # b.label
        /\ CoGrainCore(a.label) = CoGrainCore(b.label)
        /\ \/ Grade(a.label) > Grade(b.label)
           \/ Grade(a.label) = Grade(b.label) /\ i < j}}

Refused(reason, fields) == {[reason |-> reason, at |-> at] : at \in fields}

(* param_validate.                                                         *)
Rejections(c, q) ==
  UNION {Refused("wrong_level", WrongLevel(c, q)),
         Refused("near_twin", NearTwin(c, q)),
         Refused("calc_misaggregation", CalcMisaggregation(c, q)),
         Refused("rederivation", Rederivation(c, q)),
         Refused("member_domain", MemberDomain(c, q)),
         Refused("range_type", RangeType(c, q)),
         Refused("role_confusion", RoleConfusion(c, q)),
         Refused("synthetic_rank", SyntheticRank(c, q)),
         Refused("truncated", Truncated(c, q)),
         Refused("ambiguous", Ambiguous(c, q)),
         Refused("co_grain", CoGrain(c, q))}

(***************************************************************************)
(* check_calc_context: a growth or ratio measure needs some time           *)
(* intelligence or a calculation group of the top level.                   *)
(***************************************************************************)
NeedsContext(c) ==
  {m \in Measures(c) : m.calc \/ References(m.label, ContextWords)}

HasContext(q) ==
  q.ti # << >> \/ \E f \in ToSet(q.filters) : f.kind = "CalcGroup"

(* Faulty: measures are looked up by their label alone.                    *)
FaultyMissingContext(c, q) ==
  IF HasContext(q) THEN {}
  ELSE ToSet(q.measures) \cap {m.label : m \in NeedsContext(c)}
MissingContext(c, q) ==
  IF HasContext(q) THEN {}
  ELSE ToSet(q.measures) \cap UNION {{m.name, m.label} : m \in NeedsContext(c)}

(***************************************************************************)
(* What a client gets by following the suggestion of a refusal: another    *)
(* level of the hierarchy, the canonical twin, the packaged calc, a member *)
(* of the domain, a bound of the level's type, the other slot, the label   *)
(* in full, or one column fewer.  Rule 3 suggests the ratio itself.        *)
(***************************************************************************)
Swap(s, old, new) == [i \in DOMAIN s |-> IF s[i] = old THEN new ELSE s[i]]
Without(s, e) == Chosen(s, {i \in DOMAIN s : s[i] # e})
SuggestedFrom(c, q, hier) ==
  UNION {Comparable(c, hier, v) :
           v \in UNION {Astray(c, f) : f \in {f \in SeenFilters(q) :
                                               f.kind = "Member" /\ f.hier = hier}}}
OnFilters(q, Change(_)) == [q EXCEPT !.filters = [i \in DOMAIN @ |-> Change(@[i])]]

Revisions(c, q, r) ==
  CASE r.reason = "wrong_level" ->
         {[q EXCEPT !.dims = Swap(@, r.at, l.key)] : l \in LevelsOf(c, r.at.hier)}
    [] r.reason = "near_twin" ->
         {[q EXCEPT !.dims = Swap(@, r.at, FirstOf(c, Canonicals(TwinsOf(c, r.at))))]}
    [] r.reason = "calc_misaggregation" -> {q}
    [] r.reason = "rederivation" ->
         {[q EXCEPT !.measures =
             Cons(m.name, Chosen(@, DOMAIN @ \ BaseRefs(q, m)))] :
            m \in {m \in Rederived(c, q) : m.label = r.at.label}}
    [] r.reason = "member_domain" ->
         {OnFilters(q, LAMBDA f : IF f.kind = "Member" /\ f.hier = r.at.hier
                                  THEN [f EXCEPT !.members = <<v>>] ELSE f) :
            v \in UNION {l.domain : l \in SuggestedFrom(c, q, r.at.hier)}}
    [] r.reason = "range_type" ->
         {OnFilters(q, LAMBDA f : IF f.kind = "Range" /\ f.key = r.at
                                  THEN [f EXCEPT !.members = <<v, v>>] ELSE f) :
            v \in {v \in {c.cells[row][r.at] : row \in Rows(c)} :
                     v[1] = LevelAt(c, r.at).type}}
    [] r.reason = "role_confusion" ->
         IF r.at.hier = NoName
         THEN {[q EXCEPT !.measures = Without(@, r.at.label),
                         !.dims = Append(@, k)] : k \in Labelled(c, r.at.label)}
         ELSE {[q EXCEPT !.dims = Without(@, r.at),
                         !.measures = Append(@, r.at.hier)]}
    [] r.reason = "synthetic_rank" ->
         {[q EXCEPT !.measures = Without(@, r.at.label), !.dims = Without(@, r.at)]}
    [] r.reason = "truncated" ->
         {[q EXCEPT !.dims = Swap(@, r.at, Key(r.at.hier, k.label))] :
            k \in EndingIn(c, r.at.label)}
    [] r.reason = "ambiguous" ->
         {[q EXCEPT !.dims = Swap(@, r.at, Key(r.at.hier, k.label))] :
            k \in EndingHere(c, r.at)}
    [] r.reason = "co_grain" -> {[q EXCEPT !.dims = Without(@, r.at)]}
    [] OTHER -> {}

(***************************************************************************)
(* Where advice leads on.  Rule 3 suggests the ratio it refuses, and rule  *)
(* 10 refuses levels that the catalog has: following it from the level     *)
(* "Postal Code" to "Billing Postal Code" one may be sent back by the near *)
(* twins.  Of the catalog it takes that domains have the types of their    *)
(* levels, that names are not empty, and that the name of a calc does not  *)
(* read as the base of one.                                                *)
(***************************************************************************)
Advisable(c, q) ==
  CalcMisaggregation(c, q) = {} /\ Ambiguous(c, q) \cap LevelKeys(c) = {}
Readable(c) ==
  /\ \A l \in Levels(c) : \A v \in l.domain : v[1] = l.type
  /\ NamedBy(c, NoName) = {}
  /\ \A m, calc \in Measures(c) :
       HasCalcPattern(m.label) /\ HasCalcPattern(calc.label) => ~ IsBaseOf(m.name, calc)
=============================================================================
