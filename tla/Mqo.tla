-------------------------------- MODULE Mqo --------------------------------
(***************************************************************************)
(* The vocabulary of the query pipeline: the Multidimensional Query Object *)
(* a client submits (mqo-spec) and the catalog it is read against.         *)
(*                                                                         *)
(* A name is the sequence of its words (hierarchies are split at "_",      *)
(* labels at blanks), because every rule about names compares words.  A    *)
(* level is known by its key: its hierarchy and its label, the two parts   *)
(* of the unique name `hierarchy.[label]`; a bare label has no hierarchy.  *)
(* A member key, a range bound and a cell are a value: a type and a        *)
(* number, since the rules compare values only for type, equality, order.  *)
(***************************************************************************)
EXTENDS Integers, FiniteSets, SequencesExt

NoName == << >>
Key(hier, label) == [hier |-> hier, label |-> label]
Bare(label) == Key(NoName, label)
NoLimit == -1

\* The elements of s at the indices in K, in their order.
Chosen(s, K) ==
  LET chosen[i \in 0 .. Len(s)] ==
        IF i = 0 THEN << >>
        ELSE IF i \in K THEN Append(chosen[i - 1], s[i]) ELSE chosen[i - 1]
  IN  chosen[Len(s)]

IsSequence(s) == s \in Seq(ToSet(s))

(***************************************************************************)
(* Filters.  Every filter has the same fields, so that two of them can     *)
(* always be compared; the unused ones are empty.                          *)
(***************************************************************************)
FilterOf(kind, hier, key, members, exclude, subs) ==
  [kind |-> kind, hier |-> hier, key |-> key, members |-> members,
   exclude |-> exclude, subs |-> subs]

Member(hier, members) ==
  FilterOf("Member", hier, Bare(NoName), members, FALSE, << >>)
MemberLevel(hier, key, members, exclude) ==
  FilterOf("MemberLevel", hier, key, members, exclude, << >>)
Between(key, lo, hi) ==
  FilterOf("Range", key.hier, key, <<lo, hi>>, FALSE, << >>)
CalcGroupMember(group, member) ==
  FilterOf("CalcGroup", group, Bare(member), << >>, FALSE, << >>)
AllOf(subs) == FilterOf("And", NoName, Bare(NoName), << >>, FALSE, subs)
AnyOf(subs) == FilterOf("Or", NoName, Bare(NoName), << >>, FALSE, subs)

IsGroup(f) == f.kind \in {"And", "Or"}

(* A filter read with a meaning for the leaves; groups nest twice at most, *)
(* the depth every compiler stops at.                                      *)
Combined(Leaf(_), f) ==
  LET Flat(g) ==
        CASE g.kind = "And" -> \A i \in DOMAIN g.subs : Leaf(g.subs[i])
          [] g.kind = "Or"  -> \E i \in DOMAIN g.subs : Leaf(g.subs[i])
          [] OTHER          -> Leaf(g)
  IN CASE f.kind = "And" -> \A i \in DOMAIN f.subs : Flat(f.subs[i])
       [] f.kind = "Or"  -> \E i \in DOMAIN f.subs : Flat(f.subs[i])
       [] OTHER          -> Leaf(f)

(* A filter and the filters inside it, to the same depth.                  *)
Parts(f) ==
  {f} \cup ToSet(f.subs) \cup UNION {ToSet(g.subs) : g \in ToSet(f.subs)}

(* The type Filter: only `MemberLevel` can exclude, and a group holds       *)
(* leaves or groups of leaves, which is the depth the DAX compiler accepts  *)
(* (it declines "filter nesting exceeds two levels").                        *)
IsFilter(f) ==
  /\ DOMAIN f = {"kind", "hier", "key", "members", "exclude", "subs"}
  /\ f.kind \in {"Member", "MemberLevel", "Range", "CalcGroup", "And", "Or"}
  /\ f.exclude \in BOOLEAN /\ (f.kind = "Member" => f.exclude = FALSE)
  /\ IsSequence(f.members) /\ IsSequence(f.subs)
WellFormedFilter(f) ==
  /\ \A g \in Parts(f) : IsFilter(g)
  /\ \A g \in ToSet(f.subs) : \A h \in ToSet(g.subs) : ~ IsGroup(h)

(***************************************************************************)
(* Queries.                                                                *)
(***************************************************************************)
Query(measures, dims, filters) ==
  [model |-> [cube |-> "cube", spelling |-> "lower"],
   measures |-> measures, dims |-> dims, filters |-> filters, ti |-> << >>,
   order |-> << >>, limit |-> NoLimit, projection |-> FALSE]

(* The type Mqo.                                                           *)
WellFormed(q) ==
  /\ DOMAIN q = {"model", "measures", "dims", "filters", "ti", "order", "limit",
                 "projection"}
  /\ IsSequence(q.measures) /\ IsSequence(q.dims) /\ IsSequence(q.filters)
  /\ q.limit \in Nat \cup {NoLimit}
  /\ \A f \in ToSet(q.filters) : WellFormedFilter(f)

(* Mqo::is_projection: measureless on purpose, with something to project.  *)
IsProjection(q) == q.projection /\ q.measures = << >> /\ q.dims # << >>

(* RangeBound::gt_bound: bounds of two types are never out of order.       *)
Above(a, b) == a[1] = b[1] /\ a[2] > b[2]

(* mqo_spec::validate.  Only the filters of the top level are looked at.   *)
Valid(q) ==
  /\ q.measures # << >> \/ IsProjection(q)
  /\ q.limit # 0
  /\ \A f \in ToSet(q.filters) :
       f.kind = "Range" => ~ Above(f.members[1], f.members[2])

(***************************************************************************)
(* Catalogs: the columns captured from the engine, what the enrichment     *)
(* knows of each (the facts a column belongs to; none means conformed),    *)
(* the calculation groups, and the cells of the cube, row by row, which no *)
(* part of the server sees.                                                *)
(***************************************************************************)
Levels(c) == ToSet(c.levels)
LevelKeys(c) == {l.key : l \in Levels(c)}
Hierarchies(c) == {k.hier : k \in LevelKeys(c)}
LevelsOf(c, hier) == {l \in Levels(c) : l.key.hier = hier}
Labelled(c, label) == {k \in LevelKeys(c) : k.label = label}
Measures(c) == ToSet(c.measures)
Rows(c) == DOMAIN c.cells
LevelAt(c, key) == CHOOSE l \in Levels(c) : l.key = key

(* What the ingestion makes of the columns it is given.                     *)
WellFormedCatalog(c) ==
  /\ IsSequence(c.levels) /\ IsSequence(c.cells)
  /\ \A l \in Levels(c) : /\ l.key = Key(l.key.hier, l.key.label)
                          /\ l.card \in Nat /\ l.rank \in Nat
                          /\ IsFiniteSet(l.domain)
  /\ \A m, n \in Measures(c) : m.name = n.name => m = n

(* The levels a client may mean by a key.                                  *)
Meant(c, key) == IF key.hier = NoName THEN Labelled(c, key.label)
                 ELSE {key} \cap LevelKeys(c)

(***************************************************************************)
(* What the filters of a query ask for, as the doc comments of mqo-spec    *)
(* state it: `Member` keeps the rows with one of the listed keys within    *)
(* the hierarchy, `MemberLevel` at (or, excluding, away from) the named    *)
(* level, `Range` those whose level falls in [lo, hi].  A calculation      *)
(* group chooses how measures are computed and keeps every row.            *)
(***************************************************************************)
AskedOf(c, f, r) ==
  CASE f.kind = "Member" ->
         \E l \in LevelsOf(c, f.hier) : c.cells[r][l.key] \in ToSet(f.members)
    [] f.kind = "MemberLevel" ->
         \E k \in Meant(c, Key(f.hier, f.key.label)) :
            (c.cells[r][k] \in ToSet(f.members)) # f.exclude
    [] f.kind = "Range" ->
         \E k \in Meant(c, f.key) : /\ ~ Above(f.members[1], c.cells[r][k])
                                    /\ ~ Above(c.cells[r][k], f.members[2])
    [] OTHER -> TRUE

Asked(c, q) ==
  {r \in Rows(c) : \A f \in ToSet(q.filters) :
                     Combined(LAMBDA g : AskedOf(c, g, r), f)}
=============================================================================
