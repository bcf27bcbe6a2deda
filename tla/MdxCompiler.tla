---------------------------- MODULE MdxCompiler ----------------------------
(***************************************************************************)
(* mqo-mdx: the MDX a bound query is compiled to.  The filters become one  *)
(* slicer tuple `[hierarchy].[member]`, of the members that are listed:    *)
(* ranges and exclusions are left out, and the parts of a group are put in *)
(* whatever joins them.  Order, limit and time intelligence are left out.  *)
(***************************************************************************)
EXTENDS BackendRouter

MdxDeclines(b) ==
  \/ b.measures = << >>
  \/ \E i \in DOMAIN b.measures : b.measures[i].semi /\ b.measures[i].triggers = {}

(* The listed members of a filter that reach the slicer.                   *)
Sliced(f) ==
  IF f.kind \in {"Member", "MemberLevel"} /\ ~ f.exclude
  THEN {<<f.hier, v>> : v \in ToSet(f.members)} ELSE {}
Slicer(q) ==
  UNION {IF IsGroup(f) THEN UNION {Sliced(g) : g \in ToSet(f.subs)} ELSE Sliced(f) :
           f \in ToSet(q.filters)}

(* A tuple names a cell: a row has to have every member of it.             *)
MdxText(c, q, b) ==
  [Text("mdx", b, {r \in Rows(c) : \A s \in Slicer(q) :
                     \E l \in LevelsOf(c, s[1]) : c.cells[r][l.key] = s[2]}) EXCEPT
     !.calc = CalcMembers(q)]
=============================================================================
