-------------------------------- MODULE DhOps --------------------------------
(***************************************************************************)
(* What the kernels of dh-ops compute: each takes a dataset of the session *)
(* and derives another from it.  Where HandleSession knows a dataset by    *)
(* its size, here it is its columns and rows, and the store never evicts.  *)
(*                                                                         *)
(* A cell is what it is, and where it lies in the order of its kind: by a  *)
(* rank, which is 0 but for the special Floats, then by a number.  Of the  *)
(* two zeros of Floats, -0 has a place of its own in no order but that of  *)
(* keys.  A text is its place in the order of texts, the empty one first;  *)
(* "intkey" and "floatkey" are the digits that as_sort_key makes of a      *)
(* number, which compare as texts do.  Numbers are those that a Float      *)
(* holds exactly; the sign of a NaN, the mean, the columns of Booleans and *)
(* of the types no query result has, and the search for a part of a text   *)
(* are left out.                                                           *)
(***************************************************************************)
EXTENDS Integers, FiniteSetsExt, SequencesExt

CONSTANTS
  Width,        \* the bits of a number
  SumStart,     \* the zero a sum starts with, which depends on the compiler's library
  TakesMinus(_, _, _, _),  \* when the minimum or maximum of two zeros is -0
  Tables,       \* the results of queries, as rows of JSON values
  AggFns,       \* functions asked for, of "sum", "min", "max", "count", "count_distinct"
  FilterOps,    \* operators asked for, of those of HoldsAt
  Periods,      \* of "month", "quarter", "year"
  TopSizes,     \* how many rows top_n is asked for
  MaxQueries,   \* bound on the queries
  MaxSets       \* bound on the datasets, beyond which only the newest is drilled, once

VARIABLE sets   \* the datasets, each with its parent and how it was made

vars == <<sets>>

Half == 2^(Width - 1)

IsSequence(s) == s \in Seq(ToSet(s))

-----------------------------------------------------------------------------
\* Cells.
Null == <<"null", 0, 0>>
IntCell(n) == <<"int", 0, n>>
FloatCell(n) == <<"float", 0, n>>
Text(n) == <<"str", 0, n>>
Empty == Text(0)
NaN == <<"float", 2, 0>>
Inf == <<"float", 1, 0>>
MinusInf == <<"float", -1, 0>>
MinusZero == <<"float", 0, 0, "minus">>
Zeros == {FloatCell(0), MinusZero}

\* Half is a power of two, of which the provers know nothing, and there are
\* fewer datasets than numbers.
ASSUME OpsConstantsOK ==
  /\ Width \in Nat \ {0} /\ SumStart \in Zeros /\ Half \in Nat \ {0} /\ TopSizes \subseteq Nat
  /\ AggFns \subseteq {"sum", "min", "max", "count", "count_distinct"}
  /\ Periods \subseteq {"month", "quarter", "year"}
  /\ MaxQueries \in Nat /\ MaxSets \in Nat \ {0} /\ MaxSets + 5 < Half

Below(v, w) == v[2] < w[2] \/ (v[2] = w[2] /\ v[3] < w[3])

IsNumber(v) == v[1] \in {"int", "float"}
IsText(v) == v[1] \notin {"int", "float", "null"}

\* The number of a cell as a Float.
AsFloat(v) == IF v[1] = "float" THEN v ELSE FloatCell(v[3])

\* Equality of numbers, and of cells as JSON: the zeros are equal.
Unsigned(v) == IF v = MinusZero THEN FloatCell(0) ELSE v
Same(v, w) == Unsigned(v) = Unsigned(w)

Infinite(v) == v \in {Inf, MinusInf}

\* Addition and subtraction of Floats; -0 adds nothing.
Plus(v, w) ==
  IF v = NaN \/ w = NaN \/ (Infinite(v) /\ Infinite(w) /\ v # w) THEN NaN
  ELSE IF Infinite(v) THEN v
  ELSE IF Infinite(w) THEN w
  ELSE IF v = MinusZero THEN w
  ELSE IF w = MinusZero THEN v
  ELSE FloatCell(v[3] + w[3])

Negated(v) ==
  CASE v = NaN -> NaN
    [] v = FloatCell(0) -> MinusZero
    [] OTHER -> <<"float", -v[2], -v[3]>>

Minus(v, w) == Plus(v, Negated(w))

\* A change in percent, rounded down.
Percent(delta, base) ==
  IF delta = NaN \/ Infinite(base) THEN NaN
  ELSE IF Infinite(delta) \/ delta \in Zeros THEN IF base[3] > 0 THEN delta ELSE Negated(delta)
  ELSE FloatCell(IF base[3] > 0 THEN (delta[3] * 100) \div base[3]
                 ELSE (-delta[3] * 100) \div (-base[3]))

(***************************************************************************)
(* f64::min and f64::max over some Floats: NaN only where there is no      *)
(* other, and of two zeros whichever the build takes.                      *)
(***************************************************************************)
Settled(v, V, zero) == IF v \in Zeros /\ Zeros \subseteq V THEN zero ELSE v

Least(V, zero) ==
  IF V \ {NaN} = {} THEN NaN
  ELSE Settled(CHOOSE v \in V \ {NaN} : \A w \in V \ {NaN} : ~Below(w, v), V, zero)

Greatest(V, zero) ==
  IF V \ {NaN} = {} THEN NaN
  ELSE Settled(CHOOSE v \in V \ {NaN} : \A w \in V \ {NaN} : ~Below(v, w), V, zero)

EitherZero(f, ds, c, R) == IF TakesMinus(f, ds, c, R) THEN MinusZero ELSE FloatCell(0)

\* What a client reads: JSON has no NaN and no infinity.
Json(v) == IF v = NaN \/ Infinite(v) THEN Null ELSE v

\* The bits of a negative Float are flipped.
FloatDigits(v) == IF v[3] < 0 \/ v = MinusZero THEN v[3] - 1 ELSE v[3]

\* Faulty: the sign of an integer is not biased.
KeyUnbiased(v) ==
  CASE v = Null -> Empty
    [] v[1] = "int" -> <<"intkey", 0, v[3] % (2 * Half)>>
    [] v[1] = "float" -> <<"floatkey", v[2], FloatDigits(v)>>
    [] OTHER -> v

(***************************************************************************)
(* as_sort_key: an integer shifted by half the range; the bits of a Float  *)
(* with the sign flipped, or all of them if it is negative, which stand in *)
(* the order of the numbers, -0 before 0 and NaN last; null as the empty   *)
(* text.                                                                   *)
(***************************************************************************)
Key(v) ==
  CASE v = Null -> Empty
    [] v[1] = "int" -> <<"intkey", 0, (v[3] + Half) % (2 * Half)>>
    [] v[1] = "float" -> <<"floatkey", v[2], FloatDigits(v)>>
    [] OTHER -> v

\* The order of two texts of a column.
TextBefore(v, w) == v # w /\ (v = Empty \/ (w # Empty /\ Below(v, w)))

\* The elements of S in the order Before.
Arranged(S, Before(_, _)) ==
  [i \in 1..Cardinality(S) |-> CHOOSE x \in S : Cardinality({y \in S : Before(y, x)}) = i - 1]

Ascending(S) == Arranged(S, LAMBDA a, b : a < b)

\* Results of queries have rows of one cell for each column, and leave room
\* for the columns and rows that kernels add.
ASSUME TablesOK == \A t \in Tables :
  /\ IsSequence(t.names) /\ IsSequence(t.rows)
  /\ Len(t.names) + MaxSets < Half /\ Len(t.rows) + MaxSets < Half
  /\ \A r \in DOMAIN t.rows :
       /\ IsSequence(t.rows[r]) /\ Len(t.rows[r]) = Len(t.names)
       /\ \A c \in DOMAIN t.names : LET v == t.rows[r][c] IN
            \/ v = Null
            \/ v = Text(v[3]) /\ v[3] \in Nat
            \/ v = FloatCell(v[3]) /\ v[3] \in Int
            \/ v = MinusZero
            \/ v = IntCell(v[3]) /\ v[3] \in (-Half)..(Half - 1)

-----------------------------------------------------------------------------
\* Datasets: columns with a name, a declared type and the type of their data.
Column(name, dtype, kind) == [name |-> name, dtype |-> dtype, kind |-> kind]

FloatColumn(name) == Column(name, "float", "float")

Rows(ds) == 1..Len(ds.rows)

Cols(ds) == 1..Len(ds.cols)

\* The first column of that name, 0 for none.
ColIdx(ds, name) ==
  LET at == {c \in Cols(ds) : ds.cols[c].name = name} IN IF at = {} THEN 0 ELSE Min(at)

\* The columns that a client can name.
Named(ds) == {c \in Cols(ds) : ColIdx(ds, ds.cols[c].name) = c}

\* The columns that a client can read: a row of JSON holds the last of those
\* that have the same name.
Latest(ds) == {c \in Cols(ds) : \A d \in Cols(ds) : ds.cols[d].name = ds.cols[c].name => d <= c}

Selected(ds, R) == [cols |-> ds.cols, rows |-> [i \in DOMAIN R |-> ds.rows[R[i]]]]

(***************************************************************************)
(* json_rows_to_dataset: a column with a number is one of numbers, and     *)
(* whatever else it holds becomes null; it holds integers if it has        *)
(* nothing but them.                                                       *)
(***************************************************************************)
KindOf(values) ==
  LET types == {v[1] : v \in values} \ {"null"} IN
    CASE types = {"int"} -> "int"
      [] types # {"int"} /\ types \cap {"int", "float"} # {} -> "float"
      [] OTHER -> "str"

BuiltCell(kind, v) ==
  CASE kind # "float" -> v
    [] kind = "float" /\ IsNumber(v) -> AsFloat(v)
    [] OTHER -> Null

Built(table) ==
  LET kind == [c \in DOMAIN table.names |-> KindOf({table.rows[r][c] : r \in DOMAIN table.rows})]
  IN IF table.rows = <<>> THEN [cols |-> <<>>, rows |-> <<>>]
     ELSE [cols |-> [c \in DOMAIN table.names |-> Column(table.names[c], kind[c], kind[c])],
           rows |-> [r \in DOMAIN table.rows |->
                      [c \in DOMAIN table.names |-> BuiltCell(kind[c], table.rows[r][c])]]]

-----------------------------------------------------------------------------
\* aggregate.
KeyAt(ds, by, r) == [j \in DOMAIN by |-> Key(ds.rows[r][by[j]])]

KeyBefore(k, l) ==
  \E n \in DOMAIN k : TextBefore(k[n], l[n]) /\ \A m \in 1..(n - 1) : k[m] = l[m]

KeysOf(ds, by) == Arranged({KeyAt(ds, by, r) : r \in Rows(ds)}, KeyBefore)

GroupOf(ds, by, k) == {r \in Rows(ds) : KeyAt(ds, by, r) = k}

\* The rows of R with a number in column c.
Numbered(ds, c, R) == {r \in R : IsNumber(ds.rows[r][c])}

\* The sum of v[1], ..., v[n], without the zero it starts with.
Sum(v, n) ==
  LET upTo[k \in 0..n] == IF k = 0 THEN MinusZero ELSE Plus(upTo[k - 1], v[k])
  IN upTo[n]

Total(ds, c, R) ==
  LET Part(r) == IF r \in Numbered(ds, c, R) THEN AsFloat(ds.rows[r][c]) ELSE MinusZero
  IN Plus(SumStart, Sum([r \in Rows(ds) |-> Part(r)], Len(ds.rows)))

Numbers(ds, c, R) == {AsFloat(ds.rows[r][c]) : r \in Numbered(ds, c, R)}

AggValue(f, ds, c, R) ==
  CASE f = "count" -> FloatCell(Cardinality(R))
    [] f = "count_distinct" -> FloatCell(Cardinality({Key(ds.rows[r][c]) : r \in R}))
    [] f = "sum" -> Total(ds, c, R)
    [] f \in {"min", "max"} /\ Numbers(ds, c, R) = {} -> Null
    [] f = "min" /\ Numbers(ds, c, R) # {} -> Least(Numbers(ds, c, R), EitherZero(f, ds, c, R))
    [] f = "max" /\ Numbers(ds, c, R) # {} -> Greatest(Numbers(ds, c, R), EitherZero(f, ds, c, R))

\* Faulty: a number stays one in a column of texts.
ShownRaw(ds, c, r) == ds.rows[r][c]

\* How a group's cell is shown: a text as in its first row, a number by its key.
Shown(ds, c, r) == IF ds.cols[c].kind = "str" THEN ds.rows[r][c] ELSE Key(ds.rows[r][c])

\* The column keeps its declared type and has texts for data.
ShownColumn(ds, c) == [ds.cols[c] EXCEPT !.kind = "str"]

Aggregated(ds, by, f, m) ==
  LET keys == KeysOf(ds, by) IN
    [cols |-> [j \in DOMAIN by |-> ShownColumn(ds, by[j])]
                \o <<FloatColumn(<<f>> \o ds.cols[m].name)>>,
     rows |-> [i \in DOMAIN keys |->
       LET R == GroupOf(ds, by, keys[i]) IN
         [j \in DOMAIN by |-> Shown(ds, by[j], Min(R))] \o <<AggValue(f, ds, m, R)>>]]

-----------------------------------------------------------------------------
\* filter.
Comparable(v, w) == (IsNumber(v) /\ v # NaN /\ IsNumber(w)) \/ (IsText(v) /\ IsText(w))

Lower(v, w) == IF IsNumber(v) THEN Below(v, w) ELSE TextBefore(v, w)

\* A cell against the value of a predicate; equality is that of JSON values,
\* for which 1 and 1.0 are different, and the zeros of Floats are not.
HoldsAt(op, v, w) ==
  CASE op = "eq" -> Same(Json(v), w)
    [] op = "ne" -> ~Same(Json(v), w)
    [] op = "lt" -> Comparable(v, w) /\ Lower(v, w)
    [] op = "le" -> Comparable(v, w) /\ ~Lower(w, v)
    [] op = "gt" -> Comparable(v, w) /\ Lower(w, v)
    [] op = "ge" -> Comparable(v, w) /\ ~Lower(v, w)
    [] op = "is_null" -> Json(v) = Null
    [] op = "is_not_null" -> Json(v) # Null

\* A column that is not there makes the predicate false.
Holds(ds, p, r) ==
  LET c == ColIdx(ds, p.name) IN c # 0 /\ HoldsAt(p.op, ds.rows[r][c], p.val)

\* The predicates of a compound, of which all or any must hold.
Filtered(ds, any, preds) ==
  Selected(ds, Ascending({r \in Rows(ds) :
    IF any THEN \E p \in preds : Holds(ds, p, r) ELSE \A p \in preds : Holds(ds, p, r)}))

-----------------------------------------------------------------------------
\* sort: stable, by several keys.
SortBefore(ds, keys, a, b) ==
  LET At(k, r) == Key(ds.rows[r][keys[k].col])
      differ == {k \in DOMAIN keys : At(k, a) # At(k, b)}
      k1 == Min(differ)
  IN IF differ = {} THEN a < b
     ELSE IF keys[k1].desc THEN TextBefore(At(k1, b), At(k1, a))
     ELSE TextBefore(At(k1, a), At(k1, b))

SortOrder(ds, keys) == Arranged(Rows(ds), LAMBDA a, b : SortBefore(ds, keys, a, b))

-----------------------------------------------------------------------------
\* top_n: a row without a number ranks as the lowest, a tie and a NaN go by
\* the rows' places.
Score(ds, c, r) == IF IsNumber(ds.rows[r][c]) THEN AsFloat(ds.rows[r][c]) ELSE MinusInf

Outranks(ds, c, bottom, a, b) ==
  LET x == Score(ds, c, a)  y == Score(ds, c, b) IN
    IF x = NaN \/ y = NaN \/ Same(x, y) THEN a < b
    ELSE IF bottom THEN Below(x, y) ELSE Below(y, x)

(***************************************************************************)
(* The rows that are kept.  With a NaN the order may contradict itself;    *)
(* sort_by then leaves open which rows come first.                         *)
(***************************************************************************)
TopRows(ds, c, bottom, n) ==
  LET Above(a, b) == Outranks(ds, c, bottom, a, b)
      size == Min({n, Len(ds.rows)})
      order == Arranged(Rows(ds), Above)
  IN IF \A a1, a2, a3 \in Rows(ds) : Above(a1, a2) /\ Above(a2, a3) => Above(a1, a3)
     THEN {{order[i] : i \in 1..size}}
     ELSE kSubset(size, Rows(ds))

-----------------------------------------------------------------------------
\* Faulty: a combination without numbers counts as nothing.
CellZero(f, ds, m, R) ==
  IF Numbers(ds, m, R) = {} \/ f = "sum" THEN Total(ds, m, R)
  ELSE IF f = "min" THEN Least(Numbers(ds, m, R) \cup {Inf}, EitherZero(f, ds, m, R))
  ELSE IF f = "max" THEN Greatest(Numbers(ds, m, R) \cup {MinusInf}, EitherZero(f, ds, m, R))
  ELSE FloatCell(Cardinality(Numbered(ds, m, R)))

\* A cell of pivot: null without numbers; minimum and maximum start from infinity.
PivotCell(f, ds, m, R) ==
  CASE Numbers(ds, m, R) = {} -> Null
    [] Numbers(ds, m, R) # {} /\ f = "sum" -> Total(ds, m, R)
    [] Numbers(ds, m, R) # {} /\ f = "min" ->
         Least(Numbers(ds, m, R) \cup {Inf}, EitherZero(f, ds, m, R))
    [] Numbers(ds, m, R) # {} /\ f = "max" ->
         Greatest(Numbers(ds, m, R) \cup {MinusInf}, EitherZero(f, ds, m, R))
    [] OTHER -> FloatCell(Cardinality(Numbered(ds, m, R)))

\* pivot: a row for each key of one column, a column for each of the other.
Pivoted(ds, row, col, m, f) ==
  LET down == KeysOf(ds, <<row>>)
      across == KeysOf(ds, <<col>>)
  IN [cols |-> <<ShownColumn(ds, row)>>
                 \o [j \in DOMAIN across |-> FloatColumn(<<"pivot">> \o across[j][1])],
      rows |-> [i \in DOMAIN down |-> down[i] \o
                 [j \in DOMAIN across |->
                    PivotCell(f, ds, m, GroupOf(ds, <<row>>, down[i]) \cap GroupOf(ds, <<col>>, across[j]))]]]

-----------------------------------------------------------------------------
\* compare: each row of a with the last row of b that has its key and a number.
KeyByName(ds, names, r) ==
  [j \in DOMAIN names |-> LET c == ColIdx(ds, names[j]) IN
                            IF c = 0 THEN Empty ELSE Key(ds.rows[r][c])]

Found(ds, names, m, k) ==
  LET R == {r \in Rows(ds) : KeyByName(ds, names, r) = k}
      N == IF m = 0 THEN {} ELSE Numbered(ds, m, R)
  IN IF N = {} THEN Null ELSE AsFloat(ds.rows[Max(N)][m])

Change(v, w) == IF v = Null \/ w = Null THEN Null ELSE Minus(w, v)

PctChange(v, w) ==
  IF Change(v, w) = Null THEN Null
  ELSE IF v \in Zeros THEN NaN
  ELSE Percent(Change(v, w), v)

Compared(da, db, names, measure) ==
  LET key == [j \in DOMAIN names |-> ColIdx(da, names[j])]
      ma == ColIdx(da, measure)
      Row(r) == LET v == IF IsNumber(da.rows[r][ma]) THEN AsFloat(da.rows[r][ma]) ELSE Null
                    w == Found(db, names, ColIdx(db, measure), KeyAt(da, key, r))
                IN [j \in DOMAIN key |-> Shown(da, key[j], r)] \o <<v, w, Change(v, w), PctChange(v, w)>>
  IN [cols |-> [j \in DOMAIN key |-> ShownColumn(da, key[j])]
                 \o <<FloatColumn(measure \o <<"a">>), FloatColumn(measure \o <<"b">>),
                      FloatColumn(<<"delta">>), FloatColumn(<<"pct_change">>)>>,
      rows |-> [r \in Rows(da) |-> Row(r)]]

-----------------------------------------------------------------------------
(***************************************************************************)
(* bucket_date.  A text is the first day of the month of its number; of a  *)
(* number's key, which dates from an aggregate, only the first digits are  *)
(* looked at.                                                              *)
(***************************************************************************)
Bucket(v, period) ==
  CASE v = Empty \/ (v[1] = "str" /\ period = "month") -> v
    [] v # Empty /\ v[1] = "str" /\ period = "quarter" -> <<"quarter", 0, (v[3] + 2) \div 3>>
    [] v # Empty /\ v[1] = "str" /\ period = "year" -> <<"year", 0, (v[3] + 11) \div 12>>
    [] OTHER -> <<"digits", 0, 0>>

DateOf(v) == IF IsText(v) THEN v ELSE Empty

\* dataset_period_over_period: each bucket beside the one before it that has
\* rows.  (The program sorts the columns of the result by their names.)
PeriodOverPeriod(ds, date, period, m) ==
  LET In(r) == Bucket(DateOf(ds.rows[r][date]), period)
      buckets == Arranged({In(r) : r \in Rows(ds)}, TextBefore)
      Of(i) == Total(ds, m, {r \in Rows(ds) : In(r) = buckets[i] /\ IsNumber(Json(ds.rows[r][m]))})
      Since(i) == Minus(Of(i), Of(i - 1))
      name == ds.cols[m].name
  IN Built([names |-> <<<<"period_bucket">>, name, name \o <<"prior">>,
                        name \o <<"delta">>, name \o <<"pct_delta">>>>,
            rows |-> [i \in DOMAIN buckets |->
              <<buckets[i], Of(i)>> \o
                IF i = 1 THEN <<Null, Null, Null>>
                ELSE <<Of(i - 1), Since(i),
                       IF Of(i - 1) \in Zeros THEN Null ELSE Percent(Since(i), Of(i - 1))>>]])

-----------------------------------------------------------------------------
\* summarize: by the declared type of a column; of data of another type
\* nothing is seen.
Stats(ds, c) ==
  LET all == Numbers(ds, c, Rows(ds))
      distinct == IntCell(Cardinality({ds.rows[r][c] : r \in Rows(ds)}))
  IN CASE ds.cols[c].dtype # ds.cols[c].kind -> <<Null, Null, Null, IntCell(0)>>
       [] ds.cols[c].dtype = ds.cols[c].kind /\ all = {} -> <<Null, Null, Null, distinct>>
       [] OTHER -> <<Least(all \cup {Inf}, EitherZero("min", ds, c, Rows(ds))),
                     Greatest(all \cup {MinusInf}, EitherZero("max", ds, c, Rows(ds))),
                     Total(ds, c, Rows(ds)), distinct>>

\* describe: a row for each column, named by its place.
Described(ds) ==
  [cols |-> <<Column(<<"col_name">>, "str", "str"), FloatColumn(<<"min">>), FloatColumn(<<"max">>),
              FloatColumn(<<"sum">>), Column(<<"distinct">>, "int", "int")>>,
   rows |-> [c \in Cols(ds) |-> <<Text(c)>> \o Stats(ds, c)]]

-----------------------------------------------------------------------------
\* drill: the rows of a dataset whose cells are those asked for.
Drilled(ds, asked) ==
  Selected(ds, Ascending({r \in Rows(ds) :
    \A a \in asked : LET c == ColIdx(ds, a.name) IN c # 0 /\ Same(Json(ds.rows[r][c]), a.val)}))

\* Faulty: the first of the chain.
DetailOldest(i) ==
  LET up[j \in 0..Len(sets)] ==
        IF j = 0 THEN 0
        ELSE IF up[sets[j].parent] # 0 THEN up[sets[j].parent]
        ELSE IF Len(sets[j].rows) > Len(sets[i].rows) THEN j ELSE 0
  IN up[sets[i].parent]

\* The nearest ancestor that has more rows, 0 for none.
DetailOf(i) ==
  LET up[j \in 0..Len(sets)] ==
        IF j = 0 \/ Len(sets[j].rows) > Len(sets[i].rows) THEN j ELSE up[sets[j].parent]
  IN up[sets[i].parent]

\* What a client asks for that drills a row: the texts it was shown.
GroupRow(ds, r) ==
  {[name |-> ds.cols[c].name, val |-> Json(ds.rows[r][c])] : c \in {d \in Latest(ds) : ds.cols[d].kind = "str"}}

-----------------------------------------------------------------------------
Init == sets = <<>>

Added(ds, parent, op) ==
  sets' = Append(sets, [cols |-> ds.cols, rows |-> ds.rows, parent |-> parent, op |-> op])

\* put_rows.
Query ==
  /\ Cardinality({i \in DOMAIN sets : sets[i].parent = 0}) < MaxQueries
  /\ \E t \in Tables : Added(Built(t), 0, [name |-> "query"])

\* Columns to group by, the empty sequence included.
Groupings(ds) ==
  {<<>>} \cup {<<c>> : c \in Named(ds)} \cup {b \in Named(ds) \X Named(ds) : b[1] # b[2]}

Aggregate(i) ==
  \E by \in Groupings(sets[i]), f \in AggFns, m \in Named(sets[i]) :
    Added(Aggregated(sets[i], by, f, m), i, [name |-> "aggregate", by |-> by, f |-> f, m |-> m])

\* The predicates a client may send: of a column of the dataset and a value
\* that it has shown.
Predicates(ds) ==
  {[name |-> ds.cols[c].name, op |-> op, val |-> Json(ds.rows[r][c])] :
     c \in Latest(ds), r \in Rows(ds), op \in FilterOps}

\* One predicate, or two the second of which is an equality.
Filter(i) ==
  \E any \in BOOLEAN, p, q \in Predicates(sets[i]) :
    /\ p = q \/ q.op = "eq"
    /\ Added(Filtered(sets[i], any, {p, q}), i, [name |-> "filter"])

Sort(i) ==
  \E c, d \in Named(sets[i]), desc \in BOOLEAN :
    LET keys == <<[col |-> c, desc |-> desc], [col |-> d, desc |-> ~desc]>> IN
      Added(Selected(sets[i], SortOrder(sets[i], keys)), i, [name |-> "sort"])

TopN(i) ==
  \E c \in Named(sets[i]), bottom \in BOOLEAN, n \in TopSizes :
    \E R \in TopRows(sets[i], c, bottom, n) :
      Added(Selected(sets[i], Ascending(R)), i, [name |-> "top_n", c |-> c, bottom |-> bottom, n |-> n])

Pivot(i) ==
  \E row, col, m \in Named(sets[i]), f \in AggFns :
    Added(Pivoted(sets[i], row, col, m, f), i, [name |-> "pivot", row |-> row, col |-> col, m |-> m, f |-> f])

Compare(i, j) ==
  \E c, m \in Named(sets[i]) :
    LET names == <<sets[i].cols[c].name>>  measure == sets[i].cols[m].name IN
      Added(Compared(sets[i], sets[j], names, measure), i,
            [name |-> "compare", other |-> j, names |-> names, measure |-> measure])

\* A measure by the name of the bucket, which would replace it, is left out.
Periodic(i) ==
  \E date, m \in Latest(sets[i]), period \in Periods :
    /\ sets[i].cols[m].name # <<"period_bucket">>
    /\ Added(PeriodOverPeriod(sets[i], date, period, m), i, [name |-> "period", m |-> m])

Describe(i) == Added(Described(sets[i]), i, [name |-> "describe"])

Drill(i) ==
  \E r \in Rows(sets[i]) :
    /\ DetailOf(i) # 0
    /\ Added(Drilled(sets[DetailOf(i)], GroupRow(sets[i], r)), DetailOf(i),
             [name |-> "drill", of |-> i, r |-> r])

Next ==
  \/ /\ Len(sets) < MaxSets
     /\ \/ Query
        \/ \E i \in DOMAIN sets :
             \/ Aggregate(i) \/ Filter(i) \/ Sort(i) \/ TopN(i) \/ Pivot(i)
             \/ Periodic(i) \/ Describe(i) \/ Drill(i)
             \/ \E j \in DOMAIN sets : Compare(i, j)
  \/ Len(sets) = MaxSets /\ Drill(MaxSets)

Spec == Init /\ [][Next]_vars

-----------------------------------------------------------------------------
Newest == sets[Len(sets)]

Source == sets[Newest.parent]

Made(name) == sets # <<>> /\ Newest.op.name = name

\* Not both zeros, which differ as keys only.
OneZero(ds, c) == \E zero \in Zeros : \A r \in Rows(ds) : ds.rows[r][c] # zero

Finite(ds, c) == \A r \in Rows(ds) : ds.rows[r][c] # NaN /\ ~Infinite(ds.rows[r][c])

(***************************************************************************)
(* What Dataset::new demands of every kernel: each row has a cell for each *)
(* column, of the type of the column's data or null.                       *)
(***************************************************************************)
TypeOK ==
  \A i \in DOMAIN sets : \A r \in Rows(sets[i]) :
    /\ Len(sets[i].rows[r]) = Len(sets[i].cols)
    /\ \A c \in Cols(sets[i]) :
         LET v == sets[i].rows[r][c]  kind == sets[i].cols[c].kind IN
           v = Null \/ v[1] = kind \/ (kind = "str" /\ IsText(v))

(***************************************************************************)
(* top_n, which compares numbers, keeps the rows that sort, which compares *)
(* the texts of their keys, puts first, ties and nulls included, in a      *)
(* column that has not both zeros: for top_n those tie, for sort they do   *)
(* not.                                                                    *)
(***************************************************************************)
RanksAgree ==
  Made("top_n") =>
    LET op == Newest.op
        order == SortOrder(Source, <<[col |-> op.c, desc |-> ~op.bottom]>>)
        first == {order[i] : i \in 1..Min({op.n, Len(Source.rows)})}
    IN Source.cols[op.c].kind # "str" /\ Finite(Source, op.c) /\ OneZero(Source, op.c) =>
         Newest.rows = Selected(Source, Ascending(first)).rows

(***************************************************************************)
(* An aggregate of an aggregate is the aggregate by fewer columns, however *)
(* the keys were shown in between, but for the sign of a zero, as in the   *)
(* properties below: a minimum may be either of the two.                   *)
(***************************************************************************)
RollsUp ==
  Made("aggregate") /\ Source.op.name = "aggregate" =>
    LET op == Newest.op  inner == Source.op
        direct == Aggregated(sets[Source.parent], [j \in DOMAIN op.by |-> inner.by[op.by[j]]], inner.f, inner.m)
        Summary(ds) == {<<KeyAt(ds, [j \in DOMAIN op.by |-> j], r), Unsigned(ds.rows[r][Len(ds.cols)])>> : r \in Rows(ds)}
    IN /\ op.m = Len(Source.cols) /\ \A j \in DOMAIN op.by : op.by[j] < op.m
       /\ op.f = (IF inner.f = "count" THEN "sum" ELSE inner.f) /\ op.f \in {"sum", "min", "max"}
       => Summary(Newest) = Summary(direct) /\ Len(Newest.rows) = Len(direct.rows)

(***************************************************************************)
(* A cell of a pivot is the aggregate by both columns, null only where     *)
(* that has no row or no number.                                           *)
(***************************************************************************)
PivotsFlatten ==
  Made("pivot") /\ Newest.op.f \in {"sum", "min", "max"} /\ Finite(Source, Newest.op.m) =>
    LET op == Newest.op
        flat == Aggregated(Source, <<op.row, op.col>>, op.f, op.m)
        At(i, j) == {Unsigned(flat.rows[r][3]) : r \in {q \in Rows(flat) :
          Key(flat.rows[q][1]) = Newest.rows[i][1] /\ <<"pivot">> \o Key(flat.rows[q][2]) = Newest.cols[j].name}}
    IN \A i \in Rows(Newest), j \in 2..Len(Newest.cols) :
         \/ At(i, j) = {Unsigned(Newest.rows[i][j])}
         \/ Newest.rows[i][j] = Null /\ At(i, j) \subseteq {FloatCell(0)}

\* The periods of a column add up to the whole column.
PeriodsAddUp ==
  Made("period") /\ Newest.rows # <<>> =>
    Total(Newest, 2, Rows(Newest)) =
      Total(Source, Newest.op.m, {r \in Rows(Source) : IsNumber(Json(Source.rows[r][Newest.op.m]))})

(***************************************************************************)
(* Where no key comes twice, comparing the other way round finds the same  *)
(* pairs of rows with the change reversed.                                 *)
(***************************************************************************)
ComparesSwap ==
  Made("compare") =>
    LET op == Newest.op  other == sets[op.other]
        Once(ds) == \A r, q \in Rows(ds) : r # q => KeyByName(ds, op.names, r) # KeyByName(ds, op.names, q)
        back == Compared(other, Source, op.names, op.measure)
    IN ColIdx(other, op.names[1]) # 0 /\ ColIdx(other, op.measure) # 0 /\ Once(Source) /\ Once(other) =>
         \A r \in Rows(Source), q \in Rows(other) :
           KeyByName(Source, op.names, r) = KeyByName(other, op.names, q) =>
             /\ Newest.rows[r][2] = back.rows[q][3] /\ Newest.rows[r][3] = back.rows[q][2]
             /\ Newest.rows[r][4] # Null => Same(Newest.rows[r][4], Negated(back.rows[q][4]))

(***************************************************************************)
(* The kernels that group rows give the same answers along different ways: *)
(* in two steps or in one, as a crosstab or as a list, by period or        *)
(* whole, from one side or from the other.                                 *)
(***************************************************************************)
KernelsAgree == RollsUp /\ PivotsFlatten /\ PeriodsAddUp /\ ComparesSwap

(***************************************************************************)
(* Drilling a row of an aggregate by columns of texts that has fewer rows  *)
(* than the dataset it was made of gives the rows of that dataset it       *)
(* stands for, unless null and the empty text share a group or one column  *)
(* hides another of the same name.                                         *)
(***************************************************************************)
DrillFindsGroup ==
  Made("drill") =>
    LET g == sets[Newest.op.of]  row == g.rows[Newest.op.r]
        Of == sets[g.parent]
        Plain(c) == /\ Of.cols[c].kind = "str"
                    /\ ~({Null, Empty} \subseteq {Of.rows[r][c] : r \in Rows(Of)})
    IN g.op.name = "aggregate" /\ Len(Of.rows) > Len(g.rows) /\ (\A j \in DOMAIN g.op.by : Plain(g.op.by[j]) /\ j \in Latest(g)) =>
         LET group == GroupOf(Of, g.op.by, KeyAt(g, [j \in DOMAIN g.op.by |-> j], Newest.op.r)) IN
           /\ Newest.rows = Selected(Of, Ascending(group)).rows
           /\ g.op.f = "count" => row[Len(row)] = FloatCell(Len(Newest.rows))
==============================================================================
