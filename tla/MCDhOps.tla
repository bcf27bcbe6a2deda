------------------------------- MODULE MCDhOps -------------------------------
(***************************************************************************)
(* Results of two queries for DhOps: a text, a year that arrives as a      *)
(* Float, an integer.  The first has negative numbers, a null in each      *)
(* column and two rows of a text; the second an empty text beside a null   *)
(* and a base of either zero.  A sum starts with -0, and of two zeros      *)
(* f64::min and f64::max take the last.                                    *)
(***************************************************************************)
EXTENDS DhOps

Names == <<<<"region">>, <<"year">>, <<"sales">>>>

TwoRegions ==
  [names |-> Names,
   rows |-> <<<<Text(13), FloatCell(1), IntCell(2)>>,
              <<Text(2), FloatCell(-1), IntCell(-1)>>,
              <<Text(13), Null, IntCell(-1)>>,
              <<Text(2), FloatCell(1), Null>>>>]

Blanks ==
  [names |-> Names,
   rows |-> <<<<Text(2), IntCell(1), IntCell(0)>>,
              <<Empty, FloatCell(2), IntCell(2)>>,
              <<Null, FloatCell(2), MinusZero>>>>]

MCTables == {TwoRegions, Blanks}

LastIsMinus(f, ds, c, R) ==
  LET zeros == {r \in R : ds.rows[r][c] \in Zeros}
  IN zeros # {} /\ ds.rows[Max(zeros)][c] = MinusZero
=============================================================================
