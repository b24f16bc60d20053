--------------------------- MODULE MCAggregateMerge ---------------------------
(***************************************************************************)
(* Values for model checking AggregateMerge: three dictionaries that share *)
(* strings under different local codes and together overflow a two-bit     *)
(* field, batches with NULL keys, NULL values, the string "", the ends of  *)
(* the integer range and no rows at all.                                   *)
(***************************************************************************)
EXTENDS AggregateMerge

\* In GROUP BY column 1 the third dictionary brings the strings of either other one
\* to four or five: too many for KeyWidth = 2.
MCDictOf == [d1 |-> <<<<"a", "b">>, <<"x">>>>,
             d2 |-> <<<<"b", "c">>, <<"y", "x">>>>,
             d3 |-> <<<<"d", "a", "e">>, <<"z">>>>]

Row(g1, g2, n, s, f) == [g |-> <<g1, g2>>, n |-> n, s |-> s, f |-> f]

Batch(d, rows) == [dict |-> d, rows |-> rows]

MCBatches ==
  {Batch("d1", <<Row("a", "x", 3, 1, 2), Row("b", "x", Null, Null, Null)>>),
   Batch("d1", <<Row("b", "x", 1, 0, -2), Row(Null, "x", 2, 2, 1)>>),
   Batch("d2", <<Row("c", "y", -4, 2, 0), Row("b", "x", -4, 1, 1)>>),
   Batch("d2", <<Row("b", Null, 3, Null, 2), Row("c", "x", Null, 0, Null)>>),
   Batch("d2", <<>>),
   Batch("d3", <<Row("a", "z", 1, Null, Null), Row("e", Null, Null, 1, 2)>>),
   Batch("d3", <<Row("d", "z", 0, 1, -1), Row("e", "z", -1, 2, Null)>>)}

Agg(kind, col, type) == [kind |-> kind, col |-> col, accum |-> AccumTypeFor(kind, type)]

Query(cols, dict, aggs) == [cols |-> cols, dict |-> dict, aggs |-> aggs]

MCQueries ==
  {Query(2, TRUE,  <<Agg("count", "*", "int"), Agg("sum", "n", "int"), Agg("min", "s", "string")>>),
   Query(1, TRUE,  <<Agg("count", "n", "int"), Agg("avg", "n", "int"), Agg("min", "s", "string")>>),
   Query(1, FALSE, <<Agg("min", "n", "int"), Agg("max", "n", "int"), Agg("max", "f", "float")>>),
   Query(0, FALSE, <<Agg("count", "*", "int"), Agg("sum", "n", "int"), Agg("min", "f", "float"),
                     Agg("min", "s", "string"), Agg("max", "s", "string")>>),
   Query(1, TRUE,  <<Agg("distinct", "n", "int"), Agg("sum", "n", "int")>>),
   Query(0, FALSE, <<Agg("distinct", "s", "string"), Agg("max", "n", "int")>>)}

MCInputs == BoundedSeq(MCBatches, 3)

\* A FLOAT64 column with an infinity in it (vexqgen parses "Inf").
MCInfinities ==
  BoundedSeq({Batch("d1", <<Row("a", "x", 0, 0, MaxFloat + 1)>>),
              Batch("d1", <<Row("b", "x", 0, 0, 1)>>)}, 2)

MCFloatQueries == {Query(1, FALSE, <<Agg("min", "f", "float"), Agg("max", "f", "float")>>)}
=============================================================================
