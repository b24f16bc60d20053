---------------------------- MODULE AggregateFold ----------------------------
(***************************************************************************)
(* What one aggregate of one group keeps, how a row is folded into it and  *)
(* how two of them are merged: newAccums, foldRow (with the same switch in *)
(* accumulate and accumulateDirect), minMaxString, mergePartialAgg and     *)
(* buildOutputBatch of exec/aggregate.go, agg_intkey.go and parallel.go.   *)
(*                                                                         *)
(* A slot is aggregate j's share of a group: its int64 accumulator, its    *)
(* non-null count, its string accumulator and its DISTINCT set.  Strings   *)
(* are naturals in string order, "" being 0.  Floats are integers, those   *)
(* beyond MaxFloat standing for the infinities; float sums are taken to be *)
(* exact, which is what a run may rely on for AVG over integers.           *)
(***************************************************************************)
EXTENDS Integers, FiniteSets

CONSTANTS
  MaxInt,    \* the largest int64
  MaxFloat,  \* the largest finite float64
  Null

ASSUME WidthAssumption ==
  /\ MaxInt \in Nat
  /\ MaxFloat \in Nat \ {0}
  /\ Null \notin Int

\* Two's complement: int64 sums wrap.  (Counts of rows stay far below 2^63.)
MinInt == -MaxInt - 1

Wrap(x) == MinInt + ((x - MinInt) % (MaxInt - MinInt + 1))

IsMinMax(ae) == ae.kind \in {"min", "max"}

\* AccumTypeFor: the encoding kind runs in over a column of type srcType.
AccumTypeFor(kind, srcType) ==
  CASE kind = "avg" -> "float"
    [] kind = "sum" -> IF srcType = "float" THEN "float" ELSE "int"
    [] kind \in {"min", "max"} -> srcType
    [] OTHER -> "int"

\* newAccums: the accumulator a new group starts from.
Identity(ae) ==
  CASE ae.kind = "min" /\ ae.accum = "float" -> MaxFloat
    [] ae.kind = "min" /\ ae.accum = "int"   -> MaxInt
    [] ae.kind = "max" /\ ae.accum = "float" -> -MaxFloat
    [] ae.kind = "max" /\ ae.accum = "int"   -> MinInt
    [] OTHER -> 0

NewSlot(ae) == [acc |-> Identity(ae), nn |-> 0, str |-> 0, vals |-> {}]

\* The comparison of MIN and of MAX.
Beats(ae, x, y) == IF ae.kind = "min" THEN x < y ELSE x > y

Better(ae, x, y) == IF Beats(ae, x, y) THEN x ELSE y

\* minMaxString: the first value always wins, for "" is data and no empty marker.
minMaxString(ae, cur, s, seen) == IF seen THEN Better(ae, s, cur) ELSE s

Plus(ae, x, y) == IF ae.accum = "float" THEN x + y ELSE Wrap(x + y)

(***************************************************************************)
(* foldRow: value v of the aggregate's column goes into slot s.  COUNT of * *)
(* reads no column; every other aggregate skips NULL.                      *)
(***************************************************************************)
FoldSlot(ae, s, v) ==
  CASE ae.kind = "count" /\ (ae.col = "*" \/ v # Null) ->
         [s EXCEPT !.acc = @ + 1, !.nn = @ + 1]
    [] ae.kind = "distinct" /\ v # Null ->
         [s EXCEPT !.vals = @ \cup {v}]
    [] ae.kind \in {"sum", "avg"} /\ v # Null ->
         [s EXCEPT !.acc = Plus(ae, @, v), !.nn = @ + 1]
    [] IsMinMax(ae) /\ v # Null /\ ae.accum = "string" ->
         [s EXCEPT !.str = minMaxString(ae, @, v, s.nn > 0), !.nn = @ + 1]
    [] IsMinMax(ae) /\ v # Null /\ ae.accum # "string" ->
         [s EXCEPT !.acc = Better(ae, v, @), !.nn = @ + 1]
    [] OTHER -> s

\* Mutant: the empty partial's "" takes part in the comparison.
MergedStrUnguarded(ae, dst, src) == minMaxString(ae, dst.str, src.str, dst.nn > 0)

\* The string branch of mergePartialAgg.  src.nn = 0 means src saw no value.
MergedStr(ae, dst, src) ==
  IF src.nn = 0 THEN dst.str ELSE minMaxString(ae, dst.str, src.str, dst.nn > 0)

\* mergePartialAgg on a group both sides have: one aggregate.
MergeSlot(ae, dst, src) ==
  LET counted == [dst EXCEPT !.nn = @ + src.nn]
  IN  CASE ae.kind = "count" -> [counted EXCEPT !.acc = @ + src.acc]
        [] ae.kind \in {"sum", "avg"} -> [counted EXCEPT !.acc = Plus(ae, @, src.acc)]
        [] IsMinMax(ae) /\ ae.accum = "string" ->
             [counted EXCEPT !.str = MergedStr(ae, dst, src)]
        [] IsMinMax(ae) /\ ae.accum # "string" ->
             [counted EXCEPT !.acc = Better(ae, src.acc, @)]
        [] OTHER -> counted

\* buildOutputBatch and buildMinMaxVector: the value a slot is emitted as.  AVG is
\* the fraction sum over count.
Emitted(ae, s) ==
  CASE ae.kind = "count"    -> s.acc
    [] ae.kind = "distinct" -> Cardinality(s.vals)
    [] s.nn = 0             -> Null
    [] ae.kind = "avg"      -> <<s.acc, s.nn>>
    [] IsMinMax(ae) /\ ae.accum = "string" -> s.str
    [] OTHER -> s.acc

\* buildEmptyGlobalResult: the one row of a global aggregate over no rows.
EmittedForNothing(ae) == IF ae.kind \in {"count", "distinct"} THEN 0 ELSE Null
=============================================================================
