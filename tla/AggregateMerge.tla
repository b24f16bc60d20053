---------------------------- MODULE AggregateMerge ----------------------------
(***************************************************************************)
(* What HashAggregate computes, serially and from merged partials:         *)
(* accumulate with its three paths (no GROUP BY, packed integer keys over  *)
(* global dictionary codes, string keys), the fallback from the second to  *)
(* the third, materializeToStringMaps and mergePartialAgg.                 *)
(*                                                                         *)
(* A group key is the tuple of its GROUP BY values: buildKey's encoding    *)
(* (tag, length, bytes) is injective.  A batch is the rows its selection   *)
(* vector keeps, with the dictionary of the row group it comes from.  Any  *)
(* worker may be given any batch, which allows more than the morsel queue. *)
(***************************************************************************)
EXTENDS AggregateFold, Sequences, SequencesExt

CONSTANTS
  NumPartials,  \* workers of the parallel plan
  KeyWidth,     \* bits per GROUP BY column in a packed key (32, 16 or 8)
  DictOf,       \* dictionary -> GROUP BY column -> its strings, by local code
  Queries,      \* [cols: GROUP BY columns, dict: are they dictionary strings, aggs]
  Inputs        \* the inputs: sequences of batches [dict, rows]

VARIABLES
  query,    \* the aggregate being run
  serial,   \* HashAggregate over a child, or the parallel plan
  input,    \* the batches of the table
  next,     \* the first batch nobody has accumulated
  partial,  \* worker -> its HashAggregate
  fed,      \* worker -> the batches it accumulated
  done,     \* workers that finished
  merged,   \* the merged string-keyed table
  absorbed  \* workers merged into it

vars == <<query, serial, input, next, partial, fed, done, merged, absorbed>>

Workers == IF serial THEN {1} ELSE 1 .. NumPartials

HasDistinct(q) == \E j \in DOMAIN q.aggs : q.aggs[j].kind = "distinct"

EmptyTable == [keys |-> <<>>, groups |-> <<>>]

\* initMaps: the state of a HashAggregate before its first batch.
InitMaps(q) ==
  [decided |-> FALSE, enabled |-> FALSE,
   globalDicts |-> [c \in 1 .. q.cols |-> <<>>],
   remaps |-> [c \in 1 .. q.cols |-> <<>>],
   ints |-> EmptyTable, strs |-> EmptyTable]

Init ==
  /\ query \in Queries
  /\ serial \in BOOLEAN
  /\ HasDistinct(query) => serial
  /\ input \in Inputs
  /\ next = 1
  /\ partial = [w \in Workers |-> InitMaps(query)]
  /\ fed = [w \in Workers |-> <<>>]
  /\ done = {}
  /\ merged = EmptyTable
  /\ absorbed = {}

-----------------------------------------------------------------------------
\* buildKey, and the sample kept for output: the row's GROUP BY values.
KeyOf(q, row) == SubSeq(row.g, 1, q.cols)

ValueOf(ae, row) == IF ae.col = "*" THEN Null ELSE row[ae.col]

NewGroup(q, sample) ==
  [sample |-> sample, slots |-> [j \in DOMAIN q.aggs |-> NewSlot(q.aggs[j])]]

\* A group the table does not have yet is created and its key appended.
Ensure(q, tbl, key, sample) ==
  IF key \in DOMAIN tbl.groups THEN tbl
  ELSE [keys |-> Append(tbl.keys, key), groups |-> (key :> NewGroup(q, sample)) @@ tbl.groups]

\* accumulateOneRow, and the body of the loops in accumulate and accumulateIntKey.
AddRow(q, tbl, key, row) ==
  LET with == Ensure(q, tbl, key, KeyOf(q, row))
  IN  [with EXCEPT !.groups[key].slots =
         [j \in DOMAIN q.aggs |-> FoldSlot(q.aggs[j], @[j], ValueOf(q.aggs[j], row))]]

\* accumulateStringKey.
AddRows(q, tbl, rows) ==
  LET add(t, row) == AddRow(q, t, KeyOf(q, row), row) IN FoldLeft(add, tbl, rows)

\* accumulateDirect: the one implicit group exists even after a batch without rows.
accumulateDirect(q, p, b) ==
  [p EXCEPT !.strs = AddRows(q, Ensure(q, @, <<>>, <<>>), b.rows)]

-----------------------------------------------------------------------------
\* DictBuilder.Add and the code it returns.
AddString(dict, s) == IF s \in ToSet(dict) THEN dict ELSE Append(dict, s)

CodeIn(dict, s) == (CHOOSE i \in DOMAIN dict : dict[i] = s) - 1

\* getOrBuildRemap: a dictionary seen before keeps its remap; a new one gets every
\* entry a global code, used by a row or not.
Remapped(p, c, d) ==
  IF d \in DOMAIN p.remaps[c] THEN p
  ELSE LET dict == FoldLeft(AddString, p.globalDicts[c], DictOf[d][c])
       IN  [p EXCEPT !.globalDicts[c] = dict,
                     !.remaps[c] = (d :> [i \in DOMAIN DictOf[d][c] |->
                                            CodeIn(dict, DictOf[d][c][i])]) @@ @]

WithRemaps(q, p, d) ==
  LET remap(r, c) == Remapped(r, c, d)
  IN  FoldLeft(remap, p, [c \in 1 .. q.cols |-> c])

\* Mutant: the width is never checked.
neverOverflows(q, p) == FALSE

codeOverflows(q, p) ==
  \E c \in 1 .. q.cols : Len(p.globalDicts[c]) >= 2 ^ KeyWidth

\* Column c of a packed key occupies KeyWidth bits from Shift(c) on.
Shift(c) == (c - 1) * KeyWidth

\* buildIntKey.  The codes fit their fields (codeOverflows was just tested), so
\* or-ing them together adds them.
PackedKey(q, p, d, row) ==
  LET code(c) == p.remaps[c][d][CodeIn(DictOf[d][c], row.g[c]) + 1]
      or(k, c) == k + code(c) * 2 ^ Shift(c)
  IN  FoldLeft(or, 0, [c \in 1 .. q.cols |-> c])

\* intKeyToStringKey.  Rows with a NULL key never reach the packed keys.
UnpackedKey(q, p, key) ==
  [c \in 1 .. q.cols |-> p.globalDicts[c][((key \div 2 ^ Shift(c)) % 2 ^ KeyWidth) + 1]]

\* materializeToStringMaps.  A key the string maps already have would be listed
\* twice and its group overwritten.
materializeToStringMaps(q, p) ==
  LET move(t, key) ==
        [keys   |-> Append(t.keys, UnpackedKey(q, p, key)),
         groups |-> (UnpackedKey(q, p, key) :> p.ints.groups[key]) @@ t.groups]
  IN  FoldLeft(move, p.strs, p.ints.keys)

\* Mutant: the packed groups stay behind when the path is left.
FallBackWithout(q, p) == [p EXCEPT !.enabled = FALSE, !.ints = EmptyTable]

\* The fallback of accumulateIntKey.
FallBack(q, p) ==
  [p EXCEPT !.enabled = FALSE, !.strs = materializeToStringMaps(q, p), !.ints = EmptyTable]

\* A row with a NULL key goes to the string maps, every other to the packed ones.
AddPacked(q, p, d, row) ==
  IF Null \in ToSet(KeyOf(q, row))
  THEN [p EXCEPT !.strs = AddRow(q, @, KeyOf(q, row), row)]
  ELSE [p EXCEPT !.ints = AddRow(q, @, PackedKey(q, p, d, row), row)]

accumulateIntKey(q, p, b) ==
  LET r == WithRemaps(q, p, b.dict)
      add(s, row) == AddPacked(q, s, b.dict, row)
  IN  IF codeOverflows(q, r)
      THEN [FallBack(q, r) EXCEPT !.strs = AddRows(q, @, b.rows)]
      ELSE FoldLeft(add, r, b.rows)

\* accumulate.  The packed path is chosen, or not, at the first batch.
Decided(q, p) ==
  IF p.decided THEN p
  ELSE [p EXCEPT !.decided = TRUE, !.enabled = ~HasDistinct(q) /\ q.dict]

Accumulated(q, p, b) ==
  IF q.cols = 0 THEN accumulateDirect(q, p, b)
  ELSE LET r == Decided(q, p)
       IN  IF r.enabled THEN accumulateIntKey(q, r, b)
           ELSE [r EXCEPT !.strs = AddRows(q, @, b.rows)]

-----------------------------------------------------------------------------
Accumulate(w) ==
  /\ next <= Len(input)
  /\ partial' = [partial EXCEPT ![w] = Accumulated(query, @, input[next])]
  /\ fed' = [fed EXCEPT ![w] = Append(@, next)]
  /\ next' = next + 1
  /\ UNCHANGED <<query, serial, input, done, merged, absorbed>>

\* The end of consumeAll, and of a worker's loop.
Finished(q, p) == IF p.enabled THEN [p EXCEPT !.strs = materializeToStringMaps(q, p)] ELSE p

Finish(w) ==
  /\ next > Len(input)
  /\ w \notin done
  /\ partial' = [partial EXCEPT ![w] = Finished(query, @)]
  /\ done' = done \cup {w}
  /\ UNCHANGED <<query, serial, input, next, fed, merged, absorbed>>

\* mergePartialAgg: a new group is copied, a known one combined slot by slot.
mergePartialAgg(q, dst, src) ==
  LET absorb(t, key) ==
        IF key \in DOMAIN t.groups
        THEN [t EXCEPT !.groups[key].slots =
                [j \in DOMAIN q.aggs |->
                   MergeSlot(q.aggs[j], @[j], src.groups[key].slots[j])]]
        ELSE [keys |-> Append(t.keys, key), groups |-> (key :> src.groups[key]) @@ t.groups]
  IN  FoldLeft(absorb, dst, src.keys)

\* The results are merged, in the order they arrived, once all of them have.
Merge(w) ==
  /\ ~serial
  /\ done = Workers
  /\ w \notin absorbed
  /\ merged' = mergePartialAgg(query, merged, partial[w].strs)
  /\ absorbed' = absorbed \cup {w}
  /\ UNCHANGED <<query, serial, input, next, partial, fed, done>>

Next == \E w \in Workers : Accumulate(w) \/ Finish(w) \/ Merge(w)

Spec == Init /\ [][Next]_vars

-----------------------------------------------------------------------------
\* The table the answer is read from, and whether it is complete.
ResultTable == IF serial THEN partial[1].strs ELSE merged

Complete == IF serial THEN done = {1} ELSE absorbed = Workers

\* The rows emitted: sample values, then one value per aggregate.  Without GROUP BY
\* and without any group it is the row of buildEmptyGlobalResult.
EmptyRow(q) == <<<<>>, [j \in DOMAIN q.aggs |-> EmittedForNothing(q.aggs[j])]>>

EmittedRow(q, group) ==
  <<group.sample, [j \in DOMAIN q.aggs |-> Emitted(q.aggs[j], group.slots[j])]>>

Output(q, tbl) ==
  IF tbl.keys = <<>> /\ q.cols = 0 THEN <<EmptyRow(q)>>
  ELSE [i \in DOMAIN tbl.keys |-> EmittedRow(q, tbl.groups[tbl.keys[i]])]

-----------------------------------------------------------------------------
(***************************************************************************)
(* The reference: what SQL says of a multiset of rows.                     *)
(***************************************************************************)
Total(vals) == LET plus(x, y) == x + y IN FoldLeft(plus, 0, vals)

NotNull(v) == v # Null

SQLAnswer(ae, column) ==
  LET vals == SelectSeq(column, NotNull)
  IN  CASE ae.kind = "count"    -> IF ae.col = "*" THEN Len(column) ELSE Len(vals)
        [] ae.kind = "distinct" -> Cardinality(ToSet(vals))
        [] vals = <<>>          -> Null
        [] ae.kind = "sum"      -> Wrap(Total(vals))
        [] ae.kind = "avg"      -> <<Total(vals), Len(vals)>>
        [] ae.kind = "min"      -> Min(ToSet(vals))
        [] ae.kind = "max"      -> Max(ToSet(vals))

SQLRow(q, key, rows) ==
  LET mine(row) == KeyOf(q, row) = key
      group == SelectSeq(rows, mine)
  IN  <<key, [j \in DOMAIN q.aggs |->
          SQLAnswer(q.aggs[j], [i \in DOMAIN group |-> ValueOf(q.aggs[j], group[i])])]>>

SQLKeys(q, rows) ==
  IF q.cols = 0 THEN {<<>>} ELSE {KeyOf(q, rows[i]) : i \in DOMAIN rows}

SQLRows(q, rows) == {SQLRow(q, key, rows) : key \in SQLKeys(q, rows)}

RowsOf(batches) == LET cat(s, b) == s \o input[b].rows IN FoldLeft(cat, <<>>, batches)

-----------------------------------------------------------------------------
IsTable(q, tbl) ==
  /\ ToSet(tbl.keys) = DOMAIN tbl.groups
  /\ \A k \in DOMAIN tbl.groups :
       \A j \in DOMAIN q.aggs :
         /\ tbl.groups[k].slots[j].nn \in Nat
         /\ q.aggs[j].accum = "int" /\ q.aggs[j].kind # "count" =>
              tbl.groups[k].slots[j].acc \in MinInt .. MaxInt

\* Every listed key has its accumulators and the other way round, integer
\* sums and extrema stay within int64, and packed keys stay within their fields.
TypeOK ==
  /\ next \in 1 .. Len(input) + 1
  /\ done \subseteq Workers /\ absorbed \subseteq done
  /\ IsTable(query, merged)
  /\ \A w \in Workers :
       /\ IsTable(query, partial[w].strs) /\ IsTable(query, partial[w].ints)
       /\ DOMAIN partial[w].ints.groups \subseteq 0 .. 2 ^ (query.cols * KeyWidth) - 1

\* The packed groups of a worker read back under their string keys.
Unpacked(p) == {UnpackedKey(query, p, k) : k \in DOMAIN p.ints.groups}

(***************************************************************************)
(* A group lives in one place: no key is listed twice, no two packed keys  *)
(* name the same group, and until a worker has materialized its packed     *)
(* groups none of them is also in its string maps -- where materializing   *)
(* would overwrite it.  The fallback in the middle of a scan and the rows  *)
(* with NULL keys are what could break it.                                 *)
(***************************************************************************)
EachGroupOnce ==
  /\ IsInjective(merged.keys)
  /\ \A w \in Workers :
       LET p == partial[w]
       IN  /\ IsInjective(p.strs.keys)
           /\ IsInjective(p.ints.keys)
           /\ Cardinality(Unpacked(p)) = Len(p.ints.keys)
           /\ w \notin done => Unpacked(p) \cap DOMAIN p.strs.groups = {}

(***************************************************************************)
(* At every moment a worker's partial aggregate, materialized, would emit  *)
(* exactly the SQL answer over the rows it was fed: whichever paths the    *)
(* batches took, whichever dictionaries they came with, and wherever the   *)
(* fallback to string keys happened.                                       *)
(***************************************************************************)
PartialIsAnswer ==
  \A w \in Workers :
    LET tbl == IF w \in done THEN partial[w].strs
               ELSE materializeToStringMaps(query, partial[w])
    IN  ToSet(Output(query, tbl)) = SQLRows(query, RowsOf(fed[w]))

(***************************************************************************)
(* When everything is merged, or the serial aggregate is done, the output  *)
(* is the SQL answer over all rows, one row per group: NULL exactly where  *)
(* no value was seen, although partials of only NULLs were merged, and one *)
(* row for a global aggregate over nothing.                                *)
(***************************************************************************)
ResultIsAnswer ==
  Complete =>
    LET out == Output(query, ResultTable)
    IN  /\ ToSet(out) = SQLRows(query, RowsOf([i \in DOMAIN input |-> i]))
        /\ Len(out) = Cardinality(ToSet(out))

(***************************************************************************)
(* "MIN/MAX start at the identity for their comparison so the first value  *)
(* always wins" (newAccums): a group that has seen one value answers MIN   *)
(* and MAX with that value.  For float64 the accumulators start at the     *)
(* largest finite values, which the infinities do not beat.                *)
(***************************************************************************)
FirstValueWins ==
  \A w \in Workers :
    LET rows == RowsOf(fed[w])
    IN  \A key \in DOMAIN partial[w].strs.groups :
          \A j \in DOMAIN query.aggs :
            LET group == partial[w].strs.groups[key]
            IN  IsMinMax(query.aggs[j]) /\ group.slots[j].nn = 1 =>
                  EmittedRow(query, group)[2][j] = SQLRow(query, key, rows)[2][j]
=============================================================================
