-------------------------------- MODULE ExecOps --------------------------------
(***************************************************************************)
(* The row operators of exec/: TableScan, Filter, Project, Limit,          *)
(* Distinct, ExternalSort, HashJoin, HashAggregate and the parallel        *)
(* aggregates, as a tree of records.  Pull(op, env) is one call of         *)
(* op.Next: it returns the tree after the call and what the call returned. *)
(*                                                                         *)
(* env.files maps a table to its file: a sequence of row groups, each a    *)
(* sequence of rows.  env.order is the order in which the morsels of a     *)
(* parallel aggregate reach the merged result; MorselAggregate and         *)
(* AggregateMerge model how they get there.  The join's hash table is the  *)
(* subject of JoinTable and RadixBuild: here it is the rows in build       *)
(* order.                                                                  *)
(***************************************************************************)
EXTENDS PlanExpr

CONSTANT BlockRows   \* rows of a batch; 1024 in the code

ASSUME BlockRowsAssumption == BlockRows \in Nat \ {0}

Eof    == [k |-> "eof"]
Error  == [k |-> "error"]
Batch(vecs, n, sel) == [k |-> "batch", vecs |-> vecs, n |-> n, sel |-> sel]
Ret(op, out) == [op |-> op, out |-> out]

(* A cell as sort, distinct, join and aggregate store it: a BOOL as 0 or 1. *)
extractInt64(vec, i) ==
  IF vec.t = "bool" /\ vec.v[i] # Null THEN (IF vec.v[i] THEN 1 ELSE 0) ELSE vec.v[i]
RawRow(b, i) == [c \in DOMAIN b.vecs |-> extractInt64(b.vecs[c], i)]
RawRows(b)   == LET rs == batchRows(b) IN [i \in DOMAIN rs |-> RawRow(b, rs[i])]

(* A vector of type t over stored cells, strings with a dictionary of their own. *)
FromRaw(t, cells) ==
  LET cell(x) == IF t = "bool" /\ x # Null THEN x # 0 ELSE x
  IN Vec(t, [i \in DOMAIN cells |-> cell(cells[i])],
         IF t = "string" THEN {cells[i] : i \in {j \in DOMAIN cells : cells[j] # Null}} ELSE Null)
Column(rows, c) == [i \in DOMAIN rows |-> rows[i][c]]
Min2(a, b) == IF a < b THEN a ELSE b

(***************************************************************************)
(* TableScan: one batch per block, row groups the zone maps rule out       *)
(* skipped before any of their columns is opened.                          *)
(***************************************************************************)
readBlock(op, rows) ==
  LET lo == op.block * BlockRows + 1
      hi == Min2(Len(rows), lo + BlockRows - 1)
      vec(c) == LET f == op.colMap[c] IN
        Vec(op.schema[c].t, [i \in 1..(hi - lo + 1) |-> rows[lo + i - 1][f]],
            IF op.schema[c].t = "string"
              THEN {rows[i][f] : i \in {j \in DOMAIN rows : rows[j][f] # Null}} ELSE Null)
  IN Batch([c \in DOMAIN op.colMap |-> vec(c)], hi - lo + 1, Null)

RECURSIVE scanNext(_, _)
scanNext(op, env) ==
  LET rows   == env.files[op.table][op.rg]
      pruned == op.zone # Null /\ ~zonePredEval(op.zone.e, op.zone.schema, rows)
  IN IF op.rg > op.rgEnd THEN Ret(op, Eof)
     ELSE IF ~op.open /\ pruned THEN scanNext([op EXCEPT !.rg = @ + 1], env)
     ELSE IF op.block * BlockRows >= Len(rows)
       THEN scanNext([op EXCEPT !.rg = @ + 1, !.open = FALSE, !.block = 0], env)
     ELSE Ret([op EXCEPT !.open = TRUE, !.block = @ + 1], readBlock(op, rows))

RECURSIVE Pull(_, _)

(* Every batch of op, in order, and whether it ended without an error. *)
RECURSIVE drain(_, _, _)
drain(op, env, rows) ==
  LET r == Pull(op, env) IN
  IF r.out.k # "batch" THEN [op |-> r.op, rows |-> rows, ok |-> r.out.k = "eof"]
  ELSE drain(r.op, env, rows \o RawRows(r.out))

RECURSIVE filterNext(_, _)
filterNext(op, env) ==
  LET c   == Pull(op.child, env)
      op1 == [op EXCEPT !.child = c.op]
      kept(sel) == IF sel = <<>> THEN filterNext(op1, env)
                   ELSE Ret(op1, [c.out EXCEPT !.sel = sel, !.n = Len(sel)])
      filtered(bv) == IF bv.t # "bool" THEN Ret(op1, Error)
                      ELSE kept(BoolToSelVecInto(c.out, bv))
  IN IF c.out.k # "batch" THEN Ret(op1, c.out) ELSE filtered(Eval(op.predicate, c.out))

materialize(vec, sel) == [vec EXCEPT !.v = [i \in DOMAIN sel |-> vec.v[sel[i]]]]

projectNext(op, env) ==
  LET c   == Pull(op.child, env)
      op1 == [op EXCEPT !.child = c.op]
      out(raw) == IF c.out.sel = Null THEN raw
                  ELSE [i \in DOMAIN raw |-> materialize(raw[i], c.out.sel)]
      projected(raw) == IF \E i \in DOMAIN raw : raw[i].t = "failed" THEN Ret(op1, Error)
                        ELSE Ret(op1, Batch(out(raw), c.out.n, Null))
  IN IF c.out.k # "batch" THEN Ret(op1, c.out)
     ELSE projected([i \in DOMAIN op.exprs |-> Eval(op.exprs[i], c.out)])

(* n of the batch's logical rows, starting after the first from. *)
keepRows(b, from, n) ==
  [b EXCEPT !.sel = IF b.sel # Null THEN SubSeq(b.sel, from + 1, from + n)
                    ELSE [i \in 1..n |-> from + i],
            !.n = n]

(* remaining < 0 passes every row. *)
RECURSIVE limitNext(_, _)
limitNext(op, env) ==
  LET c   == Pull(op.child, env)
      op1 == [op EXCEPT !.child = c.op]
      b   == IF op.skip > 0 THEN keepRows(c.out, op.skip, c.out.n - op.skip) ELSE c.out
  IN IF op.remaining = 0 THEN Ret(op, Eof)
     ELSE IF c.out.k # "batch" THEN Ret(op1, c.out)
     ELSE IF op.skip > 0 /\ c.out.n <= op.skip
       THEN limitNext([op1 EXCEPT !.skip = @ - c.out.n], env)
     ELSE IF op.remaining < 0 THEN Ret([op1 EXCEPT !.skip = 0], b)
     ELSE IF b.n <= op.remaining
       THEN Ret([op1 EXCEPT !.skip = 0, !.remaining = @ - b.n], b)
     ELSE Ret([op1 EXCEPT !.skip = 0, !.remaining = 0], keepRows(b, 0, op.remaining))

(* Two cells have the same key only if both are NULL or both hold the same value. *)
RECURSIVE distinctNext(_, _)
distinctNext(op, env) ==
  LET c   == Pull(op.child, env)
      op1 == [op EXCEPT !.child = c.op]
      rs  == batchRows(c.out)
      new == {i \in DOMAIN rs : /\ RawRow(c.out, rs[i]) \notin op.seen
                                /\ \A j \in 1..(i - 1) :
                                     RawRow(c.out, rs[j]) # RawRow(c.out, rs[i])}
      sel == [i \in 1..Cardinality(new) |-> rs[SetToSortSeq(new, <)[i]]]
  IN IF c.out.k # "batch" THEN Ret(op1, c.out)
     ELSE IF new = {} THEN distinctNext(op1, env)
     ELSE Ret([op1 EXCEPT !.seen = @ \union {RawRow(c.out, sel[i]) : i \in DOMAIN sel}],
              [c.out EXCEPT !.sel = sel, !.n = Len(sel)])

(***************************************************************************)
(* Operators that consume their input first and then emit BlockRows rows   *)
(* at a time: op.rows is the finished output, op.pos what was emitted.     *)
(***************************************************************************)
emitBatch(op) ==
  LET hi   == Min2(op.pos + BlockRows, Len(op.rows))
      rows == SubSeq(op.rows, op.pos + 1, hi)
  IN IF op.pos >= Len(op.rows) THEN Ret(op, Eof)
     ELSE Ret([op EXCEPT !.pos = hi],
              Batch([c \in DOMAIN op.schema |-> FromRaw(op.schema[c].t, Column(rows, c))],
                    Len(rows), Null))

(* Order of two stored cells of one type; NaN comes after every number. *)
CellLess(t, x, y) ==
  CASE t = "string" -> StringLess(x, y)
    [] t = "float"  -> FloatLess(x, y) \/ (x # NaN /\ y = NaN)
    [] OTHER        -> x < y

(* NULL sorts first whatever the direction; equal cells leave it to the next key. *)
RECURSIVE less(_, _, _, _)
less(schema, keys, a, b) ==
  LET k == Head(keys)
      x == a[k.col]
      y == b[k.col]
      t == schema[k.col].t
  IN IF keys = <<>> THEN FALSE
     ELSE IF x = y THEN less(schema, Tail(keys), a, b)
     ELSE IF x = Null \/ y = Null THEN x = Null
     ELSE IF k.desc THEN CellLess(t, y, x) ELSE CellLess(t, x, y)

InsertStable(sorted, row, schema, keys) ==
  LET n == Cardinality({i \in DOMAIN sorted : ~less(schema, keys, row, sorted[i])})
  IN SubSeq(sorted, 1, n) \o <<row>> \o SubSeq(sorted, n + 1, Len(sorted))

consumeAndSort(rows, schema, keys) ==
  FoldLeft(LAMBDA acc, r : InsertStable(acc, r, schema, keys), <<>>, rows)

sortNext(op, env) ==
  LET d == drain(op.child, env, <<>>) IN
  IF op.done THEN emitBatch(op)
  ELSE IF ~d.ok THEN Ret([op EXCEPT !.child = d.op], Error)
  ELSE emitBatch([op EXCEPT !.child = d.op, !.done = TRUE,
                            !.rows = consumeAndSort(d.rows, op.schema, op.keys)])

(***************************************************************************)
(* HashAggregate.  A group is its key and the rows that fell into it, in   *)
(* the order the keys were first seen; the accumulators that fold the rows *)
(* one at a time are AggregateFold's.                                      *)
(***************************************************************************)
buildKey(row, groupBy) == [i \in DOMAIN groupBy |-> row[groupBy[i]]]

GroupKeys(rows, groupBy) ==
  FoldLeft(LAMBDA acc, r : IF Contains(acc, buildKey(r, groupBy)) THEN acc
                           ELSE Append(acc, buildKey(r, groupBy)), <<>>, rows)

SumCells(t, vals) ==
  IF t = "float" THEN FoldLeft(FloatAdd, <<0, 1>>, vals)
  ELSE FoldLeft(LAMBDA a, b : a + b, 0, vals)

(* The largest float64 of the model. *)
MaxFloat64 == <<2 * MaxExact, 1>>

(* MIN and MAX keep the first of the best values.  A NaN beats nothing: a  *)
(* group of NaNs answers what the accumulator was started with.            *)
BestOf(kind, t, vals) ==
  LET some == SelectSeq(vals, LAMBDA x : x # NaN)
      better(a, b) == IF kind = "MIN" THEN CellLess(t, a, b) ELSE CellLess(t, b, a)
  IN IF some = <<>> THEN IF kind = "MIN" THEN MaxFloat64 ELSE FloatNeg(MaxFloat64)
     ELSE FoldLeft(LAMBDA a, b : IF better(b, a) THEN b ELSE a, Head(some), Tail(some))

(* kind, input column (0: the star of COUNT) and input type of one aggregate over rows. *)
AggregateOf(ae, t, rows) ==
  LET vals == SelectSeq(Column(rows, ae.col), LAMBDA x : x # Null)
      floats == IF t = "float" THEN vals ELSE [i \in DOMAIN vals |-> FloatOf(vals[i])]
  IN CASE ae.kind = "COUNT" -> IF ae.col = 0 THEN Len(rows) ELSE Len(vals)
       [] ae.kind = "COUNT DISTINCT" -> Cardinality(ToSet(vals))
       [] ae.kind # "COUNT" /\ ae.kind # "COUNT DISTINCT" ->
            IF vals = <<>> THEN Null
            ELSE CASE ae.kind = "SUM" -> SumCells(t, vals)
                   [] ae.kind = "AVG" -> FloatDiv(SumCells("float", floats), FloatOf(Len(vals)))
                   [] ae.kind \in {"MIN", "MAX"} -> BestOf(ae.kind, t, vals)

(* One row per group. *)
buildOutput(op, rows) ==
  LET keys == GroupKeys(rows, op.groupBy)
      row(key) == LET mine == SelectSeq(rows, LAMBDA r : buildKey(r, op.groupBy) = key)
                  IN key \o [j \in DOMAIN op.aggs |-> AggregateOf(op.aggs[j], op.aggs[j].t, mine)]
  IN [i \in DOMAIN keys |-> row(keys[i])]

(* No rows and no GROUP BY: one row, 0 for a COUNT and NULL for the others. *)
buildEmptyGlobalResult(op) ==
  LET vec(j) == IF op.aggs[j].kind \in {"COUNT", "COUNT DISTINCT"} THEN Vec("int", <<0>>, Null)
                ELSE nullVector(op.schema[j].t, 1)
  IN Batch([j \in DOMAIN op.aggs |-> vec(j)], 1, Null)

(* The first batch after the whole input was accumulated. *)
finishMerged(op, rows) ==
  LET done == [op EXCEPT !.done = TRUE, !.rows = buildOutput(op, rows)] IN
  IF rows = <<>> /\ op.groupBy = <<>> THEN Ret(done, buildEmptyGlobalResult(op))
  ELSE emitBatch(done)

aggNext(op, env) ==
  LET d   == drain(op.child, env, <<>>)
      op1 == [op EXCEPT !.child = d.op]
  IN IF op.done THEN emitBatch(op)
     ELSE IF ~d.ok THEN Ret(op1, Error)
     ELSE finishMerged(op1, d.rows)

(***************************************************************************)
(* HashJoin.  Rows with a NULL key are dropped on both sides; a probe row  *)
(* meets the build rows of its key in build order.                         *)
(***************************************************************************)
forEachBuildRow(rows, key) == SelectSeq(rows, LAMBDA r : r[key] # Null)

buildHashTable(op, env) ==
  LET d == drain(op.build, env, <<>>) IN
  [op |-> [op EXCEPT !.build = d.op, !.built = d.ok,
                     !.store = forEachBuildRow(d.rows, op.buildKey)],
   ok |-> d.ok]

Matches(op, b) ==
  LET rs == batchRows(b)
      chain(i) == LET key == extractInt64(b.vecs[op.probeKey], i) IN
        IF key = Null THEN <<>>
        ELSE LET mine == SelectSeq(op.store, LAMBDA r : r[op.buildKey] = key)
             IN [j \in DOMAIN mine |-> [build |-> mine[j], probe |-> i]]
  IN FlattenSeq([i \in DOMAIN rs |-> chain(rs[i])])

(* Build columns, then probe columns.  A BOOL column leaves a join as an   *)
(* Int64Vector of 0 and 1.                                                 *)
JoinedType(t) == IF t = "bool" THEN "int" ELSE t
buildColumnFromRows(rows, c, t) ==
  FromRaw(JoinedType(t), [i \in DOMAIN rows |-> rows[i].build[c]])
probeColumnFromRows(rows, src, t) ==
  Vec(JoinedType(t), [i \in DOMAIN rows |-> extractInt64(src, rows[i].probe)], src.dict)

emitMatches(op) ==
  LET n    == Min2(BlockRows, Len(op.matchBuf))
      rows == SubSeq(op.matchBuf, 1, n)
      nb   == Len(op.schema) - Len(op.probeBatch.vecs)
      vec(c) == IF c <= nb THEN buildColumnFromRows(rows, c, op.schema[c].t)
                ELSE probeColumnFromRows(rows, op.probeBatch.vecs[c - nb], op.schema[c].t)
  IN Ret([op EXCEPT !.matchBuf = SubSeq(@, n + 1, Len(@))],
         Batch([c \in DOMAIN op.schema |-> vec(c)], n, Null))

RECURSIVE joinNext(_, _)
joinNext(op, env) ==
  LET bt == buildHashTable(op, env)
      p  == Pull(op.probe, env)
  IN IF ~op.built
       THEN IF bt.ok THEN joinNext(bt.op, env) ELSE Ret(bt.op, Error)
     ELSE IF op.matchBuf # <<>> THEN emitMatches(op)
     ELSE IF p.out.k # "batch" THEN Ret([op EXCEPT !.probe = p.op], p.out)
     ELSE joinNext([op EXCEPT !.probe = p.op, !.probeBatch = p.out,
                              !.matchBuf = Matches(op, p.out)], env)

(***************************************************************************)
(* ParallelHashAggregate and ParallelHashJoinAggregate.  op.pipe is the    *)
(* pipeline every worker opens; the first call builds the join's table     *)
(* once, runs the pipeline over each row group and merges.  All the files  *)
(* it opens are closed again before it returns; opening one may fail.      *)
(***************************************************************************)
RECURSIVE resetOp(_, _, _)
resetOp(op, lo, hi) ==
  CASE op.k = "scan" -> [op EXCEPT !.rg = lo, !.rgEnd = hi, !.open = FALSE, !.block = 0]
    [] op.k \in {"filter", "project"} -> [op EXCEPT !.child = resetOp(@, lo, hi)]
    [] op.k = "join" -> [op EXCEPT !.probe = resetOp(@, lo, hi), !.matchBuf = <<>>]
    [] op.k = "badop" -> op

(* The pipeline with the join's table built; nobody probes an empty one. *)
RECURSIVE materializeBuildSide(_, _)
materializeBuildSide(op, env) ==
  LET c == materializeBuildSide(op.child, env)
      b == buildHashTable(op, env)
  IN CASE op.k = "scan" -> [op |-> op, ok |-> TRUE, empty |-> FALSE]
       [] op.k = "join" -> [op |-> b.op, ok |-> b.ok, empty |-> b.op.store = <<>>]
       [] op.k \in {"filter", "project"} -> [c EXCEPT !.op = [op EXCEPT !.child = c.op]]

runMorselAggWorkers(pipe, morsels, env) ==
  LET step(acc, g) == IF ~acc.ok THEN acc
                      ELSE drain(resetOp(acc.op, g, g), env, acc.rows)
  IN FoldLeft(step, [op |-> pipe, rows |-> <<>>, ok |-> TRUE], morsels)

paraggNext(op, env) ==
  LET b == materializeBuildSide(op.pipe, env)
      w == runMorselAggWorkers(b.op, SelectSeq(env.order, LAMBDA g : g <= op.totalRGs), env)
  IN IF op.done THEN emitBatch(op)
     ELSE IF env.openFails \/ ~b.ok THEN Ret(op, Error)
     ELSE IF b.empty THEN finishMerged(op, <<>>)
     ELSE IF ~w.ok THEN Ret(op, Error)
     ELSE finishMerged(op, w.rows)

Pull(op, env) ==
  CASE op.k = "scan"     -> scanNext(op, env)
    [] op.k = "filter"   -> filterNext(op, env)
    [] op.k = "project"  -> projectNext(op, env)
    [] op.k = "limit"    -> limitNext(op, env)
    [] op.k = "distinct" -> distinctNext(op, env)
    [] op.k = "sort"     -> sortNext(op, env)
    [] op.k = "agg"      -> aggNext(op, env)
    [] op.k = "join"     -> joinNext(op, env)
    [] op.k = "paragg"   -> paraggNext(op, env)
    [] op.k = "badop"    -> Ret(op, Error)   \* a pipeline its factory refused

(* The readers op.Close closes. *)
RECURSIVE ReadersOf(_)
ReadersOf(op) ==
  CASE op.k = "scan"   -> {op.reader}
    [] op.k = "join"   -> ReadersOf(op.build) \union ReadersOf(op.probe)
    [] op.k = "paragg" -> {}
    [] OTHER           -> ReadersOf(op.child)
=============================================================================
