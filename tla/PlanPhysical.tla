----------------------------- MODULE PlanPhysical -----------------------------
(***************************************************************************)
(* planner/physical.go: from a logical plan to a tree of operators, each   *)
(* scan over a Reader of its own.  Planning threads st = [opens, open,     *)
(* panicked]: the files opened so far, the readers not yet closed, and     *)
(* whether the planner called a method of a nil operator.  W is what       *)
(* planning meets: W.files, and W.failAt, the number of the storage.Open   *)
(* that fails (0: none does).  A result is [ok, op, st].                   *)
(***************************************************************************)
EXTENDS PlanOptimize, ExecOps

NoReader == 0
Planned(op, st) == [ok |-> TRUE, op |-> op, st |-> st]
Refused(st)     == [ok |-> FALSE, op |-> Null, st |-> st]
StartPlanning   == [opens |-> 0, open |-> {}, panicked |-> FALSE]

(* storage.Open: the reader's number, or none. *)
OpenFile(st, W) ==
  LET id == st.opens + 1 IN
  IF id = W.failAt THEN [reader |-> NoReader, st |-> [st EXCEPT !.opens = id]]
  ELSE [reader |-> id, st |-> [st EXCEPT !.opens = id, !.open = @ \union {id}]]

CloseReader(st, id) == [st EXCEPT !.open = @ \ {id}]
CloseOp(st, op)     == [st EXCEPT !.open = @ \ ReadersOf(op)]

RECURSIVE SchemaOf(_)
SchemaOf(op) == IF op.k \in {"filter", "limit", "distinct"} THEN SchemaOf(op.child) ELSE op.schema

(***************************************************************************)
(* Constructors of the operators; Null where the constructor fails.        *)
(***************************************************************************)
openScan(n, reader, lo, hi) ==
  LET schema == OutputSchema(n)
      known == \/ n.needed = Null
               \/ \A i \in DOMAIN n.needed : IndexOf(n.schema, n.needed[i]) # 0
  IN IF ~known THEN Null
     ELSE [k |-> "scan", table |-> n.table, schema |-> schema,
           colMap |-> [i \in DOMAIN schema |-> IndexOf(n.schema, schema[i].name)],
           zone |-> IF n.pred.k = "none" THEN Null ELSE [e |-> n.pred, schema |-> n.schema],
           rg |-> lo, rgEnd |-> hi, open |-> FALSE, block |-> 0, reader |-> reader]

NewFilter(child, pred) ==
  IF pred.t # "bool" THEN Null ELSE [k |-> "filter", child |-> child, predicate |-> pred]

NewProject(child, names, exprs) ==
  [k |-> "project", child |-> child, exprs |-> exprs,
   schema |-> [i \in DOMAIN exprs |-> [name |-> names[i], t |-> exprs[i].t]]]

Emitter(k, child, schema) ==
  [k |-> k, child |-> child, schema |-> schema, done |-> FALSE, rows |-> <<>>, pos |-> 0]

NewHashJoin(build, probe, bk, pk) ==
  [k |-> "join", build |-> build, probe |-> probe, buildKey |-> bk, probeKey |-> pk,
   schema |-> SchemaOf(build) \o SchemaOf(probe), built |-> FALSE, store |-> <<>>,
   matchBuf |-> <<>>, probeBatch |-> Null]

(***************************************************************************)
(* Builders over an existing child.  An error closes the child, except     *)
(* where NewFilter refuses a predicate that is not BOOL.                   *)
(***************************************************************************)
buildFilterOp(pred, child, st) ==
  LET filter(e) == IF IsBad(e) THEN Refused(CloseOp(st, child))
                   ELSE IF NewFilter(child, e) = Null THEN Refused(st)
                   ELSE Planned(NewFilter(child, e), st)
  IN filter(buildExecExpr(pred, SchemaOf(child)))

buildProjectOp(items, child, st) ==
  LET project(es) ==
        IF AnyBad(es) THEN Refused(CloseOp(st, child))
        ELSE Planned(NewProject(child, [i \in DOMAIN items |-> items[i].as], es), st)
  IN project([i \in DOMAIN items |-> buildExecExpr(items[i].e, SchemaOf(child))])

(* Every column of child, then each computed argument; Null on an error. *)
buildPreProjection(n, child) ==
  LET S == SchemaOf(child)
      A == SelectSeq(n.aggs, LAMBDA a : a.e.k # "none")
      refs == [i \in DOMAIN S |-> Expr("ref", IndexOf(S, S[i].name), <<>>, S[i].t)]
      project(args) ==
        IF AnyBad(args) THEN Null
        ELSE NewProject(child, [i \in DOMAIN S |-> S[i].name] \o [i \in DOMAIN A |-> A[i].col],
                        refs \o args)
  IN IF A = <<>> THEN child
     ELSE project([i \in DOMAIN A |-> buildExecExpr(A[i].e, S)])

(* Group columns and aggregates by position in schema; ok unless one is missing *)
(* or SUM or AVG is asked of a column that is not numeric.                      *)
resolveAggConfig(n, schema) ==
  LET groupBy == [i \in DOMAIN n.group |-> IndexOf(schema, n.group[i])]
      col(a)  == IF a.col = <<>> THEN 0 ELSE IndexOf(schema, a.col)
      t(a)    == IF col(a) = 0 THEN "int" ELSE schema[col(a)].t
      aggs    == [i \in DOMAIN n.aggs |->
                    LET a == n.aggs[i] IN
                    [kind |-> IF a.distinct THEN "COUNT DISTINCT" ELSE a.f, col |-> col(a),
                     t |-> t(a), as |-> a.as]]
  IN [groupBy |-> groupBy, aggs |-> aggs,
      ok |-> /\ \A i \in DOMAIN groupBy : groupBy[i] # 0
             /\ \A i \in DOMAIN n.aggs :
                  /\ n.aggs[i].col = <<>> \/ aggs[i].col # 0
                  /\ aggs[i].kind \in {"SUM", "AVG"} => aggs[i].t \in {"int", "float"}]

aggOutputSchema(cfg, schema) ==
  LET t(a) == CASE a.kind \in {"COUNT", "COUNT DISTINCT"} -> "int"
                [] a.kind = "AVG" -> "float"
                [] OTHER -> a.t
  IN [i \in DOMAIN cfg.groupBy |-> schema[cfg.groupBy[i]]]
       \o [i \in DOMAIN cfg.aggs |-> [name |-> cfg.aggs[i].as, t |-> t(cfg.aggs[i])]]

NewHashAggregate(child, cfg) ==
  Emitter("agg", child, aggOutputSchema(cfg, SchemaOf(child)))
    @@ [groupBy |-> cfg.groupBy, aggs |-> cfg.aggs]

buildSortOp(order, child, st) ==
  LET S == SchemaOf(child)
      keys == [i \in DOMAIN order |-> [col |-> IndexOf(S, order[i].name), desc |-> order[i].desc]]
  IN IF \E i \in DOMAIN keys : keys[i].col = 0 THEN Refused(CloseOp(st, child))
     ELSE Planned(Emitter("sort", child, S) @@ [keys |-> keys], st)

buildLimitOp(n, child) ==
  [k |-> "limit", child |-> child, remaining |-> n.count, skip |-> n.offset]
NewDistinct(child) == [k |-> "distinct", child |-> child, seen |-> {}]

(***************************************************************************)
(* The planner.                                                            *)
(***************************************************************************)
physicalScan(n, st, W) ==
  LET o == OpenFile(st, W)
      scan == openScan(n, o.reader, 1, Len(W.files[n.table]))
  IN IF o.reader = NoReader THEN Refused(o.st)
     ELSE IF scan = Null THEN Refused(CloseReader(o.st, o.reader))
     ELSE IF n.pred.k = "none" THEN Planned(scan, o.st)
     ELSE buildFilterOp(n.pred, scan, o.st)

(* Key positions in the build and probe schemas, in either order of the    *)
(* condition; 0 when one is missing.                                       *)
resolveJoinKeys(n, bs, ps) ==
  LET b == IndexOf(bs, n.lcol) IN
  IF b # 0 THEN <<b, IndexOf(ps, n.rcol)>>
  ELSE <<IndexOf(bs, n.rcol), IndexOf(ps, n.lcol)>>

(* buildPreProjection has no child to give back when it fails, and the     *)
(* planner closes what it gave back.                                       *)
physicalAggregate(n, c) ==
  LET configured(pre, cfg) == IF ~cfg.ok THEN Refused(CloseOp(c.st, pre))
                              ELSE Planned(NewHashAggregate(pre, cfg), c.st)
      projected(pre) == IF pre = Null THEN Refused([c.st EXCEPT !.panicked = TRUE])
                        ELSE configured(pre, resolveAggConfig(n, SchemaOf(pre)))
  IN IF ~c.ok THEN c ELSE projected(buildPreProjection(n, c.op))

\* Mutant: the build side stays open when planning the probe side fails.
physicalJoinKeepingBuild(n, b, p) ==
  LET key == resolveJoinKeys(n, SchemaOf(b.op), SchemaOf(p.op)) IN
  IF ~b.ok THEN b
  ELSE IF ~p.ok THEN p
  ELSE IF 0 \in {key[1], key[2]} THEN Refused(CloseOp(CloseOp(p.st, b.op), p.op))
  ELSE Planned(NewHashJoin(b.op, p.op, key[1], key[2]), p.st)

physicalJoin(n, b, p) ==
  LET key == resolveJoinKeys(n, SchemaOf(b.op), SchemaOf(p.op)) IN
  IF ~b.ok THEN b
  ELSE IF ~p.ok THEN Refused(CloseOp(p.st, b.op))
  ELSE IF 0 \in {key[1], key[2]} THEN Refused(CloseOp(CloseOp(p.st, b.op), p.op))
  ELSE Planned(NewHashJoin(b.op, p.op, key[1], key[2]), p.st)

RECURSIVE Physical(_, _, _)
Physical(n, st, W) ==
  LET c == Physical(n.child, st, W)
      b == Physical(n.left, st, W)
      over(r) == IF c.ok THEN r ELSE c
  IN CASE n.k = "scan"     -> physicalScan(n, st, W)
       [] n.k = "join"     -> physicalJoin(n, b, Physical(n.right, b.st, W))
       [] n.k = "agg"      -> physicalAggregate(n, c)
       [] n.k = "filter"   -> over(buildFilterOp(n.pred, c.op, c.st))
       [] n.k = "project"  -> over(buildProjectOp(n.items, c.op, c.st))
       [] n.k = "sort"     -> over(buildSortOp(n.order, c.op, c.st))
       [] n.k = "limit"    -> over(Planned(buildLimitOp(n, c.op), c.st))
       [] n.k = "distinct" -> over(Planned(NewDistinct(c.op), c.st))
=============================================================================
