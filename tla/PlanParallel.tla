----------------------------- MODULE PlanParallel -----------------------------
(***************************************************************************)
(* planner/parallel.go and planner/parallel_join.go: which aggregates run  *)
(* on several workers, and the pipeline each worker opens.  A result is    *)
(* [matched, ok, op, st]; an aggregate that is not matched is planned      *)
(* serially.                                                               *)
(***************************************************************************)
EXTENDS PlanPhysical

Declined(st)       == [matched |-> FALSE, ok |-> TRUE, op |-> Null, st |-> st]
Matched(r)         == [matched |-> TRUE, ok |-> r.ok, op |-> r.op, st |-> r.st]
NoNode == [k |-> "none"]

(* The aggregate under the post-aggregate operators, unless a LIMIT would  *)
(* choose among its groups by the order they come out in.                  *)
RECURSIVE aggregateUnder(_, _)
aggregateUnder(n, unorderedLimit) ==
  CASE n.k = "agg"   -> IF unorderedLimit THEN NoNode ELSE n
    [] n.k = "limit" -> aggregateUnder(n.child, TRUE)
    [] n.k = "sort"  -> aggregateUnder(n.child, FALSE)
    [] n.k \in {"project", "filter", "distinct"} -> aggregateUnder(n.child, unorderedLimit)
    [] OTHER -> NoNode
aggregateUnderPostOps(root) == aggregateUnder(root, FALSE)

(* The operators above the aggregate, over agg in its place. *)
RECURSIVE buildAbove(_, _, _)
buildAbove(n, agg, st) ==
  LET c == buildAbove(n.child, agg, st)
      over(r) == IF c.ok THEN r ELSE c
  IN CASE n.k = "agg"      -> Planned(agg, st)
       [] n.k = "filter"   -> over(buildFilterOp(n.pred, c.op, c.st))
       [] n.k = "project"  -> over(buildProjectOp(n.items, c.op, c.st))
       [] n.k = "sort"     -> over(buildSortOp(n.order, c.op, c.st))
       [] n.k = "limit"    -> over(Planned(buildLimitOp(n, c.op), c.st))
       [] n.k = "distinct" -> over(Planned(NewDistinct(c.op), c.st))

(* An optional filter, and what is under it. *)
PeelFilter(n) == IF n.k = "filter" THEN [pred |-> n.pred, node |-> n.child]
                 ELSE [pred |-> NoExpr, node |-> n]

NewParallelAggregate(pipe, schema, totalRGs, cfg) ==
  [k |-> "paragg", pipe |-> pipe, totalRGs |-> totalRGs, groupBy |-> cfg.groupBy,
   aggs |-> cfg.aggs, schema |-> aggOutputSchema(cfg, schema),
   done |-> FALSE, rows |-> <<>>, pos |-> 0]

CountsDistinct(cfg) == \E i \in DOMAIN cfg.aggs : cfg.aggs[i].kind = "COUNT DISTINCT"

(***************************************************************************)
(* An aggregate over a scan.                                               *)
(***************************************************************************)
(* Filter over op; Null when the predicate does not translate or is not BOOL. *)
FilterOver(op, pred) ==
  LET filter(e) == IF IsBad(e) THEN Null ELSE NewFilter(op, e) IN
  IF pred.k = "none" THEN op ELSE filter(buildExecExpr(pred, SchemaOf(op)))

(* The scan under its own predicate; Null when it cannot be built, and the *)
(* caller closes the reader.                                               *)
scanPipe(n, reader) ==
  LET scan == openScan(n, reader, 1, 1)
  IN IF scan = Null THEN Null ELSE FilterOver(scan, n.pred)

(* One call of the factory.  The filter above the scan, which Optimize     *)
(* seldom leaves there, goes through buildFilterOp: that keeps the reader  *)
(* open when the predicate is not BOOL.  Every other failure closes it.    *)
factory(aggNode, p, st, W) ==
  LET o == OpenFile(st, W)
      projected(f, pre) == IF pre = Null THEN Refused(CloseOp(f.st, f.op))
                           ELSE Planned(pre, f.st)
      filtered(f) == IF f.ok THEN projected(f, buildPreProjection(aggNode, f.op)) ELSE f
      scanned(pipe) == IF pipe = Null THEN Refused(CloseReader(o.st, o.reader))
                       ELSE filtered(IF p.pred.k = "none" THEN Planned(pipe, o.st)
                                     ELSE buildFilterOp(p.pred, pipe, o.st))
  IN IF o.reader = NoReader THEN Refused(o.st)
     ELSE scanned(scanPipe(p.node, o.reader))

(* The file is opened once to count its row groups and once more to learn  *)
(* the pipeline's schema; both readers are closed.                         *)
tryParallelScanAggregate(aggNode, st, W) ==
  LET p     == PeelFilter(aggNode.child)
      o     == OpenFile(st, W)
      st1   == CloseReader(o.st, o.reader)
      total == Len(W.files[p.node.table])
      configured(probe, st2, cfg) ==
        IF ~cfg.ok \/ CountsDistinct(cfg) THEN Declined(st2)
        ELSE Matched(Planned(NewParallelAggregate(probe.op, SchemaOf(probe.op), total, cfg), st2))
      probed(probe) ==
        IF ~probe.ok THEN Declined(probe.st)
        ELSE configured(probe, CloseOp(probe.st, probe.op),
                        resolveAggConfig(aggNode, SchemaOf(probe.op)))
  IN IF p.node.k # "scan" THEN Declined(st)
     ELSE IF o.reader = NoReader THEN Matched(Refused(o.st))
     ELSE IF total = 0 THEN Declined(st1)
     ELSE probed(factory(aggNode, p, st1, W))

(***************************************************************************)
(* An aggregate over a join whose probe side is a scan.                    *)
(***************************************************************************)
(* sp is [is, ok, node, pred, schema, total, st]: is FALSE when the node   *)
(* is not a scan.                                                          *)
openScanPipeline(n, st, W) ==
  LET p == PeelFilter(n)
      o == OpenFile(st, W)
      sp(is, ok, s) == [is |-> is, ok |-> ok, node |-> p.node, pred |-> p.pred, st |-> s]
  IN IF p.node.k # "scan" THEN sp(FALSE, TRUE, st)
     ELSE IF o.reader = NoReader THEN sp(TRUE, FALSE, o.st)
     ELSE sp(TRUE, W.files[p.node.table] = <<>> \/ openScan(p.node, o.reader, 1, 1) # Null,
             CloseReader(o.st, o.reader))

(* The options only choose how the table is built; what matters here is    *)
(* that the files they open to look at the build side are closed again.    *)
buildSideRadixOptions(n, st, W) ==
  LET s1 == openScanPipeline(n, st, W)
      built(b) == IF ~b.ok THEN b.st ELSE CloseOp(b.st, b.op)
      nested(s2) == IF ~s2.is \/ ~s2.ok \/ W.files[s2.node.table] = <<>> THEN s2.st
                    ELSE built(Physical(n.left, s2.st, W))
  IN IF s1.is /\ s1.ok THEN s1.st
     ELSE IF n.k # "join" THEN s1.st
     ELSE nested(openScanPipeline(n.right, s1.st, W))

(* What a worker puts over the shared join; Null on an error. *)
aboveJoin(aggNode, pred, op) ==
  LET projected(f) == IF f = Null THEN Null ELSE buildPreProjection(aggNode, f)
  IN projected(FilterOver(op, pred))

(* A probe pipeline the workers will fail to open: with an error, or, when *)
(* the filter above its scan is not BOOL, with a panic, because the        *)
(* factory then calls Close on the nil Filter.                             *)
BadOp == [k |-> "badop", schema |-> <<>>]

(* The probe side's pipeline, or BadOp. *)
probePipe(sp) ==
  LET scan == scanPipe(sp.node, NoReader)
      pipe == IF scan = Null THEN Null ELSE FilterOver(scan, sp.pred)
  IN IF pipe = Null THEN [BadOp EXCEPT !.schema = OutputSchema(sp.node)] ELSE pipe

tryParallelJoin(aggNode, st, W) ==
  LET res   == PeelFilter(aggNode.child)
      j     == res.node
      configured(sp, above, cfg, st1) ==
        IF ~cfg.ok THEN Matched(Refused(st1))
        ELSE IF CountsDistinct(cfg) THEN Declined(st1)
        ELSE Matched(Planned(NewParallelAggregate(above, SchemaOf(above),
                                                  Len(W.files[sp.node.table]), cfg),
                             buildSideRadixOptions(j.left, st1, W)))
      workers(sp, above, st1) ==
        IF above = Null THEN Matched(Refused(st1))
        ELSE configured(sp, above, resolveAggConfig(aggNode, SchemaOf(above)), st1)
      keyed(sp, b, key, st1) ==
        IF 0 \in {key[1], key[2]} THEN Declined(st1)
        ELSE workers(sp, aboveJoin(aggNode, res.pred,
               NewHashJoin(b.op, probePipe(sp), key[1], key[2])), st1)
      built(sp, b) ==
        IF ~b.ok THEN Matched(Refused(b.st))
        ELSE keyed(sp, b, resolveJoinKeys(j, SchemaOf(b.op), OutputSchema(sp.node)),
                   CloseOp(b.st, b.op))
      probing(sp) ==
        IF ~sp.is THEN Declined(st)
        ELSE IF ~sp.ok THEN Matched(Refused(sp.st))
        ELSE IF W.files[sp.node.table] = <<>> THEN Declined(sp.st)
        ELSE built(sp, Physical(j.left, sp.st, W))
  IN IF j.k # "join" THEN Declined(st)
     ELSE probing(openScanPipeline(j.right, st, W))

Parallel(root, st, W) ==
  LET agg == aggregateUnderPostOps(root)
      orScan(r) == IF r.matched THEN r ELSE tryParallelScanAggregate(agg, r.st, W)
      planned(r) == IF ~r.matched THEN Physical(root, r.st, W)
                    ELSE IF ~r.ok THEN Refused(r.st)
                    ELSE buildAbove(root, r.op, r.st)
  IN IF agg.k = "none" THEN Physical(root, st, W)
     ELSE planned(orScan(tryParallelJoin(agg, st, W)))
=============================================================================
