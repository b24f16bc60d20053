------------------------------ MODULE PlanOptimize ------------------------------
(***************************************************************************)
(* planner/optimizer.go: predicate pushdown, then column pruning.  A set   *)
(* of needed columns is a sequence of names; Null means every column.      *)
(***************************************************************************)
EXTENDS PlanBuild

RECURSIVE pushPredicates(_)
pushPredicates(n) ==
  LET c == pushPredicates(n.child) IN
  CASE n.k = "scan" -> n
    [] n.k = "join" -> [n EXCEPT !.left = pushPredicates(@), !.right = pushPredicates(@)]
    [] n.k = "filter" /\ c.k = "scan" -> [c EXCEPT !.pred = andExpr(@, n.pred)]
    [] OTHER -> [n EXCEPT !.child = c]

uniqueStrings(ss) ==
  FoldLeft(LAMBDA acc, s : IF Contains(acc, s) THEN acc ELSE Append(acc, s), <<>>, ss)

addNeeded(needed, extra) == IF needed = Null THEN Null ELSE uniqueStrings(needed \o extra)

(* The columns e reads, in the order it mentions them. *)
predicateCols(e) ==
  LET cs == SelectSeq(walkExpr(e), LAMBDA x : x.k = "col") IN [i \in DOMAIN cs |-> cs[i].a]

(* Null when none of schema's columns is wanted. *)
schemaColsIn(schema, want) ==
  LET cs == SelectSeq(schema, LAMBDA f : Contains(want, f.name))
  IN IF cs = <<>> THEN Null ELSE [i \in DOMAIN cs |-> cs[i].name]

aggregateCols(n) ==
  uniqueStrings(n.group \o FlattenSeq([i \in DOMAIN n.aggs |->
    IF n.aggs[i].e.k # "none" THEN predicateCols(n.aggs[i].e)
    ELSE IF n.aggs[i].col # <<>> THEN <<n.aggs[i].col>> ELSE <<>>]))

RECURSIVE pruneColumns(_, _)
pruneColumns(n, needed) ==
  LET below(cols) == [n EXCEPT !.child = pruneColumns(@, cols)]
      side(m) == IF needed = Null THEN Null
                 ELSE schemaColsIn(OutputSchema(m), needed \o <<n.lcol, n.rcol>>)
  IN CASE n.k = "scan" -> IF needed = Null THEN n
                          ELSE [n EXCEPT !.needed = addNeeded(needed, predicateCols(n.pred))]
       [] n.k = "filter"  -> below(addNeeded(needed, predicateCols(n.pred)))
       [] n.k = "project" -> below(uniqueStrings(FlattenSeq(
                               [i \in DOMAIN n.items |-> predicateCols(n.items[i].e)])))
       [] n.k = "agg"     -> below(aggregateCols(n))
       [] n.k = "sort"    -> below(addNeeded(needed, [i \in DOMAIN n.order |-> n.order[i].name]))
       [] n.k \in {"limit", "distinct"} -> below(needed)
       [] n.k = "join"    -> [n EXCEPT !.left = pruneColumns(@, side(@)),
                                       !.right = pruneColumns(@, side(@))]

Optimize(root) == pruneColumns(pushPredicates(root), Null)
=============================================================================
