------------------------------- MODULE PlanBuild -------------------------------
(***************************************************************************)
(* planner/build.go and planner/logical.go: from a parsed SELECT to a      *)
(* logical plan.  A statement is [cols, from, where, group, having, order, *)
(* distinct, limit, offset]; a select column is [e, as] with as = <<>>     *)
(* when it has no alias, a FROM entry [name, as], an ORDER BY entry        *)
(* [e, desc].  NoExpr stands for an absent clause, Null for an absent      *)
(* LIMIT or OFFSET.  BadPlan is the error Build returns.                   *)
(***************************************************************************)
EXTENDS PlanExpr

CONSTANT Schemas   \* the catalog: table -> sequence of [name, t]

NoExpr  == Node("none", 0, <<>>)
BadPlan == [k |-> "bad"]

(* A column in expression position names a bare or a table-qualified column. *)
Qualified(name) == Len(name) = 2

Scan(table, schema, pred, needed) ==
  [k |-> "scan", table |-> table, schema |-> schema, pred |-> pred, needed |-> needed]
LFilter(child, pred)   == [k |-> "filter", child |-> child, pred |-> pred]
LProject(child, items) == [k |-> "project", child |-> child, items |-> items]
Agg(child, group, aggs) == [k |-> "agg", child |-> child, group |-> group, aggs |-> aggs]
Sort(child, order)     == [k |-> "sort", child |-> child, order |-> order]
LLimit(child, count, offset) ==
  [k |-> "limit", child |-> child, count |-> count, offset |-> offset]
Distinct(child)        == [k |-> "distinct", child |-> child]
Join(left, right, l, r) == [k |-> "join", left |-> left, right |-> right, lcol |-> l, rcol |-> r]

(***************************************************************************)
(* The symbol table: per FROM entry its name and its columns, each with    *)
(* the name it has in the file and the name it carries through the plan.   *)
(***************************************************************************)
DisplayName(ref) == IF ref.as = "" THEN ref.name ELSE ref.as

newSymbolTable(from) ==
  LET shared(c) == Cardinality({i \in DOMAIN from :
                                  IndexOf(Schemas[from[i].name], c) # 0}) > 1
      out(i, c) == IF shared(c) THEN <<DisplayName(from[i])>> \o c ELSE c
  IN [i \in DOMAIN from |->
        [name |-> DisplayName(from[i]),
         cols |-> [j \in DOMAIN Schemas[from[i].name] |->
                     LET f == Schemas[from[i].name][j] IN
                     [source |-> f.name, name |-> out(i, f.name), t |-> f.t]]]]

Unambiguous(from) ==
  /\ \A i \in DOMAIN from : from[i].name \in DOMAIN Schemas
  /\ \A i, j \in DOMAIN from : i # j => DisplayName(from[i]) # DisplayName(from[j])

(* The plan-wide name of a column, <<>> when unknown or ambiguous. *)
resolve(st, name) ==
  LET in(i) == IF Qualified(name) /\ st[i].name # name[1] THEN {}
               ELSE {<<i, j>> : j \in {j \in DOMAIN st[i].cols :
                                         st[i].cols[j].source = <<Last(name)>>}}
      hits == UNION {in(i) : i \in DOMAIN st}
      hit  == CHOOSE h \in hits : TRUE
  IN IF Cardinality(hits) = 1 THEN st[hit[1]].cols[hit[2]].name ELSE <<>>

RECURSIVE resolveColumns(_, _)
resolveColumns(st, e) ==
  IF e.k # "col" THEN rewriteExpr(e, [i \in DOMAIN e.kids |-> resolveColumns(st, e.kids[i])])
  ELSE IF resolve(st, e.a) = <<>> THEN Bad ELSE Col(resolve(st, e.a))

resolveScalar(st, e) ==
  IF e.k = "none" THEN e ELSE IF containsAggregate(e) THEN Bad ELSE resolveColumns(st, e)

tableOfOut(st, out) ==
  CHOOSE i \in DOMAIN st : \E j \in DOMAIN st[i].cols : st[i].cols[j].name = out
tablesOf(st, e) == {tableOfOut(st, c) : c \in collectCols(e)}

(***************************************************************************)
(* FROM and WHERE.                                                         *)
(***************************************************************************)
RECURSIVE flattenAnd(_)
flattenAnd(e) ==
  IF e.k = "none" THEN <<>>
  ELSE IF e.k = "bin" /\ e.a = "AND" THEN flattenAnd(e.kids[1]) \o flattenAnd(e.kids[2])
  ELSE <<e>>

andExpr(a, b) == IF a.k = "none" THEN b ELSE Bin("AND", a, b)
AndAll(terms) == FoldLeft(andExpr, NoExpr, terms)

isJoinEdge(term, scans, st) ==
  /\ term.k = "bin" /\ term.a = "=" /\ term.kids[1].k = "col" /\ term.kids[2].k = "col"
  /\ LET lt == tableOfOut(st, term.kids[1].a)
         rt == tableOfOut(st, term.kids[2].a)
         type(i, c) == scans[i].schema[IndexOf(scans[i].schema, c)].t
     IN /\ lt # rt
        /\ type(lt, term.kids[1].a) = type(rt, term.kids[2].a)
        /\ type(lt, term.kids[1].a) \in {"int", "date"}

(* Left-deep: always the first unused edge with exactly one side in the tree. *)
RECURSIVE buildJoinTree(_, _, _, _, _, _)
buildJoinTree(scans, edges, st, root, included, used) ==
  LET side(i, s) == tableOfOut(st, edges[i].kids[s].a)
      new(i, s)  == side(i, 3 - s) \in included /\ side(i, s) \notin included
      cand == {i \in DOMAIN edges \ used : new(i, 1) \/ new(i, 2)}
      i    == CHOOSE x \in cand : \A y \in cand : x <= y
      s    == IF new(i, 2) THEN 2 ELSE 1
      rest == SetToSortSeq(DOMAIN edges \ used, <)
  IN IF included = DOMAIN scans
       THEN [root |-> root, unused |-> [x \in DOMAIN rest |-> edges[rest[x]]]]
     ELSE IF cand = {} THEN [root |-> BadPlan, unused |-> <<>>]
     ELSE buildJoinTree(scans, edges, st,
            Join(root, scans[side(i, s)], edges[i].kids[3 - s].a, edges[i].kids[s].a),
            included \union {side(i, s)}, used \union {i})

(* Every conjunct of WHERE goes to exactly one place: a join condition, one *)
(* table's scan, or the filter above the joins.                             *)
buildMultiTablePlan(scans, where, st) ==
  LET terms == flattenAnd(where)
      edge(t) == isJoinEdge(t, scans, st)
      edges == SelectSeq(terms, edge)
      home(t) == IF tablesOf(st, t) = {} THEN {1} ELSE tablesOf(st, t)
      of(i) == SelectSeq(terms, LAMBDA t : ~edge(t) /\ home(t) = {i})
      residual == SelectSeq(terms, LAMBDA t : ~edge(t) /\ Cardinality(home(t)) > 1)
      filtered == [i \in DOMAIN scans |-> [scans[i] EXCEPT !.pred = AndAll(of(i))]]
      tree == buildJoinTree(filtered, edges, st, filtered[1], {1}, {})
      above == AndAll(residual \o tree.unused)
  IN IF tree.root.k = "bad" \/ above.k = "none" THEN tree.root ELSE LFilter(tree.root, above)

buildFrom(st, from, where) ==
  LET scans == [i \in DOMAIN from |->
                  Scan(from[i].name, [j \in DOMAIN st[i].cols |->
                         [name |-> st[i].cols[j].name, t |-> st[i].cols[j].t]], NoExpr, Null)]
  IN IF Len(scans) > 1 THEN buildMultiTablePlan(scans, where, st)
     ELSE IF where.k = "none" THEN scans[1] ELSE LFilter(scans[1], where)

(***************************************************************************)
(* Names and types of output columns.                                      *)
(***************************************************************************)
exprName(e) ==
  CASE e.k = "col" -> <<Last(e.a)>>
    [] e.k = "agg" /\ e.kids[1].k = "col"  -> <<e.a.f, "_">> \o <<Last(e.kids[1].a)>>
    [] e.k = "agg" /\ e.kids[1].k = "star" -> <<e.a.f, "_", "*">>
    [] OTHER -> FormatExpr(e)

RECURSIVE resolveExprType(_, _)
resolveExprType(e, schema) ==
  LET type(i) == resolveExprType(e.kids[i], schema)
      c == IndexOf(schema, e.a)
  IN CASE e.k = "col"   -> IF c = 0 THEN "int" ELSE schema[c].t
       [] e.k = "float" -> "float"
       [] e.k = "str"   -> "string"
       [] e.k \in {"bool", "isnull", "between", "in", "like"} -> "bool"
       [] e.k = "un"    -> IF e.a = "NOT" THEN "bool" ELSE type(1)
       [] e.k = "bin"   -> IF e.a \notin {"+", "-", "*", "/"} THEN "bool"
                           ELSE IF "float" \in {type(1), type(2)} THEN "float" ELSE type(1)
       [] e.k = "case"  -> type(2)
       [] OTHER         -> "int"

aggItemType(a, schema) ==
  LET c == IndexOf(schema, a.col) IN
  CASE a.f = "COUNT" -> "int"
    [] a.f = "AVG"   -> "float"
    [] OTHER         -> IF a.e.k # "none" THEN resolveExprType(a.e, schema)
                        ELSE IF c = 0 THEN "float" ELSE schema[c].t

RECURSIVE OutputSchema(_)
OutputSchema(n) ==
  LET S == OutputSchema(n.child)
      pick(names, schema) ==
        LET known == SelectSeq(names, LAMBDA x : IndexOf(schema, x) # 0)
        IN [i \in DOMAIN known |-> schema[IndexOf(schema, known[i])]]
  IN CASE n.k = "scan" -> IF n.needed = Null \/ n.needed = <<>> THEN n.schema
                          ELSE pick(n.needed, n.schema)
       [] n.k = "project" -> [i \in DOMAIN n.items |-> [name |-> n.items[i].as, t |-> n.items[i].t]]
       [] n.k = "agg"     -> pick(n.group, S)
                               \o [i \in DOMAIN n.aggs |-> [name |-> n.aggs[i].as,
                                                            t |-> aggItemType(n.aggs[i], S)]]
       [] n.k = "join"    -> OutputSchema(n.left) \o OutputSchema(n.right)
       [] OTHER           -> S

(***************************************************************************)
(* The SELECT list.  An item is [e, as, userAs]; q is the query so far:    *)
(* [ok, child, items, exprs], exprs the items over the child's output.     *)
(***************************************************************************)
expandSelectList(cols, st) ==
  LET star == FlattenSeq([i \in DOMAIN st |-> [j \in DOMAIN st[i].cols |->
                [e |-> Col(<<st[i].name>> \o st[i].cols[j].source),
                 as |-> st[i].cols[j].source, userAs |-> <<>>]]])
      item(c) == [e |-> c.e, as |-> IF c.as = <<>> THEN exprName(c.e) ELSE c.as, userAs |-> c.as]
  IN FlattenSeq([i \in DOMAIN cols |->
                   IF cols[i].e.k = "star" THEN star ELSE <<item(cols[i])>>])

AnyBad(es) == \E i \in DOMAIN es : es[i].k = "bad"

(* prefix_n, or the first prefix_n_k not in use. *)
uniqueName(prefix, n, used) ==
  LET name(k) == IF k = 0 THEN <<prefix, ToString(n)>> ELSE <<prefix, ToString(n), ToString(k)>>
  IN name(CHOOSE k \in 0..Cardinality(used) : /\ name(k) \notin used
                                              /\ \A j \in 0..(k - 1) : name(j) \in used)

(***************************************************************************)
(* Aggregation.  ab is [ok, group, aggs, names]: the GROUP BY columns, the *)
(* aggregates so far, each [f, distinct, col, e, as], and the names taken. *)
(***************************************************************************)
addAggregate(ab, st, ae, as0) ==
  LET arg == ae.kids[1]
      star == arg.k = "star"
      res == IF star THEN NoExpr ELSE resolveColumns(st, arg)
      n   == Len(ab.aggs)
      as  == IF as0 = <<>> \/ as0 \in ab.names THEN uniqueName("_agg", n, ab.names) ELSE as0
      col == CASE star -> <<>>
               [] ~star /\ res.k = "col" -> res.a
               [] OTHER -> <<"_agg_arg", ToString(n)>>
      ok  == /\ ae.a.distinct => ae.a.f = "COUNT"
             /\ star => ae.a.f = "COUNT" /\ ~ae.a.distinct
             /\ ~containsAggregate(arg)
             /\ res.k # "bad"
  IN IF ~ok THEN [ab EXCEPT !.ok = FALSE]
     ELSE [ab EXCEPT !.names = @ \union {as},
                     !.aggs = Append(@, [f |-> ae.a.f, distinct |-> ae.a.distinct, col |-> col,
                                         e |-> IF res.k = "col" THEN NoExpr ELSE res,
                                         as |-> as])]

(* What two equal aggregates share: the rendering of the argument, nothing *)
(* for a star, and nothing for an argument that holds an aggregate.        *)
argKey(st, ae) ==
  IF ae.kids[1].k = "star" \/ containsAggregate(ae.kids[1]) THEN <<>>
  ELSE FormatExpr(resolveColumns(st, ae.kids[1]))
aggKey(a) == IF a.e.k = "none" THEN a.col ELSE FormatExpr(a.e)

FindAggregate(ab, st, ae) ==
  SelectSeq(ab.aggs, LAMBDA a : /\ a.f = ae.a.f /\ a.distinct = ae.a.distinct
                                /\ aggKey(a) = argKey(st, ae))

findOrAddAggregate(ab, st, ae) ==
  IF ae.kids[1].k # "star" /\ ~containsAggregate(ae.kids[1])
       /\ resolveColumns(st, ae.kids[1]).k = "bad"
    THEN [ab EXCEPT !.ok = FALSE]
  ELSE IF FindAggregate(ab, st, ae) # <<>> THEN ab
  ELSE addAggregate(ab, st, ae, <<>>)

(* The aggregates a rewrite of e meets, in the order it meets them. *)
RECURSIVE aggregatesIn(_)
aggregatesIn(e) ==
  IF e.k = "agg" THEN <<e>>
  ELSE FlattenSeq([i \in DOMAIN e.kids |-> aggregatesIn(e.kids[i])])

collectAggregates(ab, st, e) ==
  FoldLeft(LAMBDA acc, ae : IF acc.ok THEN findOrAddAggregate(acc, st, ae) ELSE acc,
           ab, aggregatesIn(e))

(* e over the aggregate's output.  subs are the SELECT aliases HAVING may  *)
(* use for a name no table has.                                            *)
RECURSIVE rewrite(_, _, _, _)
rewrite(ab, st, e, subs) ==
  LET out  == resolve(st, e.a)
      hits == SelectSeq(subs, LAMBDA s : s.as = e.a)
      byName == {i \in DOMAIN st : \E j \in DOMAIN st[i].cols : st[i].cols[j].source = e.a}
  IN CASE e.k = "agg" -> Col(FindAggregate(ab, st, e)[1].as)
       [] e.k = "col" -> IF out # <<>> THEN IF Contains(ab.group, out) THEN Col(out) ELSE Bad
                         ELSE IF byName = {} /\ hits # <<>> THEN hits[1].e
                         ELSE Bad
       [] OTHER -> rewriteExpr(e, [i \in DOMAIN e.kids |-> rewrite(ab, st, e.kids[i], subs)])

(* q is [ok, aggregating, root, ab, having, items, exprs]. *)
buildScalarSelect(root, items, st) ==
  LET exprs == [i \in DOMAIN items |-> resolveScalar(st, items[i].e)] IN
  [ok |-> ~AnyBad(exprs), aggregating |-> FALSE, root |-> root, ab |-> Null,
   having |-> NoExpr, items |-> items, exprs |-> exprs]

(* A top-level aggregate of the SELECT list gets a column of its own; one  *)
(* inside an expression shares the column of an equal one.                 *)
selectAggregates(ab0, st, items) ==
  LET step(acc, it) ==
        LET top == it.e.k = "agg"
            ab  == IF top THEN addAggregate(acc.ab, st, it.e, it.as)
                   ELSE collectAggregates(acc.ab, st, it.e)
        IN IF ~acc.ab.ok THEN acc
           ELSE IF ~ab.ok THEN [acc EXCEPT !.ab = ab]
           ELSE [ab |-> ab,
                 exprs |-> Append(acc.exprs, IF top THEN Col(Last(ab.aggs).as)
                                             ELSE rewrite(ab, st, it.e, <<>>))]
  IN FoldLeft(step, [ab |-> ab0, exprs |-> <<>>], items)

buildAggregation(root, stmt, items, st) ==
  LET G   == stmt.group
      grouped == \A i \in DOMAIN G : G[i].k = "col" /\ resolve(st, G[i].a) # <<>>
      group == [i \in DOMAIN G |-> resolve(st, G[i].a)]
      having == stmt.having.k # "none"
      query(sel, ab, pred) ==
        [ok |-> grouped /\ sel.ab.ok /\ ~AnyBad(sel.exprs) /\ ab.ok /\ pred.k # "bad",
         aggregating |-> TRUE, root |-> root, ab |-> ab,
         having |-> pred, items |-> items, exprs |-> sel.exprs]
      subs(sel) == [i \in DOMAIN items |-> [as |-> items[i].userAs, e |-> sel.exprs[i]]]
      filtered(sel, ab) ==
        query(sel, ab, IF having THEN rewrite(ab, st, stmt.having, subs(sel)) ELSE NoExpr)
      selected(sel) ==
        filtered(sel, IF having THEN collectAggregates(sel.ab, st, stmt.having) ELSE sel.ab)
  IN selected(selectAggregates([ok |-> grouped, group |-> group, aggs |-> <<>>,
                                names |-> ToSet(group)], st, items))

(* The plan under the projection. *)
ChildOf(q) ==
  LET agg == Agg(q.root, q.ab.group, q.ab.aggs) IN
  IF ~q.aggregating THEN q.root
  ELSE IF q.having.k = "none" THEN agg ELSE LFilter(agg, q.having)

(* The first SELECT entry an ORDER BY expression names by position or by   *)
(* header, 0 for none, -1 for an error.                                    *)
orderTarget(q, e) ==
  LET named == {i \in DOMAIN q.items : q.items[i].as = e.a}
      first == CHOOSE i \in named : \A j \in named : i <= j
  IN CASE e.k = "int" -> IF e.a \in DOMAIN q.items THEN e.a ELSE -1
       [] e.k = "col" /\ ~Qualified(e.a) ->
            IF named = {} THEN 0
            ELSE IF \E i \in named : FormatExpr(q.exprs[i]) # FormatExpr(q.exprs[first]) THEN -1
            ELSE first
       [] OTHER -> 0

(* The first item that renders like e, 0 for none. *)
matchItem(e, items) ==
  LET same == {i \in DOMAIN items : FormatExpr(items[i].e) = FormatExpr(e)} IN
  IF same = {} THEN 0 ELSE CHOOSE i \in same : \A j \in same : i <= j

(* One ORDER BY entry: acc is [q, items, used, order]; a key the SELECT    *)
(* list lacks becomes a hidden item.                                       *)
addOrderKey(acc, ob, st, distinct) ==
  LET q    == acc.q
      idx  == orderTarget(q, ob.e)
      ab   == IF q.aggregating THEN collectAggregates(q.ab, st, ob.e) ELSE q.ab
      res  == IF ~q.aggregating THEN resolveScalar(st, ob.e)
              ELSE IF ab.ok THEN rewrite(ab, st, ob.e, <<>>) ELSE Bad
      hit  == matchItem(res, acc.items)
      name == uniqueName("_order", Len(acc.items), acc.used)
      key(as) == [name |-> as, desc |-> ob.desc]
      fail == [acc EXCEPT !.q.ok = FALSE]
      acc1 == [acc EXCEPT !.q.ab = ab]
  IN IF ~q.ok \/ idx < 0 THEN fail
     ELSE IF idx > 0 THEN [acc EXCEPT !.order = Append(@, key(acc.items[idx].as))]
     ELSE IF res.k = "bad" THEN fail
     ELSE IF hit > 0 THEN [acc1 EXCEPT !.order = Append(@, key(acc.items[hit].as))]
     ELSE IF distinct THEN fail
     ELSE [acc1 EXCEPT !.used = @ \union {name}, !.order = Append(@, key(name)),
                       !.items = Append(@, [as |-> name, e |-> res])]

(* The SELECT entries under names of their own. *)
internalNames(q) ==
  FoldLeft(LAMBDA acc, i :
             LET as == IF q.items[i].as \in acc.used THEN uniqueName("_col", i - 1, acc.used)
                       ELSE q.items[i].as
             IN [acc EXCEPT !.used = @ \union {as},
                            !.items = Append(@, [as |-> as, e |-> q.exprs[i]])],
           [q |-> q, items |-> <<>>, used |-> {}, order |-> <<>>], [i \in DOMAIN q.items |-> i])

\* Mutant: columns of the child after the last item do not matter.
isPrefixProject(items, schema) ==
  /\ Len(items) <= Len(schema)
  /\ \A i \in DOMAIN items : /\ items[i].e.k = "col"
                             /\ items[i].e.a = schema[i].name
                             /\ items[i].as = schema[i].name

isIdentityProject(items, schema) ==
  /\ Len(items) = Len(schema)
  /\ \A i \in DOMAIN items : /\ items[i].e.k = "col"
                             /\ items[i].e.a = schema[i].name
                             /\ items[i].as = schema[i].name

(* Projection, DISTINCT, ORDER BY, LIMIT, and a second projection when     *)
(* names or hidden keys have to go.                                        *)
finish(q0, stmt, st) ==
  LET typed(items, S) == [i \in DOMAIN items |->
                            [as |-> items[i].as, e |-> items[i].e,
                             t |-> resolveExprType(items[i].e, S)]]
      projected(n, S, items) == IF isIdentityProject(items, S) THEN n ELSE LProject(n, items)
      distinct(n) == IF stmt.distinct THEN Distinct(n) ELSE n
      sorted(n, order) == IF order = <<>> THEN n ELSE Sort(n, order)
      limited(n) == IF stmt.limit = Null /\ stmt.offset = Null THEN n
                    ELSE LLimit(n, IF stmt.limit = Null THEN -1 ELSE stmt.limit,
                                   IF stmt.offset = Null THEN 0 ELSE stmt.offset)
      named(n, q, items) ==
        IF Len(items) > Len(q.items) \/ \E i \in DOMAIN q.items : items[i].as # q.items[i].as
          THEN LProject(n, [i \in DOMAIN q.items |->
                              [as |-> q.items[i].as, e |-> Col(items[i].as),
                               t |-> OutputSchema(n)[i].t]])
        ELSE n
      over(acc, child, S, items) ==
        named(limited(sorted(distinct(projected(child, S, items)), acc.order)), acc.q, items)
      plan(acc, child, S) ==
        IF ~acc.q.ok THEN BadPlan ELSE over(acc, child, S, typed(acc.items, S))
      from(acc) == plan(acc, ChildOf(acc.q), OutputSchema(ChildOf(acc.q)))
  IN from(FoldLeft(LAMBDA a, ob : addOrderKey(a, ob, st, stmt.distinct),
                   internalNames(q0), stmt.order))

Build(stmt) ==
  LET st    == newSymbolTable(stmt.from)
      where == resolveScalar(st, stmt.where)
      root  == buildFrom(st, stmt.from, where)
      items == expandSelectList(stmt.cols, st)
      aggregating == \/ stmt.group # <<>> \/ containsAggregate(stmt.having)
                     \/ \E i \in DOMAIN items : containsAggregate(items[i].e)
      finished(q) == IF ~q.ok THEN BadPlan ELSE finish(q, stmt, st)
  IN IF stmt.from = <<>> \/ ~Unambiguous(stmt.from) THEN BadPlan
     ELSE IF where.k = "bad" THEN BadPlan
     ELSE IF root.k = "bad" THEN BadPlan
     ELSE IF ~aggregating /\ stmt.having.k # "none" THEN BadPlan
     ELSE finished(IF aggregating THEN buildAggregation(root, stmt, items, st)
                   ELSE buildScalarSelect(root, items, st))
=============================================================================
