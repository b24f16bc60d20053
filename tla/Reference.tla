------------------------------- MODULE Reference -------------------------------
(***************************************************************************)
(* internal/goldentest/reference.go: the row-at-a-time evaluator the       *)
(* golden tests hold the engine against.  It shares the AST with the       *)
(* engine and nothing else.                                                *)
(*                                                                         *)
(* A Value is Null or [t, x]: the field of the struct that is set and what *)
(* it holds.  A column map is the sequence of the FROM tables' columns,    *)
(* [table, name], in the order of a combined row.  The errors it returns   *)
(* are left out: it is asked about statements it supports.                 *)
(***************************************************************************)
EXTENDS SqlAst

Value(t, x) == [t |-> t, x |-> x]
Float(f)    == Value("float", f)
Bool(b)     == Value("bool", b)
IsTrue(v)   == v # Null /\ v.x

toFloat(v) ==
  CASE v.t = "float" -> v.x
    [] v.t \in {"int", "date"} -> FloatOf(v.x)
    [] v.t = "bool" -> FloatOf(IF v.x THEN 1 ELSE 0)
    [] v.t = "string" -> FloatOf(0)

Str(v) == IF v.t = "string" THEN v.x ELSE <<>>

(* -1, 0 or 1; a NaN is neither below nor above anything. *)
compareValues(a, b) ==
  LET strings == Str(a) # <<>> \/ Str(b) # <<>>
      below(x, y) == IF strings THEN StringLess(Str(x), Str(y))
                     ELSE FloatLess(toFloat(x), toFloat(y))
  IN IF below(a, b) THEN -1 ELSE IF below(b, a) THEN 1 ELSE 0

evalComparison(op, l, r) ==
  LET c == compareValues(l, r) IN
  Bool(CASE op = "="  -> c = 0  [] op = "<>" -> c # 0
         [] op = "<"  -> c < 0  [] op = "<=" -> c <= 0
         [] op = ">"  -> c > 0  [] op = ">=" -> c >= 0)

(* Always in floats; dividing by zero is NULL. *)
evalArithmetic(op, l, r) ==
  LET x == toFloat(l)
      y == toFloat(r)
  IN CASE op = "+" -> Float(FloatAdd(x, y))
       [] op = "-" -> Float(FloatAdd(x, FloatNeg(y)))
       [] op = "*" -> Float(FloatMul(x, y))
       [] op = "/" -> IF y = <<0, 1>> THEN Null ELSE Float(FloatDiv(x, y))

Truth(v) == IF v = Null THEN Null ELSE v.x
Lift(p)  == IF p = Null THEN Null ELSE Bool(p)
evalAnd(l, r) == Lift(And3(Truth(l), Truth(r)))
evalOr(l, r)  == Lift(Or3(Truth(l), Truth(r)))

evalBinary(op, l, r) ==
  CASE op = "AND" -> evalAnd(l, r)
    [] op = "OR"  -> evalOr(l, r)
    [] OTHER -> IF l = Null \/ r = Null THEN Null
                ELSE IF op \in Comparisons THEN evalComparison(op, l, r)
                ELSE evalArithmetic(op, l, r)

evalUnary(op, v) ==
  IF v = Null THEN Null ELSE IF op = "NOT" THEN Bool(~v.x) ELSE Float(FloatNeg(toFloat(v)))

evalIsNull(v, not) == Bool((v = Null) # not)

evalBetween(v, lo, hi, not) ==
  IF v = Null \/ lo = Null \/ hi = Null THEN Null
  ELSE Bool((compareValues(v, lo) >= 0 /\ compareValues(v, hi) <= 0) # not)

evalIn(v, list, not) ==
  IF v = Null THEN Null
  ELSE IF \E i \in DOMAIN list : list[i] # Null /\ compareValues(v, list[i]) = 0 THEN Bool(~not)
  ELSE IF \E i \in DOMAIN list : list[i] = Null THEN Null
  ELSE Bool(not)

(* The pattern as a regular expression: the positions of s reachable after *)
(* each of its characters.                                                 *)
likeMatch(s, pattern) ==
  LET step(reach, ch) ==
        CASE ch = Percent    -> {j \in 0..Len(s) : \E i \in reach : i <= j}
          [] ch = Underscore -> {j \in 1..Len(s) : j - 1 \in reach}
          [] OTHER           -> {j \in 1..Len(s) : j - 1 \in reach /\ s[j] = ch}
  IN Len(s) \in FoldLeft(step, {0}, pattern)

evalLike(v, pat, not) == IF v = Null \/ pat = Null THEN Null ELSE Bool(likeMatch(v.x, pat.x) # not)

(* The result of the first condition that is true; K as in CaseWhen. *)
evalCase(K, hasElse) ==
  LET whens == (IF hasElse THEN Len(K) - 1 ELSE Len(K)) \div 2
      hits  == {j \in 1..whens : IsTrue(K[2*j - 1])}
  IN IF hits # {} THEN K[2 * (CHOOSE j \in hits : \A i \in hits : j <= i)]
     ELSE IF hasElse THEN K[Len(K)] ELSE Null

resolveColumn(name, row, cm) ==
  row[CHOOSE i \in DOMAIN cm : /\ cm[i].name = <<Last(name)>>
                               /\ Len(name) = 2 => cm[i].table = name[1]]

Literal(e) ==
  CASE e.k = "int" -> Value("int", e.a)
    [] e.k = "float" -> Float(e.a)
    [] e.k = "str" -> Value("string", e.a)
    [] e.k = "bool" -> Bool(e.a)
    [] e.k = "null" -> Null

RECURSIVE evalExpr(_, _, _)
evalExpr(e, row, cm) ==
  LET K == [i \in DOMAIN e.kids |-> evalExpr(e.kids[i], row, cm)] IN
  CASE e.k \in Literals  -> Literal(e)
    [] e.k = "col"       -> resolveColumn(e.a, row, cm)
    [] e.k = "bin"       -> evalBinary(e.a, K[1], K[2])
    [] e.k = "un"        -> evalUnary(e.a, K[1])
    [] e.k = "isnull"    -> evalIsNull(K[1], e.a)
    [] e.k = "between"   -> evalBetween(K[1], K[2], K[3], e.a)
    [] e.k = "in"        -> evalIn(K[1], Tail(K), e.a)
    [] e.k = "like"      -> evalLike(K[1], K[2], e.a)
    [] e.k = "case"      -> evalCase(K, e.a)

(***************************************************************************)
(* FROM, WHERE and grouping.  tables maps a name to [schema, rows], the    *)
(* rows being Values.                                                      *)
(***************************************************************************)
resolveFrom(from, tables) ==
  LET alias(r) == IF r.as = "" THEN r.name ELSE r.as
      cols(r) == [j \in DOMAIN tables[r.name].schema |->
                    [table |-> alias(r), name |-> tables[r.name].schema[j].name]]
      cross(rows, r) == FlattenSeq([i \in DOMAIN rows |->
                          [j \in DOMAIN tables[r.name].rows |-> rows[i] \o tables[r.name].rows[j]]])
  IN [cm |-> FlattenSeq([i \in DOMAIN from |-> cols(from[i])]),
      rows |-> FoldLeft(cross, <<(<<>>)>>, from)]

applyFilter(rows, cm, where) ==
  IF where.k = "none" THEN rows
  ELSE SelectSeq(rows, LAMBDA r : IsTrue(evalExpr(where, r, cm)))

RECURSIVE refContainsAggregate(_)
refContainsAggregate(e) ==
  \/ e.k = "agg"
  \/ e.k \in {"bin", "un", "case"} /\ \E i \in DOMAIN e.kids : refContainsAggregate(e.kids[i])

hasAggregates(stmt) ==
  stmt.group # <<>> \/ \E i \in DOMAIN stmt.cols : refContainsAggregate(stmt.cols[i].e)

evaluateSimpleQuery(stmt, rows, cm) ==
  LET out(row) == FlattenSeq([i \in DOMAIN stmt.cols |->
                    IF stmt.cols[i].e.k = "star" THEN row
                    ELSE <<evalExpr(stmt.cols[i].e, row, cm)>>])
  IN [i \in DOMAIN rows |-> out(rows[i])]

(* Two Values are the same key when the same field holds the same thing. *)
Keys(rows) == FoldLeft(LAMBDA acc, k : IF Contains(acc, k) THEN acc ELSE Append(acc, k), <<>>, rows)

buildGroupKey(row, group, cm) == [i \in DOMAIN group |-> evalExpr(group[i], row, cm)]

computeAggregate(a, arg, rows, cm) ==
  LET some == SelectSeq([i \in DOMAIN rows |-> evalExpr(arg, rows[i], cm)], LAMBDA v : v # Null)
      distinct(vals) == IF a.distinct THEN Keys(vals) ELSE vals
      sum(vals) == FoldLeft(LAMBDA s, v : FloatAdd(s, toFloat(v)), <<0, 1>>, vals)
      best(vals, sign) == FoldLeft(LAMBDA m, v : IF compareValues(v, m) = sign THEN v ELSE m,
                                   Head(vals), Tail(vals))
      over(vals) == CASE vals = <<>> -> Null
                      [] vals # <<>> /\ a.f = "SUM" -> Float(sum(vals))
                      [] vals # <<>> /\ a.f = "AVG" -> Float(FloatDiv(sum(vals), FloatOf(Len(vals))))
                      [] vals # <<>> /\ a.f = "MIN" -> best(vals, -1)
                      [] vals # <<>> /\ a.f = "MAX" -> best(vals, 1)
  IN CASE a.f = "COUNT" /\ arg.k = "star" -> Value("int", Len(rows))
       [] a.f = "COUNT" /\ arg.k # "star" -> Value("int", Len(distinct(some)))
       [] OTHER -> over(distinct(some))

(* A column outside an aggregate is the group's first row's. *)
RECURSIVE evalAggExpr(_, _, _)
evalAggExpr(e, rows, cm) ==
  LET K == [i \in DOMAIN e.kids |-> evalAggExpr(e.kids[i], rows, cm)] IN
  CASE e.k \in Literals -> Literal(e)
    [] e.k = "agg"  -> computeAggregate(e.a, e.kids[1], rows, cm)
    [] e.k = "col"  -> IF rows = <<>> THEN Null ELSE resolveColumn(e.a, rows[1], cm)
    [] e.k = "bin"  -> evalBinary(e.a, K[1], K[2])
    [] e.k = "case" -> evalCase(K, e.a)

evaluateGroupedQuery(stmt, rows, cm) ==
  LET keys == IF stmt.group = <<>> THEN <<(<<>>)>>
              ELSE Keys([i \in DOMAIN rows |-> buildGroupKey(rows[i], stmt.group, cm)])
      groups == [i \in DOMAIN keys |->
                   SelectSeq(rows, LAMBDA r : buildGroupKey(r, stmt.group, cm) = keys[i])]
      kept == SelectSeq(groups, LAMBDA g : \/ stmt.having.k = "none"
                                           \/ IsTrue(evalAggExpr(stmt.having, g, cm)))
  IN [i \in DOMAIN kept |-> [c \in DOMAIN stmt.cols |-> evalAggExpr(stmt.cols[c].e, kept[i], cm)]]

(***************************************************************************)
(* DISTINCT, ORDER BY, OFFSET and LIMIT.                                   *)
(***************************************************************************)
(* The output column an ORDER BY entry names, 0 when none: it is ignored then. *)
resolveOrderByCol(e, cols) ==
  LET named == {i \in DOMAIN cols : \/ cols[i].as = <<Last(e.a)>>
                                    \/ /\ cols[i].e.k = "col"
                                       /\ Last(cols[i].e.a) = Last(e.a)}
  IN CASE e.k = "int" -> e.a
       [] e.k = "col" -> IF named = {} THEN 0 ELSE CHOOSE i \in named : \A j \in named : i <= j
       [] OTHER -> 0

RECURSIVE RowBefore(_, _, _)
RowBefore(specs, a, b) ==
  LET s == Head(specs)
      x == a[s.col]
      y == b[s.col]
  IN IF specs = <<>> THEN FALSE
     ELSE IF s.col = 0 \/ (x = Null /\ y = Null) THEN RowBefore(Tail(specs), a, b)
     ELSE IF x = Null \/ y = Null THEN x = Null
     ELSE IF compareValues(x, y) = 0 THEN RowBefore(Tail(specs), a, b)
     ELSE compareValues(x, y) = IF s.desc THEN 1 ELSE -1

applyOrderBy(rows, order, cols) ==
  LET specs == [i \in DOMAIN order |-> [col |-> resolveOrderByCol(order[i].e, cols),
                                        desc |-> order[i].desc]]
      insert(acc, r) ==
        LET n == Cardinality({i \in DOMAIN acc : ~RowBefore(specs, r, acc[i])})
        IN SubSeq(acc, 1, n) \o <<r>> \o SubSeq(acc, n + 1, Len(acc))
  IN FoldLeft(insert, <<>>, rows)

(* The rows before OFFSET and LIMIT cut them. *)
EvaluateAll(stmt, tables) ==
  LET f == resolveFrom(stmt.from, tables)
      selected(rows) == IF hasAggregates(stmt) THEN evaluateGroupedQuery(stmt, rows, f.cm)
                        ELSE evaluateSimpleQuery(stmt, rows, f.cm)
      distinct(rows) == IF stmt.distinct THEN Keys(rows) ELSE rows
      ordered(rows)  == IF stmt.order = <<>> THEN rows
                        ELSE applyOrderBy(rows, stmt.order, stmt.cols)
  IN ordered(distinct(selected(applyFilter(f.rows, f.cm, stmt.where))))

(* What OFFSET and LIMIT leave of all the rows. *)
Evaluate(stmt, all) ==
  LET off == IF stmt.offset = Null THEN 0 ELSE stmt.offset
      cut == SubSeq(all, off + 1, Len(all))
  IN IF stmt.limit = Null THEN cut ELSE SubSeq(cut, 1, IF stmt.limit < Len(cut) THEN stmt.limit ELSE Len(cut))
=============================================================================
