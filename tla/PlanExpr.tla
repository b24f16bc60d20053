------------------------------- MODULE PlanExpr -------------------------------
(***************************************************************************)
(* The expression half of planner/physical.go: the translation of a SQL    *)
(* expression into an executable one, with its type checks and coercions,  *)
(* and the zone-map predicate that decides which row groups a scan skips.  *)
(* A schema is a sequence of [name, t].                                    *)
(***************************************************************************)
EXTENDS ExecExpr

CONSTANTS DateOf,    \* the strings that parse as dates, with their day numbers
          MaxDays    \* the largest day number a DATE holds; 2^31 - 1 in the code

ASSUME DateAssumption == /\ MaxDays \in Nat
                         /\ \A s \in DOMAIN DateOf : DateOf[s] \in Int

BadExpr == Expr("bad", 0, <<>>, "none")   \* a planning error
IsBad(e) == e.k = "bad"
Lit(v, t) == Expr("lit", v, <<>>, t)

IndexOf(schema, name) ==
  IF \E i \in DOMAIN schema : schema[i].name = name
    THEN CHOOSE i \in DOMAIN schema :
           schema[i].name = name /\ \A j \in 1..(i - 1) : schema[j].name # name
    ELSE 0

exactFloat(v)    == Abs(v) <= MaxExact
exactInt64(f)    == f # NaN /\ f[2] = 1
exactDateDays(v) == v \in (-MaxDays - 1)..MaxDays
parsesAsDate(s)  == s \in DOMAIN DateOf /\ exactDateDays(DateOf[s])

(* b made to match a's type when b is a literal that converts exactly. *)
coerceOneSide(a, b) ==
  CASE b.k = "lit" /\ a.t = "date" /\ b.t = "string" /\ parsesAsDate(b.a) ->
         Lit(DateOf[b.a], "date")
    [] b.k = "lit" /\ a.t = "date" /\ b.t = "int" /\ exactDateDays(b.a) -> Lit(b.a, "date")
    [] b.k = "lit" /\ a.t = "float" /\ b.t = "int" -> Lit(FloatOf(b.a), "float")
    [] b.k = "lit" /\ a.t = "int" /\ b.t = "float" /\ exactInt64(b.a) -> Lit(b.a[1], "int")
    [] OTHER -> b

(* The right side first, then the left side against the new right side. *)
coercePair(l, r) ==
  LET r1 == coerceOneSide(l, r) IN <<coerceOneSide(r1, l), r1>>

castToFloat(e) ==
  CASE e.t = "int" /\ e.k = "lit" -> Lit(FloatOf(e.a), "float")
    [] e.t = "int" /\ e.k # "lit" -> Expr("cast", 0, <<e>>, "float")
    [] OTHER -> e

(* The operands as the executor compares them, or nothing when it cannot. *)
comparableOperands(l, r) ==
  IF l.t # r.t
    THEN IF {l.t, r.t} = {"int", "float"} THEN <<castToFloat(l), castToFloat(r)>> ELSE <<>>
  ELSE IF l.t \in {"int", "float", "date"} THEN <<l, r>> ELSE <<>>

RECURSIVE foldConstant(_)
foldConstant(e) ==
  IF e.k # "un" \/ e.a # "-" THEN e
  ELSE LET lit == foldConstant(e.kids[1]) IN
       CASE lit.k = "int" -> IntLit(-lit.a)
         [] lit.k = "float" -> FloatLit(FloatNeg(lit.a))
         [] OTHER -> e

(* One IN-list entry for an operand of type t: a value, NULL, a constant   *)
(* no value of the type equals, or an error.                               *)
inListValue(item, t) ==
  LET lit == foldConstant(item)
      value(v) == [is |-> "value", v |-> v]
      only(is) == [is |-> is, v |-> 0]
  IN CASE lit.k = "null" -> only("null")
       [] lit.k = "int" /\ t = "int" -> value(lit.a)
       [] lit.k = "int" /\ t = "float" -> value(FloatOf(lit.a))
       [] lit.k = "int" /\ t = "date" /\ exactDateDays(lit.a) -> value(lit.a)
       [] lit.k = "float" /\ t = "float" -> value(lit.a)
       [] lit.k = "float" /\ t = "int" ->
            IF exactInt64(lit.a) THEN value(lit.a[1]) ELSE only("never")
       [] lit.k = "str" /\ t = "string" -> value(lit.a)
       [] lit.k = "str" /\ t = "date" /\ parsesAsDate(lit.a) -> value(DateOf[lit.a])
       [] lit.k = "bool" /\ t = "bool" -> value(lit.a)
       [] OTHER -> only("error")

buildUnary(op, child) ==
  CASE op = "NOT" -> Expr("not", 0, <<child>>, "bool")
    [] op = "-" /\ child.t = "float" -> Expr("bin", "*", <<child, Lit(<<-1, 1>>, "float")>>, "float")
    [] op = "-" /\ child.t = "int" -> Expr("bin", "*", <<child, Lit(-1, "int")>>, "int")
    [] OTHER -> BadExpr

Negated(e, not) == IF not THEN Expr("not", 0, <<e>>, "bool") ELSE e

(* An INT64 and FLOAT64 mix casts all three operands together. *)
buildBetween(child, lo0, hi0, not) ==
  LET promoted(lo, hi) == IF "float" \in {child.t, lo.t, hi.t}
                            THEN <<castToFloat(child), castToFloat(lo), castToFloat(hi)>>
                            ELSE <<child, lo, hi>>
      checked(K) ==
        IF comparableOperands(K[1], K[2]) = <<>> \/ comparableOperands(K[1], K[3]) = <<>>
          THEN BadExpr
        ELSE Negated(Expr("between", 0, K, "bool"), not)
  IN checked(promoted(coerceOneSide(child, lo0), coerceOneSide(child, hi0)))

buildIn(child, items, not) ==
  LET values(vs) == LET list == SelectSeq(vs, LAMBDA x : x.is = "value")
                    IN [i \in DOMAIN list |-> list[i].v]
      typed(vs) ==
        IF \E i \in DOMAIN vs : vs[i].is = "error" THEN BadExpr
        ELSE Negated(Expr("in", [list    |-> values(vs),
                                 hasNull |-> \E i \in DOMAIN vs : vs[i].is = "null"],
                          <<child>>, "bool"), not)
  IN typed([i \in DOMAIN items |-> inListValue(items[i], child.t)])

buildLike(child, pattern, not) ==
  IF child.t # "string" \/ pattern.k # "str" THEN BadExpr
  ELSE Negated(Expr("like", pattern.a, <<child>>, "bool"), not)

(* The type is the first result's; every other result must have it too. *)
buildCase(K, hasElse) ==
  LET whens == (IF hasElse THEN Len(K) - 1 ELSE Len(K)) \div 2
      t     == K[2].t
  IN IF \/ \E j \in 1..whens : K[2*j - 1].t # "bool" \/ K[2*j].t # t
        \/ hasElse /\ K[Len(K)].t # t
       THEN BadExpr
     ELSE Expr("case", hasElse, K, t)

(* A string column against a string literal goes through the dictionary. *)
buildStringEq(op, l, r) ==
  LET col == IF l.k = "ref" THEN l ELSE r
      lit == IF l.k = "ref" THEN r ELSE l
  IN Expr("streq", [idx |-> col.a, literal |-> lit.a, negate |-> op = "<>"], <<>>, "bool")

(* Comparisons are type-checked here; arithmetic only promotes INT64 beside FLOAT64. *)
buildBinExpr(op, l0, r0) ==
  LET compare(l, r) ==
        LET C == comparableOperands(l, r) IN
        IF op \in {"=", "<>"} /\ {<<l.k, l.t>>, <<r.k, r.t>>}
                                   = {<<"ref", "string">>, <<"lit", "string">>}
          THEN buildStringEq(op, l, r)
        ELSE IF C = <<>> THEN BadExpr ELSE Expr("bin", op, C, "bool")
      compute(l, r) ==
        LET float == "float" \in {l.t, r.t}
            cast(e) == IF float /\ e.t = "int" THEN Expr("cast", 0, <<e>>, "float") ELSE e
        IN Expr("bin", op, <<cast(l), cast(r)>>, IF float THEN "float" ELSE l.t)
      coerced(P) == IF op \in Comparisons THEN compare(P[1], P[2]) ELSE compute(P[1], P[2])
  IN CASE op = "AND" -> Expr("and", 0, <<l0, r0>>, "bool")
       [] op = "OR"  -> Expr("or", 0, <<l0, r0>>, "bool")
       [] OTHER      -> coerced(coercePair(l0, r0))

RECURSIVE buildExecExpr(_, _)
buildExecExpr(e, schema) ==
  LET build(n) == [i \in 1..n |-> buildExecExpr(e.kids[i], schema)]
      K   == build(IF e.k \in {"in", "like"} THEN 1 ELSE Len(e.kids))
      idx == IndexOf(schema, e.a)
  IN IF \E i \in DOMAIN K : IsBad(K[i]) THEN BadExpr
     ELSE CASE e.k = "col"     -> IF idx = 0 THEN BadExpr
                                  ELSE Expr("ref", idx, <<>>, schema[idx].t)
            [] e.k = "int"     -> Lit(e.a, "int")
            [] e.k = "float"   -> Lit(e.a, "float")
            [] e.k = "str"     -> Lit(e.a, "string")
            [] e.k = "bool"    -> Lit(e.a, "bool")
            [] e.k = "bin"     -> buildBinExpr(e.a, K[1], K[2])
            [] e.k = "un"      -> buildUnary(e.a, K[1])
            [] e.k = "isnull"  -> Expr(IF e.a THEN "notnull" ELSE "isnull", 0, K, "bool")
            [] e.k = "between" -> buildBetween(K[1], K[2], K[3], e.a)
            [] e.k = "in"      -> buildIn(K[1], Tail(e.kids), e.a)
            [] e.k = "like"    -> buildLike(K[1], e.kids[2], e.a)
            [] e.k = "case"    -> buildCase(K, e.a)
            [] OTHER           -> BadExpr

(***************************************************************************)
(* Zone maps.  The writer folds the non-NULL values of a column into its   *)
(* minimum and maximum in row order: a NaN that comes first stays, a later *)
(* one is ignored.                                                         *)
(***************************************************************************)
ZoneLess(t, x, y) == IF t = "float" THEN FloatLess(x, y) ELSE x < y

zoneStats(rows, c, t) ==
  LET vals == SelectSeq([i \in DOMAIN rows |-> rows[i][c]], LAMBDA x : x # Null)
      step(z, v) == [z EXCEPT !.min = IF ZoneLess(t, v, @) THEN v ELSE @,
                              !.max = IF ZoneLess(t, @, v) THEN v ELSE @]
  IN IF vals = <<>> THEN [has |-> FALSE]
     ELSE FoldLeft(step, [has |-> TRUE, min |-> Head(vals), max |-> Head(vals)], Tail(vals))

\* Mutant: literal < column is read as column < literal.
FlipNothing(op) == op

FlipOp(op) == CASE op = "<" -> ">" [] op = "<=" -> ">=" [] op = ">" -> "<" [] op = ">=" -> "<="
                [] OTHER -> op

zoneDateLiteral(lit) ==
  CASE lit.k = "int" /\ exactDateDays(lit.a) -> lit.a
    [] lit.k = "str" /\ parsesAsDate(lit.a) -> DateOf[lit.a]
    [] OTHER -> Null

(* Whether some value between the bounds can stand in the comparison with  *)
(* v, in the order of type t.                                              *)
mayMatch(op, z, v, t) ==
  CASE op = "="  -> ~ZoneLess(t, v, z.min) /\ ~ZoneLess(t, z.max, v)
    [] op = "<"  -> ZoneLess(t, z.min, v)
    [] op = "<=" -> ~ZoneLess(t, v, z.min)
    [] op = ">"  -> ZoneLess(t, v, z.max)
    [] op = ">=" -> ~ZoneLess(t, z.max, v)

zoneInt64(op, z, lit) ==
  CASE lit.k = "int" -> mayMatch(op, z, lit.a, "int")
    [] lit.k = "float" ->
         \/ lit.a = NaN \/ ~exactFloat(z.min) \/ ~exactFloat(z.max)
         \/ mayMatch(op, [min |-> FloatOf(z.min), max |-> FloatOf(z.max)], lit.a, "float")
    [] OTHER -> TRUE

zoneFloat64(op, z, lit) ==
  LET v == IF lit.k = "int" THEN FloatOf(lit.a) ELSE lit.a IN
  \/ lit.k \notin {"int", "float"}
  \/ NaN \in {v, z.min, z.max}
  \/ mayMatch(op, z, v, "float")

zoneDate(op, z, lit) ==
  LET v == zoneDateLiteral(lit) IN v = Null \/ mayMatch(op, z, v, "date")

(* rows are the row group's; only their bounds are looked at. *)
zoneRangePred(op0, l, r, schema, rows) ==
  LET col == IF l.k = "col" THEN l ELSE r
      lit == foldConstant(IF l.k = "col" THEN r ELSE l)
      op  == IF l.k = "col" THEN op0 ELSE FlipOp(op0)
      c   == IndexOf(schema, col.a)
      t   == schema[c].t
      z   == zoneStats(rows, c, t)
  IN \/ col.k # "col"
     \/ c = 0
     \/ t \notin {"int", "float", "date"}
     \/ ~z.has
     \/ op = "<>"
     \/ CASE t = "int"   -> zoneInt64(op, z, lit)
          [] t = "float" -> zoneFloat64(op, z, lit)
          [] t = "date"  -> zoneDate(op, z, lit)

(* TRUE unless the bounds prove that no row of the group satisfies e. *)
RECURSIVE zonePredEval(_, _, _)
zonePredEval(e, schema, rows) ==
  LET side(i) == zonePredEval(e.kids[i], schema, rows) IN
  CASE e.k = "bin" /\ e.a = "AND" -> side(1) /\ side(2)
    [] e.k = "bin" /\ e.a = "OR"  -> side(1) \/ side(2)
    [] e.k = "bin" /\ e.a \in Comparisons ->
         zoneRangePred(e.a, e.kids[1], e.kids[2], schema, rows)
    [] e.k = "between" /\ ~e.a ->
         /\ zoneRangePred(">=", e.kids[1], e.kids[2], schema, rows)
         /\ zoneRangePred("<=", e.kids[1], e.kids[3], schema, rows)
    [] OTHER -> TRUE
=============================================================================
