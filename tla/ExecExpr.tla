------------------------------- MODULE ExecExpr -------------------------------
(***************************************************************************)
(* exec/expr.go: the vectorized evaluator.  An expression node is          *)
(* [k, a, kids, t] with t the type the planner gave it; a vector is        *)
(* [t, v, dict] with t the Go type it really has, v its rows (Null where   *)
(* the null bitmap is clear) and dict the strings its dictionary holds,    *)
(* Null when it has none.  A StringVector's codes are read through its     *)
(* dictionary, so a row holds the string.  A batch is [vecs, n, sel]: sel  *)
(* is Null or the physical rows that are selected, and n is Batch.Length.  *)
(*                                                                         *)
(* Expressions are evaluated over every physical row.  The scratch vectors *)
(* an expression reuses are not modelled: each is rewritten before it is   *)
(* read again.  Failed is an error, or a failed type assertion.            *)
(***************************************************************************)
EXTENDS SqlAst

Expr(k, a, kids, t) == [k |-> k, a |-> a, kids |-> kids, t |-> t]
Vec(t, v, dict)     == [t |-> t, v |-> v, dict |-> dict]
Failed              == Vec("failed", <<>>, Null)

physicalLen(b) == Len(b.vecs[1].v)
evalLen(b) == IF b.sel = Null THEN b.n ELSE physicalLen(b)
(* The physical rows an operator visits. *)
batchRows(b) == IF b.sel = Null THEN [i \in 1..b.n |-> i] ELSE b.sel

BoolVec(v) == Vec("bool", v, Null)
BothValid(l, r, i) == l.v[i] # Null /\ r.v[i] # Null

cmpInt64(op, a, b) ==
  CASE op = "="  -> a = b  [] op = "<>" -> a # b
    [] op = "<"  -> a < b  [] op = "<=" -> a <= b
    [] op = ">"  -> a > b  [] op = ">=" -> a >= b
cmpInt32(op, a, b) == cmpInt64(op, a, b)
cmpFloat64(op, a, b) ==
  CASE op = "="  -> FloatEqual(a, b)
    [] op = "<>" -> ~FloatEqual(a, b)
    [] op = "<"  -> FloatLess(a, b)
    [] op = "<=" -> FloatLess(a, b) \/ FloatEqual(a, b)
    [] op = ">"  -> FloatLess(b, a)
    [] op = ">=" -> FloatLess(b, a) \/ FloatEqual(a, b)

evalCmpInt64(op, l, r) ==
  [i \in DOMAIN l.v |-> IF BothValid(l, r, i) THEN cmpInt64(op, l.v[i], r.v[i]) ELSE Null]
evalCmpFloat64(op, l, r) ==
  [i \in DOMAIN l.v |-> IF BothValid(l, r, i) THEN cmpFloat64(op, l.v[i], r.v[i]) ELSE Null]
evalCmpDate(op, l, r) ==
  [i \in DOMAIN l.v |-> IF BothValid(l, r, i) THEN cmpInt32(op, l.v[i], r.v[i]) ELSE Null]

evalCmp(op, l, r) ==
  IF l.t # r.t THEN Failed
  ELSE CASE l.t = "int"   -> BoolVec(evalCmpInt64(op, l, r))
         [] l.t = "float" -> BoolVec(evalCmpFloat64(op, l, r))
         [] l.t = "date"  -> BoolVec(evalCmpDate(op, l, r))
         [] OTHER         -> Failed

applyArithInt64(op, a, b) ==
  CASE op = "+" -> a + b [] op = "-" -> a - b
    [] op = "*" -> a * b [] op = "/" -> TruncDiv(a, b)
applyArithFloat64(op, a, b) ==
  CASE op = "+" -> FloatAdd(a, b) [] op = "-" -> FloatAdd(a, FloatNeg(b))
    [] op = "*" -> FloatMul(a, b) [] op = "/" -> FloatDiv(a, b)

(* Division by zero is NULL, like an operand that is. *)
evalArith(op, l, r) ==
  LET zero == IF l.t = "int" THEN 0 ELSE <<0, 1>>
      row(i) == IF ~BothValid(l, r, i) \/ (op = "/" /\ r.v[i] = zero) THEN Null
                ELSE IF l.t = "int" THEN applyArithInt64(op, l.v[i], r.v[i])
                ELSE applyArithFloat64(op, l.v[i], r.v[i])
  IN IF l.t \notin {"int", "float"} \/ r.t # l.t THEN Failed
     ELSE Vec(l.t, [i \in DOMAIN l.v |-> row(i)], Null)

EvalBinOp(op, l, r) == IF op \in Comparisons THEN evalCmp(op, l, r) ELSE evalArith(op, l, r)

\* Mutant: NULL AND x is FALSE.
EvalAndTwoValued(l, r) == IF l.t # "bool" \/ r.t # "bool" THEN Failed
                          ELSE BoolVec([i \in DOMAIN l.v |-> l.v[i] = TRUE /\ r.v[i] = TRUE])

EvalAnd(l, r) == IF l.t # "bool" \/ r.t # "bool" THEN Failed
                 ELSE BoolVec([i \in DOMAIN l.v |-> And3(l.v[i], r.v[i])])
EvalOr(l, r)  == IF l.t # "bool" \/ r.t # "bool" THEN Failed
                 ELSE BoolVec([i \in DOMAIN l.v |-> Or3(l.v[i], r.v[i])])
EvalNot(c)    == IF c.t # "bool" THEN Failed
                 ELSE BoolVec([i \in DOMAIN c.v |-> Not3(c.v[i])])
EvalIsNull(c)    == BoolVec([i \in DOMAIN c.v |-> c.v[i] = Null])
EvalIsNotNull(c) == BoolVec([i \in DOMAIN c.v |-> c.v[i] # Null])

(* CastIntToFloatExpr *)
EvalCast(c) ==
  IF c.t # "int" THEN Failed
  ELSE Vec("float", [i \in DOMAIN c.v |-> IF c.v[i] = Null THEN Null ELSE FloatOf(c.v[i])], Null)

(* The list was typed for the operand's declared type; a vector of another *)
(* type matches none of its values.                                        *)
EvalIn(c, declared, list, hasNull) ==
  LET equal(x, y) == IF c.t = "float" THEN FloatEqual(x, y) ELSE x = y
      found(x) == c.t = declared /\ \E j \in DOMAIN list : equal(x, list[j])
      row(x) == CASE x = Null -> Null
                  [] x # Null /\ found(x) -> TRUE
                  [] OTHER -> IF hasNull THEN Null ELSE FALSE
  IN BoolVec([i \in DOMAIN c.v |-> row(c.v[i])])

RECURSIVE likeMatchRec(_, _)
likeMatchRec(p, s) ==
  CASE p = <<>> -> s = <<>>
    [] p # <<>> /\ p[1] = Percent ->
         Len(p) = 1 \/ \E i \in 1..(Len(s) + 1) : likeMatchRec(Tail(p), SubSeq(s, i, Len(s)))
    [] OTHER -> /\ s # <<>>
                /\ p[1] = Underscore \/ p[1] = s[1]
                /\ likeMatchRec(Tail(p), Tail(s))

EvalLike(c, pattern) ==
  IF c.t # "string" THEN Failed
  ELSE BoolVec([i \in DOMAIN c.v |->
                  IF c.v[i] = Null THEN Null ELSE likeMatchRec(pattern, c.v[i])])

(* (child >= lo) AND (child <= hi) *)
EvalBetween(c, lo, hi) ==
  LET ge == EvalBinOp(">=", c, lo)
      le == EvalBinOp("<=", c, hi)
  IN EvalAnd(ge, le)

(* col = literal, or col <> literal, through the dictionary.  A literal    *)
(* the dictionary lacks decides the whole vector without its null bitmap.  *)
EvalStringEq(col, literal, negate) ==
  LET all(x) == BoolVec([i \in DOMAIN col.v |-> x]) IN
  CASE col.t # "string" -> Failed
    [] col.t = "string" /\ col.dict = Null -> all(Null)
    [] col.t = "string" /\ col.dict # Null /\ literal \notin col.dict ->
         IF negate THEN all(TRUE) ELSE all(Null)
    [] OTHER -> BoolVec([i \in DOMAIN col.v |->
                  IF col.v[i] = Null THEN Null ELSE (col.v[i] = literal) # negate])

nullVector(t, n) == Vec(t, [i \in 1..n |-> Null], Null)

dictUnion(d1, d2) == (IF d1 = Null THEN {} ELSE d1) \union (IF d2 = Null THEN {} ELSE d2)

(* val where cond is true, base elsewhere. *)
mergeVectors(cond, val, base) ==
  IF cond.t # "bool" \/ val.t # base.t THEN Failed
  ELSE Vec(base.t, [i \in DOMAIN base.v |-> IF cond.v[i] = TRUE THEN val.v[i] ELSE base.v[i]],
           IF base.t = "string" THEN dictUnion(base.dict, val.dict) ELSE Null)

(* K: the vectors of cond, result, cond, result, ... and of ELSE. *)
EvalCase(K, hasElse, t, n) ==
  LET whens == (IF hasElse THEN Len(K) - 1 ELSE Len(K)) \div 2
      base  == IF hasElse THEN K[Len(K)] ELSE nullVector(t, n)
  IN FoldRight(LAMBDA j, acc : IF acc.t = "failed" THEN acc
                               ELSE mergeVectors(K[2*j - 1], K[2*j], acc),
               [j \in 1..whens |-> j], base)

EvalLiteral(val, t, n) ==
  Vec(t, [i \in 1..n |-> val], IF t = "string" THEN {val} ELSE Null)

RECURSIVE Eval(_, _)
Eval(e, b) ==
  LET K == [i \in DOMAIN e.kids |-> Eval(e.kids[i], b)] IN
  IF \E i \in DOMAIN K : K[i].t = "failed" THEN Failed
  ELSE CASE e.k = "ref"     -> b.vecs[e.a]
         [] e.k = "lit"     -> EvalLiteral(e.a, e.t, evalLen(b))
         [] e.k = "cast"    -> EvalCast(K[1])
         [] e.k = "bin"     -> EvalBinOp(e.a, K[1], K[2])
         [] e.k = "and"     -> EvalAnd(K[1], K[2])
         [] e.k = "or"      -> EvalOr(K[1], K[2])
         [] e.k = "not"     -> EvalNot(K[1])
         [] e.k = "isnull"  -> EvalIsNull(K[1])
         [] e.k = "notnull" -> EvalIsNotNull(K[1])
         [] e.k = "in"      -> EvalIn(K[1], e.kids[1].t, e.a.list, e.a.hasNull)
         [] e.k = "like"    -> EvalLike(K[1], e.a)
         [] e.k = "between" -> EvalBetween(K[1], K[2], K[3])
         [] e.k = "streq"   -> EvalStringEq(b.vecs[e.a.idx], e.a.literal, e.a.negate)
         [] e.k = "case"    -> EvalCase(K, e.a, e.t, evalLen(b))

(* The physical rows a filter keeps: those where the predicate is TRUE. *)
BoolToSelVecInto(b, bv) == SelectSeq(batchRows(b), LAMBDA i : bv.v[i] = TRUE)
=============================================================================
