-------------------------------- MODULE SqlAst --------------------------------
(***************************************************************************)
(* Expressions of the SQL AST (sql/ast.go), their rendering as text        *)
(* (sql/format.go) and the planner's walk over them (planner/exprwalk.go). *)
(*                                                                         *)
(* A node is [k, a, kids]: its kind, what the node itself holds, and its   *)
(* children in the order walkExpr visits them.  A column name is a         *)
(* sequence, <<column>> or <<table, column>>, before and after the planner *)
(* resolves it, and so is any other output name.                           *)
(***************************************************************************)
EXTENDS SqlValues, SequencesExt, TLC

Node(k, a, kids) == [k |-> k, a |-> a, kids |-> kids]

Col(name)                == Node("col", name, <<>>)
Star                     == Node("star", 0, <<>>)
IntLit(n)                == Node("int", n, <<>>)
FloatLit(f)              == Node("float", f, <<>>)
StrLit(s)                == Node("str", s, <<>>)
BoolLit(b)               == Node("bool", b, <<>>)
NullLit                  == Node("null", 0, <<>>)
Bin(op, l, r)            == Node("bin", op, <<l, r>>)
Un(op, e)                == Node("un", op, <<e>>)
IsNull(e, not)           == Node("isnull", not, <<e>>)
Between(e, lo, hi, not)  == Node("between", not, <<e, lo, hi>>)
In(e, list, not)         == Node("in", not, <<e>> \o list)
Like(e, pat, not)        == Node("like", not, <<e, pat>>)
AggFunc(f, arg, distinct) == Node("agg", [f |-> f, distinct |-> distinct], <<arg>>)
(* whens is cond, result, cond, result, ...; els is <<>> or <<expression>>. *)
CaseWhen(whens, els)     == Node("case", els # <<>>, whens \o els)

(* The error a rewrite returns instead of an expression. *)
Bad == Node("bad", 0, <<>>)

Literals    == {"int", "float", "str", "bool", "null"}
Comparisons == {"=", "<>", "<", "<=", ">", ">="}

(* e and every expression inside it, parents before children. *)
RECURSIVE walkExpr(_)
walkExpr(e) == <<e>> \o FlattenSeq([i \in DOMAIN e.kids |-> walkExpr(e.kids[i])])

containsAggregate(e) ==
  LET ns == walkExpr(e) IN \E i \in DOMAIN ns : ns[i].k = "agg"

(* The columns e mentions. *)
collectCols(e) ==
  LET ns == walkExpr(e) IN {ns[i].a : i \in {j \in DOMAIN ns : ns[j].k = "col"}}

(* e rebuilt from kids, its rewritten children; an error in one of them is *)
(* the error of the whole.                                                 *)
rewriteExpr(e, kids) ==
  IF \E i \in DOMAIN kids : kids[i].k = "bad" THEN Bad ELSE [e EXCEPT !.kids = kids]

(***************************************************************************)
(* FormatExpr.  The text is a sequence of tokens.  FloatLiteral renders    *)
(* with 'g', so an integral float reads like the integer.                  *)
(***************************************************************************)
binPrec(op) ==
  CASE op = "OR" -> 1
    [] op = "AND" -> 2
    [] op \in Comparisons -> 3
    [] op \in {"+", "-"} -> 4
    [] op \in {"*", "/"} -> 5

wrapsAsOperand(e) == e.k \in {"bin", "isnull", "between", "in", "like"}

Parens(s, wrap) == IF wrap THEN <<"(">> \o s \o <<")">> ELSE s

formatLiteral(e) ==
  CASE e.k = "int"   -> <<ToString(e.a)>>
    [] e.k = "float" -> IF e.a[2] = 1 THEN <<ToString(e.a[1])>>
                        ELSE <<ToString(e.a[1]), ".", ToString(e.a[2])>>
    [] e.k = "str"   -> <<"'">> \o [i \in DOMAIN e.a |-> ToString(e.a[i])] \o <<"'">>
    [] e.k = "bool"  -> <<IF e.a THEN "TRUE" ELSE "FALSE">>
    [] e.k = "null"  -> <<"NULL">>

(* A child of a binary expression gets parentheses only when it is itself  *)
(* one and would otherwise group differently.                              *)
binOperand(text, child, parentPrec, isRight) ==
  LET p == IF child.k = "bin" THEN binPrec(child.a) ELSE 6 IN
  Parens(text, p < parentPrec \/ (isRight /\ p = parentPrec))

NotWord(not) == IF not THEN <<"NOT">> ELSE <<>>

RECURSIVE FormatExpr(_)
FormatExpr(e) ==
  LET T == [i \in DOMAIN e.kids |-> FormatExpr(e.kids[i])]
  IN CASE e.k \in Literals   -> formatLiteral(e)
       [] e.k = "col"        -> e.a
       [] e.k = "star"       -> <<"*">>
       [] e.k = "bin"        -> binOperand(T[1], e.kids[1], binPrec(e.a), FALSE)
                                  \o <<e.a>>
                                  \o binOperand(T[2], e.kids[2], binPrec(e.a), TRUE)
       [] e.k = "un"         -> <<e.a>> \o Parens(T[1], wrapsAsOperand(e.kids[1]))
       [] e.k = "isnull"     -> T[1] \o <<"IS">> \o NotWord(e.a) \o <<"NULL">>
       [] e.k = "between"    -> T[1] \o NotWord(e.a) \o <<"BETWEEN">> \o T[2]
                                  \o <<"AND">> \o T[3]
       [] e.k = "in"         -> T[1] \o NotWord(e.a) \o <<"IN", "(">>
                                  \o FlattenSeq([i \in 1..(Len(T) - 1) |-> T[i + 1] \o <<",">>])
                                  \o <<")">>
       [] e.k = "like"       -> T[1] \o NotWord(e.a) \o <<"LIKE">> \o T[2]
       [] e.k = "agg"        -> <<e.a.f, "(">> \o (IF e.a.distinct THEN <<"DISTINCT">> ELSE <<>>)
                                  \o T[1] \o <<")">>
       [] e.k = "case"       ->
            LET els == IF e.a THEN <<"ELSE">> \o T[Len(T)] ELSE <<>>
                n   == (IF e.a THEN Len(T) - 1 ELSE Len(T)) \div 2
            IN <<"CASE">> \o FlattenSeq([i \in 1..n |-> <<"WHEN">> \o T[2*i - 1]
                                                          \o <<"THEN">> \o T[2*i]])
                 \o els \o <<"END">>
=============================================================================
