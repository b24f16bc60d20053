-------------------------------- MODULE MCQuery --------------------------------
(* Query over two small tables: t, of one column of each type, and u. *)
EXTENDS Query

Field(name, t) == [name |-> <<name>>, t |-> t]
MCSchemas ==
  [t |-> <<Field("a", "int"), Field("b", "float"), Field("s", "string"), Field("f", "bool"),
           Field("d", "date"), Field("c", "int"), Field("g", "float")>>,
   u |-> <<Field("k", "int"), Field("a", "int"), Field("s", "string")>>]

X == <<1>>
XY == <<1, 2>>
Y == <<2>>
Day3 == <<7, 7>>
MCDateOf == Day3 :> 3
NoDay == <<7, 8>>

(* Rows of t: a NULL in every column; c holds 9, which is no float64, and g a NaN. *)
R1 == <<1, <<1, 2>>, X, TRUE, 3, 9, <<1, 1>>>>
R2 == <<2, Null, XY, FALSE, 4, 8, NaN>>
R3 == <<Null, <<5, 2>>, Null, Null, Null, Null, Null>>
R4 == <<3, <<4, 1>>, Y, TRUE, 3, 7, <<2, 1>>>>
R5 == <<1, <<0, 1>>, X, FALSE, 5, -9, NaN>>
R6 == <<4, <<2, 1>>, XY, Null, 4, 10, <<17, 2>>>>
U1 == <<1, 2, X>>
U2 == <<2, 1, Y>>
U3 == <<1, Null, XY>>
U4 == <<Null, 4, X>>

MCLayouts == <<
  [t |-> <<>>,                                    u |-> <<>>],
  [t |-> <<<<R1, R2, R3>>, <<R4, R6>>>>,          u |-> <<<<U1, U2>>, <<U3, U4>>>>],
  [t |-> <<<<R2, R6, R4>>, <<R3>>, <<R5, R1, R1>>>>, u |-> <<<<U1, U2, U3, U4>>>>],
  [t |-> <<<<R3, R3>>, <<R2>>>>,                  u |-> <<<<U2>>>>],
  [t |-> <<<<R6>>, <<R5>>, <<R2, R4, R3>>>>,      u |-> <<>>],
  [t |-> <<>>,                                    u |-> <<<<U4>>, <<U3, U2, U1>>>>],
  [t |-> <<<<R4, R1>>, <<R5, R2, R3, R6, R1>>>>,  u |-> <<<<U3, U1>>, <<U2>>, <<U1>>>>],
  [t |-> <<<<R5>>, <<R6, R3>>, <<R4, R4>>>>,      u |-> <<<<U3>>, <<U4, U4>>>>],
  [t |-> <<<<R1, R2, R3, R4, R5, R6>>>>,          u |-> <<<<U1, U1>>, <<U2, U3>>>>]
>>

(* A statement from its select list, FROM and WHERE; the rest by EXCEPT. *)
Stmt(cols, from, where) ==
  [cols |-> cols, from |-> from, where |-> where, group |-> <<>>, having |-> NoExpr,
   order |-> <<>>, distinct |-> FALSE, limit |-> Null, offset |-> Null]
Item(e) == [e |-> e, as |-> <<>>]
As(e, name) == [e |-> e, as |-> <<name>>]
From(name) == [name |-> name, as |-> ""]
Asc(e) == [e |-> e, desc |-> FALSE]
Desc(e) == [e |-> e, desc |-> TRUE]
T == <<From("t")>>
TU == <<From("t"), From("u")>>
A == Col(<<"a">>)
B == Col(<<"b">>)
S == Col(<<"s">>)
F == Col(<<"f">>)
D == Col(<<"d">>)
C == Col(<<"c">>)
G == Col(<<"g">>)
TA == Col(<<"t", "a">>)
TS == Col(<<"t", "s">>)
UK == Col(<<"u", "k">>)
UA == Col(<<"u", "a">>)
US == Col(<<"u", "s">>)
Int0 == IntLit(0)
Int1 == IntLit(1)
Int2 == IntLit(2)
Half(n) == FloatLit(Frac(n, 2))
All == <<Item(Star)>>
CountStar == AggFunc("COUNT", Star, FALSE)
AggOf(f, e) == AggFunc(f, e, FALSE)
Where(p) == Stmt(<<Item(A), Item(S)>>, T, p)
Both(p, q) == Bin("AND", p, q)
Not(p) == Un("NOT", p)

(* WHERE, in three-valued logic. *)
Predicates == <<
  Bin(">", A, Int1),
  Bin("OR", Bin("=", A, Int2), Bin("<=", B, Half(1))),
  Not(Bin("=", Int1, A)),
  Not(Both(Bin(">", A, Int1), Bin("<", B, Int2))),
  Between(A, Int1, Int2, FALSE),
  Between(B, Int1, Half(5), TRUE),
  In(A, <<Int1, NullLit>>, FALSE),
  In(A, <<Int1, NullLit>>, TRUE),
  In(S, <<StrLit(X), StrLit(Y)>>, TRUE),
  Like(S, StrLit(<<Percent, 2>>), FALSE),
  Like(S, StrLit(<<1, Underscore>>), TRUE),
  Bin("OR", Bin("=", S, StrLit(X)), Bin("=", A, Int2)),
  Both(IsNull(S, TRUE), Bin("<>", S, StrLit(X))),
  F,
  Bin("OR", Not(F), IsNull(F, FALSE)),
  Bin(">", B, A),
  Bin("=", D, IntLit(3)),
  Bin("<", IntLit(3), D),
  Bin(">", Bin("+", A, Int1), Bin("*", B, Int2)),
  IsNull(Bin("/", A, Int0), FALSE),
  Bin("<>", Un("-", A), CaseWhen(<<Bin(">", A, Int1), Un("-", Int2)>>, <<Un("-", Int1)>>))
>>

(* Conditions on which floats, or dates written as strings, part the       *)
(* reference from SQL: 9 is not a float64, a NaN equals nothing.           *)
InexactPredicates == <<
  Bin("=", C, IntLit(9)),
  Bin(">", C, Half(17)),
  Bin("<=", C, FloatLit(<<8, 1>>)),
  Between(C, IntLit(9), IntLit(10), FALSE),
  Between(C, Un("-", Half(17)), IntLit(7), FALSE),
  Bin("<", G, Int2),
  Bin("<>", G, Int1),
  Not(Bin(">", G, Int1)),
  In(G, <<IntLit(9), Half(17)>>, FALSE),
  Bin("=", D, StrLit(Day3)),
  Both(Bin("<", D, IntLit(5)), Bin(">", C, G))
>>
(* Select lists, DISTINCT, ORDER BY, LIMIT and OFFSET. *)
Selects == <<
  Stmt(All, T, NoExpr),
  Stmt(<<As(Bin("*", A, B), "p"), As(Bin("+", A, A), "q"), Item(A)>>, T, IsNull(A, TRUE)),
  Stmt(<<As(CaseWhen(<<Bin(">", A, Int1), B, Bin("=", S, StrLit(X)), Half(1)>>, <<>>), "v"),
         As(CaseWhen(<<F, S>>, <<StrLit(Y)>>), "w")>>, T, NoExpr),
  [Stmt(<<Item(S)>>, T, NoExpr) EXCEPT !.distinct = TRUE],
  [Stmt(<<Item(A), Item(F)>>, T, NoExpr) EXCEPT !.distinct = TRUE, !.order = <<Desc(F), Asc(A)>>],
  [Stmt(<<Item(A), Item(S)>>, T, NoExpr) EXCEPT !.order = <<Desc(A), Asc(S)>>, !.limit = 2, !.offset = 1],
  [Stmt(<<As(S, "z"), Item(A)>>, T, NoExpr) EXCEPT !.order = <<Asc(Col(<<"z">>)), Desc(Int2)>>],
  [Stmt(<<Item(S)>>, T, NoExpr) EXCEPT !.order = <<Asc(B), Desc(A)>>],
  [Stmt(<<Item(S)>>, T, NoExpr) EXCEPT !.limit = 3, !.offset = 2],
  [Stmt(<<Item(A)>>, T, Bin(">", A, Int1)) EXCEPT !.limit = 0],
  [Stmt(<<Item(A)>>, T, NoExpr) EXCEPT !.offset = 4]
>>

Aggregates == <<
  Stmt(<<Item(CountStar), Item(AggOf("COUNT", A)), Item(AggOf("SUM", A)), Item(AggOf("AVG", B)),
         Item(AggOf("MIN", S)), Item(AggOf("MAX", B))>>, T, NoExpr),
  Stmt(<<Item(AggFunc("COUNT", S, TRUE)), Item(AggOf("SUM", B))>>, T, Bin("<", A, IntLit(4))),
  Stmt(<<As(Bin("+", AggOf("SUM", A), CountStar), "n")>>, T, Bin(">", A, IntLit(7))),
  [Stmt(<<Item(S), As(CountStar, "n")>>, T, NoExpr) EXCEPT !.group = <<S>>,
     !.having = Bin(">", CountStar, Int1)],
  [Stmt(<<As(AggOf("SUM", Bin("*", A, Int2)), "n"), Item(F)>>, T, Bin("<=", A, IntLit(3))) EXCEPT
     !.group = <<F>>, !.order = <<Desc(Col(<<"n">>))>>, !.limit = 2],
  [Stmt(<<Item(A), Item(S), As(AggOf("MAX", D), "n")>>, T, NoExpr) EXCEPT !.group = <<S, A>>,
     !.order = <<Asc(AggOf("MIN", B))>>],
  [Stmt(<<As(CountStar, "n")>>, T, NoExpr) EXCEPT !.group = <<S>>, !.distinct = TRUE],
  [Stmt(<<Item(S), As(AggOf("MIN", A), "n")>>, T, NoExpr) EXCEPT !.group = <<S>>, !.limit = 1],
  [Stmt(<<As(CaseWhen(<<F, CountStar>>, <<Int0>>), "n")>>, T, NoExpr)
     EXCEPT !.group = <<F>>]
>>

OnKey == Bin("=", TA, UK)
Joins == <<
  Stmt(<<Item(TA), Item(US)>>, TU, OnKey),
  Stmt(<<Item(Star)>>, TU, Both(Bin("<", B, IntLit(4)), OnKey)),
  Stmt(<<Item(TS), Item(UA)>>, TU, Both(Both(Bin(">", TA, Int0), OnKey), Bin("<", B, UA))),
  Stmt(<<Item(CountStar), Item(AggFunc("COUNT", US, TRUE))>>, TU, Both(Bin("<", TA, Int2), OnKey)),
  Stmt(<<Item(Col(<<"x", "s">>)), Item(Col(<<"y", "b">>)), Item(US)>>,
       <<[name |-> "t", as |-> "x"], From("u"), [name |-> "t", as |-> "y"]>>,
       Both(Bin("=", UK, Col(<<"x", "a">>)), Bin("=", Col(<<"y", "a">>), UA))),
  Stmt(<<Item(CountStar), Item(AggOf("SUM", TA))>>, TU, Both(OnKey, Bin(">", UA, Int1))),
  [Stmt(<<Item(US), As(AggOf("SUM", Bin("+", TA, UA)), "n")>>, TU,
        Both(OnKey, Bin("<=", B, UA))) EXCEPT !.group = <<US>>, !.order = <<Asc(US)>>],
  [Stmt(<<Item(Col(<<"y", "s">>)), As(CountStar, "n")>>,
        <<From("u"), [name |-> "u", as |-> "y"], From("t")>>,
        Both(Bin("=", Col(<<"u", "a">>), Col(<<"y", "k">>)), Bin("=", TA, Col(<<"y", "k">>))))
     EXCEPT !.group = <<Col(<<"y", "s">>)>>]
>>

(* A condition on a BOOL column that went through a join: ResultIsReference fails. *)
JoinedBoolStatements == <<Stmt(<<Item(TA)>>, TU, Both(OnKey, Bin("OR", F, Bin("=", UA, Int1))))>>

(* Statements that have no plan.  Those whose refusal leaves a file open   *)
(* are ReaderStatements.                                                   *)
Invalid == <<
  Where(Bin("=", S, Int1)),
  Where(Bin("<", F, BoolLit(TRUE))),
  Where(Bin("=", Col(<<"q">>), Int1)),
  Stmt(<<Item(A)>>, TU, OnKey),
  Stmt(<<Item(TA)>>, TU, Bin(">", TA, UK)),
  Stmt(<<Item(TS), Item(UA)>>, TU, Both(OnKey, Bin("=", TS, US))),
  Stmt(<<Item(AggOf("SUM", S))>>, T, NoExpr),
  Stmt(<<Item(AggOf("SUM", AggOf("MIN", A)))>>, T, NoExpr),
  Where(Bin("=", D, StrLit(NoDay))),
  [Stmt(<<Item(A), Item(CountStar)>>, T, NoExpr) EXCEPT !.group = <<S>>]
>>

WhereAll(ps) == [i \in DOMAIN ps |-> Where(ps[i])]
Settled == WhereAll(Predicates) \o Selects \o Aggregates \o Joins
MCStatements == Settled \o WhereAll(InexactPredicates) \o Invalid
MCUnsettled == (Len(Settled) + 1)..(Len(Settled) + Len(InexactPredicates))
MCRejected == (Len(Settled) + Len(InexactPredicates) + 1)..Len(MCStatements)
(* A literal the dictionary lacks, under <> and NOT. *)
NoSuch == StrLit(<<3>>)
DictStatements == <<Where(Bin("<>", S, NoSuch)), Where(Not(Bin("=", S, NoSuch)))>>
(* An INT64 column over the float literal 2.0: ResultIsReference fails. *)
DivideStatements == <<Stmt(<<Item(A), As(Bin("/", A, FloatLit(<<2, 1>>)), "h")>>, T, NoExpr)>>
(* BETWEEN with an integer no float64 holds and a bound that is not one:   *)
(* PruningKeepsRows fails.                                                 *)
BoundStatements == <<Where(Between(C, IntLit(9), Half(19), FALSE))>>
None == {}
(* Refusals that leave a file open: a condition that is not BOOL, and an   *)
(* aggregate whose argument does not translate.                            *)
ReaderStatements == <<
  Where(A),
  [Stmt(<<Item(S), Item(CountStar)>>, T, NoExpr) EXCEPT !.group = <<S>>, !.having = CountStar],
  Stmt(<<Item(AggOf("SUM", CaseWhen(<<Bin("=", S, Int1), A>>, <<>>)))>>, T, NoExpr)
>>
ReaderRejected == DOMAIN ReaderStatements

MCOrders == {<<1, 2, 3>>, <<3, 1, 2>>, <<2, 3, 1>>}
=============================================================================
