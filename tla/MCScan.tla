-------------------------------- MODULE MCScan --------------------------------
(***************************************************************************)
(* Instances of Scan: which lambdas, clauses, rows and walks TLC tries.    *)
(***************************************************************************)
EXTENDS LambdaMeaning, FiniteSets

-----------------------------------------------------------------------------
(* Numbers of lambdas: fractions <<n, d>> that cannot be reduced.          *)
Typed(kind, n) == [kind |-> kind, val |-> <<n, 1>>]
Fraction(n, d) ==
  LET sign == IF d < 0 THEN -1 ELSE 1
      common == Max({k \in 1 .. sign * d : n % k = 0 /\ (sign * d) % k = 0})
  IN <<(sign * n) \div common, (sign * d) \div common>>
MCZero == <<0, 1>>
MCClock == <<9, 2>>
MCArith(op, l, r) ==
  LET a == l.val[1]  b == l.val[2]  c == r.val[1]  d == r.val[2] IN
  CASE op = "ADD" -> Fraction(a * d + c * b, b * d)
    [] op = "SUBTRACT" -> Fraction(a * d - c * b, b * d)
    [] op = "MULTIPLY" -> Fraction(a * c, b * d)
    [] op = "DIVIDE" -> Fraction(a * d, b * c)

(* Sources of lambdas.                                                     *)
Lit(v) == [ex |-> "lit", v |-> v]
Var(name) == [ex |-> "var", name |-> name]
Bin(l, op, r) == [ex |-> "bin", l |-> l, op |-> op, r |-> r]
CallOf(fn, args) == [ex |-> "call", fn |-> fn, args |-> args]
Let(name, e) == [st |-> "let", name |-> name, e |-> e]
Assign(name, e) == [st |-> "assign", name |-> name, e |-> e]
Expr(e) == [st |-> "expr", e |-> e]
ReturnOf(e) == [st |-> "return", e |-> e]
InBlock(body) == <<[st |-> "open"]>> \o body \o <<[st |-> "close"]>>

Whole(n) == Lit(Typed("int", n))
One == Whole(1)
Sum == Bin(Bin(One, "+", Whole(2)), "*", Whole(2))
Wrong == Bin(One, "-", Lit(Str("s")))
Joined == Bin(Lit(Str("x")), "+", Lit(Str("y")))
Quotient == Bin(One, "/", Whole(0))
Reciprocal == Bin(One, "/", Bin(One, "/", Whole(2)))
Inner == [ex |-> "lambda"]
Calls == <<CallOf("console.info", <<Var("a")>>), CallOf("console.info", <<Var("b"), Var("a")>>),
           CallOf("clock", <<>>), CallOf("f", <<Whole(4)>>)>>
Pool == {<<s>> : s \in
          {Let("a", One), Let("b", Sum), Let("a", Inner), Let("b", Wrong), [st |-> "decl", name |-> "a"],
           Assign("a", Whole(5)), Expr(Calls[1]), Expr(Calls[2]), Expr(Calls[3]), Expr(Calls[4]), Expr(Wrong)}}
        \cup {InBlock(<<Let("a", Whole(2)), Expr(Calls[1])>>)}
Ends == {<<ReturnOf(Joined)>>, <<ReturnOf(Quotient)>>}
Short == Ends \cup Pool \cup {s \o r : s \in Pool, r \in Ends}
Long == {s \o t \o r : s \in Pool, t \in Pool, r \in Ends}
Longest == {<<Let("a", One), Let("b", Sum)>> \o s \o <<ReturnOf(Sum)>> : s \in Pool}
           \cup {<<Let("b", One)>> \o InBlock(<<Let("a", Sum), Assign("b", Sum)>> \o s) \o t \o <<ReturnOf(Sum)>> :
                   s \in Pool, t \in Pool}
(* Each operation on numbers of each two types, assigned and returned; 3   *)
(* stands for a number that has the type.                                  *)
OfType == {Lit(Typed(kind, 3)) : kind \in LiteralKinds \ {"str"}}
Operations == {Bin(l, op, x) : l \in OfType, op \in {"+", "-", "*", "/"}, x \in OfType} \cup {Reciprocal}
Arithmetic == {<<Let("a", e), ReturnOf(One)>> : e \in Operations} \cup {<<ReturnOf(e)>> : e \in Operations}
LaterBodies == {<<Let("a", Sum), Expr(Calls[1]), ReturnOf(One)>>, <<Expr(Wrong), ReturnOf(One)>>}

(* The expressions of these, with their parts and depths.                  *)
RECURSIVE DepthOf(_)
DepthOf(e) == IF e.ex = "bin" THEN 1 + Max({DepthOf(e.l), DepthOf(e.r)}) ELSE 0
MCTrees ==
  {One, Whole(2), Whole(5), Lit(Str("s")), Lit(Str("x")), Lit(Str("y")), Whole(0), Sum, Sum.l,
   Wrong, Joined, Quotient, Inner, Reciprocal.r} \cup ToSet(Calls) \cup OfType \cup Operations
MCDepth == [e \in MCTrees |-> DepthOf(e)]

-----------------------------------------------------------------------------
(* Clauses: conditions that all must hold and alternatives.  A number in   *)
(* them is always a double.                                                *)
Num(n) == [kind |-> "num", val |-> n]
IdIs(key) == [op |-> "id", attr |-> "", lit |-> Str(key)]
Near(attr, op, vec, n) == [op |-> "near", attr |-> attr, by |-> op, vec |-> vec, lit |-> Num(n)]
OfLambda(attr) == Compare(attr, "lt", [kind |-> "lambda"])
Star == [kind |-> "star"]

Clause(ands, ors, order, body) ==
  [kind |-> "vertex", ands |-> ands, ors |-> ors, source |-> body, tokens |-> TokensIn(order, ands, ors),
   script |-> IF body = <<>> THEN NoScript ELSE Lambda(body)]
OneOf(attr, lits, ands) ==
  Clause(ands, [i \in DOMAIN lits |-> Compare(attr, "eq", lits[i])], "one of", <<>>)

Conds == {Compare("c", "lt", Num(3)), Compare("c", "gt", Num(1)), Compare("c", "gte", Num(3)),
          Compare("c", "lte", Num(1)), Compare("n", "eq", Str("x")), Compare("n", "any", Star),
          IdIs("v2"), Near("p", "lte", 1, 1), OfLambda("c")}
UpTo2(S) == {<<>>} \cup {<<a>> : a \in S} \cup {<<a, b>> : a \in S, b \in S}
Clauses ==
  {Clause(ands, ors, order, <<>>) :
     ands \in UpTo2(Conds), ors \in {<<>>} \cup {<<a>> : a \in Conds}, order \in {"ors first", "ors last"}}
  \cup {Clause(<<a>>, <<b, c>>, "ors first", <<>>) : a \in Conds, b \in Conds, c \in Conds}
  \cup {OneOf("c", lits, ands) : lits \in {<<Num(1), Num(3)>>, <<Num(3), Num(1)>>, <<Str("z")>>},
                                 ands \in UpTo2(Conds \ {OfLambda("c")})}
Scripted(body) == Clause(<<IdIs("v2"), OfLambda("c")>>, <<>>, "ors last", body)

MCVertices ==
  <<[key |-> "v1", attrs |-> [c |-> Num(1), n |-> Str("x"), p |-> [kind |-> "vec", val |-> 0]]],
    [key |-> "v2", attrs |-> [c |-> Num(3), n |-> Str("y")]],
    [key |-> "v3", attrs |-> [c |-> Str("z"), p |-> [kind |-> "vec", val |-> 3]]]>>

-----------------------------------------------------------------------------
(* Walks of one edge or two, and the rows of an edge group.                *)
EndOf(v) == [type |-> "str", v |-> v]
Texts == {<<"*">>, <<"a">>, <<"b", "a">>, <<"0">>, <<"1">>}
Walks ==
  {[kind |-> "edge", script |-> NoScript, source |-> <<>>, dir |-> d, left |-> x, right |-> y,
    tokens |-> OneEdge(x, d, y)] : x \in Texts, y \in Texts, d \in Arrows}
  \cup {[kind |-> "edge", script |-> NoScript, source |-> <<>>, dir |-> "none", left |-> x, right |-> x,
         tokens |-> TwoEdges(x, d, <<"a">>, "--", x)] : x \in Texts, d \in Arrows}
Starts == <<EndOf(<<"a">>), EndOf(<<"b", "a">>), EndOf(<<"b", "a", "b", "a">>), IntEnd("1")>>
Targets == <<EndOf(<<"a">>), EndOf(<<"b", "a", "b">>), IntEnd("0"), IntEnd("1")>>
MCEdgeRows ==
  [i \in 1 .. 32 |-> [directed |-> i > 16, from |-> Starts[1 + (i % 4)], to |-> Targets[1 + ((i \div 4) % 4)]]]

MCFirst == Clauses \cup Walks \cup {Scripted(b) : b \in Short \cup Long \cup Longest \cup Arithmetic}
MCLater == {Scripted(b) : b \in LaterBodies} \cup {Clause(<<Compare("c", "lt", Num(3))>>, <<>>, "ors last", <<>>)}
RECURSIVE ChunksIn(_)
ChunksIn(c) == {c} \cup UNION {ChunksIn(c.values[i].val) : i \in {j \in DOMAIN c.values : c.values[j].kind = "fn"}}
MCChunks == UNION {ChunksIn(q.script.chunk) : q \in MCFirst \cup MCLater}
=============================================================================
