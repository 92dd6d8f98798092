------------------------------ MODULE ScanMeaning ------------------------------
(***************************************************************************)
(* What a where clause and a walk mean on their own, without the lists of  *)
(* predicates and the ids the code makes of them, and that a query of Scan *)
(* answers with what it means.  A query carries what its tokens were made  *)
(* of: the conditions that all must hold and the alternatives, or the      *)
(* labels of a walk.                                                       *)
(***************************************************************************)
EXTENDS Scan

-----------------------------------------------------------------------------
(* Clauses.                                                                *)
Compare(attr, op, lit) == [op |-> op, attr |-> attr, lit |-> lit]
Comparisons == {"lt", "lte", "gt", "gte"}

TokensOf(c, before) ==
  LET name(lits) == [tok |-> "name", name |-> c.attr, lits |-> lits, list |-> FALSE] IN
  CASE c.op = "id" -> <<[tok |-> "id", key |-> c.lit.val]>>
    [] c.op \in {"eq", "any"} -> <<name(<<c.lit>>)>>
    [] c.op = "near" -> <<name(<<>>), [tok |-> "near", op |-> c.by, vec |-> c.vec, lit |-> c.lit]>>
    [] OTHER -> (IF c.attr = before THEN <<>> ELSE <<name(<<>>)>>)
                \o <<[tok |-> "cmp", op |-> c.op, lit |-> c.lit]>>
TokensOfAll(cs) ==
  FlattenSeq([i \in DOMAIN cs |-> TokensOf(cs[i], IF i = 1 THEN "" ELSE cs[i - 1].attr)])

(* The alternatives stand before the conditions or after them, or are the  *)
(* values of one attribute, name: [lit, ...].                              *)
Orders == {"ors first", "ors last", "one of"}
TokensIn(order, ands, ors) ==
  CASE order = "ors first" -> <<[tok |-> "or"]>> \o TokensOfAll(ors) \o <<[tok |-> "and"]>> \o TokensOfAll(ands)
    [] order = "ors last" -> TokensOfAll(ands) \o <<[tok |-> "or"]>> \o TokensOfAll(ors)
    [] order = "one of" -> <<[tok |-> "name", name |-> ors[1].attr, lits |-> [i \in DOMAIN ors |-> ors[i].lit],
                              list |-> TRUE]>> \o TokensOfAll(ands)

Stands(op, x, y) ==
  CASE op = "eq" -> x = y [] op = "lt" -> x < y [] op = "lte" -> x <= y
    [] op = "gt" -> x > y [] op = "gte" -> x >= y [] OTHER -> FALSE
CondHolds(c, v) ==
  \/ c.op = "id" /\ v.key = c.lit.val
  \/ /\ c.attr \in DOMAIN v.attrs
     /\ \/ c.op = "any"
        \/ c.op = "near" /\ Stands(c.by, Distance2(v.attrs[c.attr].val, c.vec), c.lit.val)
        \/ /\ v.attrs[c.attr].kind = c.lit.kind
           /\ Stands(c.op, v.attrs[c.attr].val, c.lit.val)
OtherKind(c, v) ==
  c.op \notin {"id", "any", "near"} /\ c.attr \in DOMAIN v.attrs /\ v.attrs[c.attr].kind # c.lit.kind

(* A comparison with a lambda is no condition, but its name moves the      *)
(* names of the conditions after it: only ids may follow it here.          *)
Counted(cs) == {i \in DOMAIN cs : cs[i].lit.kind # "lambda"}
Aligned(cs) ==
  \A i, j \in DOMAIN cs : cs[i].lit.kind = "lambda" /\ j > i => cs[j].op = "id"

(* Conditions that can be written: an id has no attribute, numbers are     *)
(* what is ordered, and a value is neither the text '*' nor a lambda.      *)
IsCondition(c) ==
  /\ c.op \in Comparisons \cup {"id", "eq", "any", "near"}
  /\ c.attr = "" <=> c.op = "id"
  /\ c.op \in {"id", "eq"} => c.lit.kind \notin {"star", "lambda"}
  /\ c.op = "any" => c.lit.kind = "star"
  /\ c.op \in Comparisons \cup {"near"} => c.lit.kind = "lambda" \/ (c.lit.kind = "num" /\ c.lit.val \in Int)
  /\ c.op = "near" => c.by \in Comparisons /\ c.vec \in Int
IsWhere(q) ==
  /\ q.ands \in Seq(ToSet(q.ands)) /\ q.ors \in Seq(ToSet(q.ors))
  /\ \A c \in ToSet(q.ands) \cup ToSet(q.ors) : IsCondition(c)
  /\ \E order \in Orders :
       /\ order = "one of" => q.ors # <<>> /\ \A c \in ToSet(q.ors) : c.op = "eq" /\ c.attr = q.ors[1].attr
       /\ q.tokens = TokensIn(order, q.ands, q.ors)
ASSUME WhereAssumption ==
  /\ \A q \in First \cup Later : q.kind = "vertex" => IsWhere(q)
  /\ \A i \in DOMAIN Vertices : \A a \in DOMAIN Vertices[i].attrs :
       Vertices[i].attrs[a].kind \in {"num", "vec"} => Vertices[i].attrs[a].val \in Int

Answered == {answers[i].row : i \in {j \in DOMAIN answers : answers[j].status = "yes"}}
Mismatched == {answers[i].row : i \in {j \in DOMAIN answers : answers[j].status = "mismatch"}}

(* A finished query has answered with exactly the rows for which all its   *)
(* conditions hold and, of its alternatives, the first one, those with a   *)
(* lambda in place of a value not counted; a row is given as a type        *)
(* mismatch only if a value of it has another kind than a condition names, *)
(* and is no answer then (ScanPlan.cpp:344-372, 421-490 and 575-778).      *)
ConditionsExact ==
  asked # <<>> /\ phase = "done" /\ query.kind = "vertex" =>
    LET q == Last(asked) IN
    Aligned(q.ands) /\ Aligned(q.ors) =>
      /\ Answered = {i \in DOMAIN Vertices :
                      /\ \A k \in Counted(q.ands) : CondHolds(q.ands[k], Vertices[i])
                      /\ Counted(q.ors) # {} => CondHolds(q.ors[Min(Counted(q.ors))], Vertices[i])}
      /\ \A i \in Mismatched : \E c \in ToSet(q.ands) \cup ToSet(q.ors) : OtherKind(c, Vertices[i])

-----------------------------------------------------------------------------
(* Walks.                                                                  *)
IntEnd(d) == [type |-> "int", v |-> IntBytes(d)]
Node(text) == [tok |-> "node", text |-> text]
Arrow(dir) == [tok |-> "arrow", dir |-> dir]
Arrows == {"--", "->", "<-"}
OneEdge(x, dir, y) == <<Node(x), Arrow(dir), Node(y)>>
TwoEdges(x, first, y, second, z) == <<Node(x), Arrow(first), Node(y), Arrow(second), Node(z)>>

(* What a walk is made of: labels that are not empty.  A number has one    *)
(* digit here, so a label that begins with a digit is that digit.          *)
IsLabel(text) == text \in Seq(ToSet(text)) \ {<<>>} /\ (Head(text) \in Digit => Len(text) = 1)
IsWalk(q) ==
  \/ /\ q.dir \in Arrows /\ IsLabel(q.left) /\ IsLabel(q.right)
     /\ q.tokens = OneEdge(q.left, q.dir, q.right)
  \/ /\ q.dir = "none" /\ DOMAIN q.tokens = 1 .. 5
     /\ LET t == q.tokens IN
        /\ t = TwoEdges(t[1].text, t[2].dir, t[3].text, t[4].dir, t[5].text)
        /\ t[2].dir \in Arrows /\ t[4].dir \in Arrows

(* The ends of a row: a string that is not empty, or an integer.           *)
IsEnd(end) ==
  \/ end = [type |-> "str", v |-> end.v] /\ end.v \in Seq(ToSet(end.v)) \ {<<>>}
  \/ \E d \in Digit : end = IntEnd(d)
ASSUME WalkAssumption ==
  /\ \A q \in First \cup Later : q.kind = "edge" => IsWalk(q)
  /\ \A i \in DOMAIN EdgeRows :
       LET e == EdgeRows[i] IN e.directed \in BOOLEAN /\ IsEnd(e.from) /\ IsEnd(e.to)

(* A finished walk of one edge has answered with exactly the edges of its  *)
(* direction whose ends have its labels, either way round for an edge      *)
(* without direction, as long as the start fits the bits of its length and *)
(* a label that is no number does not meet the integer 0; a walk of two    *)
(* edges answers nothing (WalkVisitor.cpp, ScanPlan.cpp, gutil.cpp).       *)
Text(end) == IF end.type = "int" THEN <<end.v[1]>> ELSE end.v
Goes(text, end) == text = <<"*">> \/ text = Text(end)
Told(e, texts) ==
  /\ Len(e.from.v) < FromLens
  /\ IntEnd("0") \in {e.from, e.to} => \A text \in texts : text = <<"*">> \/ Head(text) \in Digit
WalksExact ==
  asked # <<>> /\ phase = "done" /\ query.kind = "edge" =>
    LET q == Last(asked)
        from == IF q.dir = "<-" THEN q.right ELSE q.left
        to == IF q.dir = "<-" THEN q.left ELSE q.right
    IN IF q.dir = "none" THEN answers = <<>>
       ELSE \A i \in DOMAIN EdgeRows :
              LET e == EdgeRows[i] IN
              Told(e, {from, to}) =>
                (i \in Answered <=>
                   /\ e.directed = (q.dir # "--")
                   /\ \/ Goes(from, e.from) /\ Goes(to, e.to)
                      \/ ~e.directed /\ Goes(from, e.to) /\ Goes(to, e.from))
=============================================================================
