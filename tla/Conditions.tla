------------------------------- MODULE Conditions -------------------------------
(***************************************************************************)
(* What a where clause keeps of the vertices: PatternVisitor and           *)
(* predictVertex of ScanPlan.cpp.  A clause is the list of what the        *)
(* visitor meets, in its order:                                            *)
(*   [tok |-> "and"]  [tok |-> "or"]  [tok |-> "id", key]                  *)
(*   [tok |-> "name", name, lits]    name: lit, or name: [lit, ...]        *)
(*   [tok |-> "cmp", op, lit]        $lt, $gt, $lte, $gte                  *)
(*   [tok |-> "near", op, vec, lit]  $near of a point with a bound         *)
(* A literal is a record with a kind; "lambda" stands for a lambda and     *)
(* "star" for the text '*'.  A point has one coordinate.                   *)
(*                                                                         *)
(* Predicates and the names of their attributes are kept in two lists for  *)
(* each of And and Or, and are brought together again by counting.         *)
(***************************************************************************)
EXTENDS Integers, Sequences, FiniteSets, SequencesExt

Index == {"And", "Or"}
Literal(lit) == lit.kind # "lambda"

NoClause(last) ==
  [at |-> "And", last |-> last, attrs |-> [i \in Index |-> <<>>], preds |-> [i \in Index |-> <<>>]]

AddAttr(v, i) == [v EXCEPT !.attrs[i] = Append(@, v.last)]
AddPred(v, i, pred) == [v EXCEPT !.preds[i] = Append(@, pred)]

(* $lt and the others: the name is kept before the value is looked at.     *)
VisitCompare(v, t) ==
  LET w == AddAttr(v, v.at) IN
  IF Literal(t.lit) THEN AddPred(w, v.at, [on |-> "attr", op |-> t.op, lit |-> t.lit]) ELSE w

(* $near: the name is kept last, and not at all when the bound is a lambda *)
VisitNear(v, t) ==
  IF ~Literal(t.lit) THEN v
  ELSE AddAttr(AddPred(v, v.at, [on |-> "near", op |-> t.op, vec |-> t.vec, lit |-> t.lit]), v.at)

(* The name of an attribute: a single value is for the current list, the   *)
(* values of an array go to the alternatives.                              *)
AddEqual(v, lit, i) ==
  IF lit.kind = "star" THEN AddPred(AddAttr(v, i), i, [on |-> "attr", op |-> "any", lit |-> lit])
  ELSE AddPred(AddAttr(v, i), i, [on |-> "attr", op |-> "eq", lit |-> lit])
VisitName(v, t) ==
  LET w == [v EXCEPT !.last = t.name]
      add(u, lit) == AddEqual(u, lit, IF t.list THEN "Or" ELSE v.at)
  IN FoldLeft(add, w, t.lits)

Visit(v, t) ==
  CASE t.tok = "and" -> [v EXCEPT !.at = "And"]
    [] t.tok = "or" -> [v EXCEPT !.at = "Or"]
    [] t.tok = "id" -> AddPred(v, v.at, [on |-> "key", key |-> t.key])
    [] t.tok = "cmp" -> VisitCompare(v, t)
    [] t.tok = "near" -> VisitNear(v, t)
    [] t.tok = "name" -> VisitName(v, t)

(* parseConditions: what the visitor leaves; last_key is static and goes   *)
(* on to the next query.                                                   *)
ParseConditions(tokens, last) == FoldLeft(Visit, NoClause(last), tokens)

(* Faulty variant: > and >= are the negations of the wrong comparison.     *)
HoldsSwapped(op, a, b) ==
  CASE op = "any" -> TRUE
    [] op = "eq" -> a.val = b.val
    [] op = "lt" -> a.val < b.val
    [] op = "lte" -> a.val <= b.val
    [] op = "gt" -> ~(a.val < b.val)
    [] op = "gte" -> ~(a.val <= b.val)

(* Variant: values of two kinds are not compared, and > and >= are the     *)
(* negations of <= and <.                                                  *)
Holds(op, a, b) ==
  CASE op = "any" -> TRUE
    [] op = "eq" -> a.val = b.val
    [] op = "lt" -> a.val < b.val
    [] op = "lte" -> a.val <= b.val
    [] op = "gt" -> ~(a.val <= b.val)
    [] op = "gte" -> ~(a.val < b.val)
Distance2(a, b) == (a - b) * (a - b)

(* predict: an attribute the row does not have is FALSE; another kind than *)
(* the value of the condition throws; $near takes any value for a point.   *)
Predict(pred, row, attr) ==
  IF attr \notin DOMAIN row THEN "no"
  ELSE LET a == row[attr] IN
       CASE pred.on = "near" /\ a.kind # "vec" -> "undefined"
         [] pred.on = "near" /\ a.kind = "vec" ->
              IF Holds(pred.op, [val |-> Distance2(a.val, pred.vec)], pred.lit) THEN "yes" ELSE "no"
         [] pred.on = "attr" /\ pred.op # "any" /\ a.kind # pred.lit.kind -> "mismatch"
         [] OTHER -> IF Holds(pred.op, a, pred.lit) THEN "yes" ELSE "no"

(* The k-th predicate of a list.  The iterator over the names goes one     *)
(* further for each predicate that is not about the key.                   *)
Found(clause, i, k, key, row) ==
  LET preds == clause.preds[i]
      next == 1 + Cardinality({j \in 1 .. k - 1 : preds[j].on # "key"})
  IN IF preds[k].on # "key" THEN Predict(preds[k], row, clause.attrs[i][next])
     ELSE IF key = preds[k].key THEN "yes" ELSE "no"
Throws(found) == found \in {"mismatch", "undefined"}

(* predictVertex.  The first list ends with its first predicate that is    *)
(* not true.  The second begins with that result, takes its predicates     *)
(* with &= as well and ends as soon as the result is true: it ends with    *)
(* the first predicate, or goes through all of them for nothing.           *)
AndResult(clause, key, row) ==
  LET ks == DOMAIN clause.preds["And"]
      found == [k \in ks |-> Found(clause, "And", k, key, row)]
      not == {k \in ks : found[k] # "yes"}
  IN IF not = {} THEN "yes" ELSE found[Min(not)]
OrResult(clause, key, row, result) ==
  LET ks == DOMAIN clause.preds["Or"]
      found == [k \in ks |-> Found(clause, "Or", k, key, row)]
      thrown == {k \in ks : Throws(found[k])}
  IN IF ks = {} \/ (result = "yes" /\ found[1] = "yes") THEN result
     ELSE IF thrown = {} THEN "no" ELSE found[Min(thrown)]
PredictVertex(clause, key, row) ==
  LET result == AndResult(clause, key, row) IN
  IF Throws(result) THEN result ELSE OrResult(clause, key, row, result)
=============================================================================
