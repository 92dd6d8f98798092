------------------------------- MODULE MCEngine -------------------------------
(* Texts for Engine. *)
EXTENDS Engine

CONSTANTS g1, g2, m, n, i, k1, k2, a1, a2, v, w, likes

Create1 == [op |-> "create", graph |-> g1, groups |-> <<m>>, indexes |-> <<i>>, edges |-> {likes}]
Create2 == [op |-> "create", graph |-> g2, groups |-> <<n, m>>, indexes |-> <<>>, edges |-> {}]
DropOf(g) == [op |-> "drop", graph |-> g]
Plain(s) == [op |-> s]
UpsetOf(c, k, a, x) ==
  [op |-> "upset", on |-> [class |-> c, vertex |-> [key |-> k, attr |-> a, value |-> x]]]

\* One statement each, and texts whose later statements meet the code or the
\* store that earlier ones left.
MCTexts ==
  {<<Create1>>, <<Create2>>, <<DropOf(g1)>>, <<DropOf(g2)>>, <<Plain("dump")>>,
   <<UpsetOf(m, k1, a1, v)>>, <<UpsetOf(m, k1, NoAttr, v)>>, <<UpsetOf(m, k2, NoAttr, v)>>,
   <<UpsetOf(n, k2, a1, w)>>, <<UpsetOf(m, k1, a2, w)>>,
   <<Create1, UpsetOf(m, k1, NoAttr, v)>>, <<UpsetOf(m, k2, a1, v), Plain("broken"), Create2>>,
   <<Plain("badarray"), UpsetOf(m, k1, a1, v), Create2>>,
   <<UpsetOf(n, k2, NoAttr, v), DropOf(g1), Plain("show"), Plain("truncated")>>}
===============================================================================
