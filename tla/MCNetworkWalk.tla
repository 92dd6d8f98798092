---------------------------- MODULE MCNetworkWalk ----------------------------
(* Walks over all networks of four nodes on a line with edges as long as     *)
(* the distance or two longer, and two concurrent visits with loaders.       *)
EXTENDS NetworkWalk

MCVisit == 1 .. 2
MCNet == 1 .. 2
OwnNet == <<1, 2>>
MCNode == 1 .. 4
MCTarget == 4

\* As the crow flies: never more than an edge takes.
MCHeight(n) == MCTarget - n

Link(a, b, more, both) ==
  [id |-> 16 * a + 4 * b, from |-> a, to |-> b, info |-> (b - a) + more, both |-> both]
Pairs == <<<<1, 2>>, <<1, 3>>, <<1, 4>>, <<2, 3>>, <<2, 4>>, <<3, 4>>>>
MCLinks(kinds) ==
  FlattenSeq([i \in DOMAIN Pairs |->
    LET a == Pairs[i][1]  b == Pairs[i][2] IN
    CASE kinds[i] = "none" -> <<>>
      [] kinds[i] = "near" -> <<Link(a, b, 0, TRUE)>>
      [] kinds[i] = "far" -> <<Link(a, b, 2, TRUE)>>
      [] kinds[i] = "one way" -> <<Link(a, b, 0, FALSE)>>])
Kinds == [DOMAIN Pairs -> {"none", "near", "far"}]
         \cup [DOMAIN Pairs -> {"none", "near", "one way"}]

Visiting(s, links, brings) ==
  [selector |-> s, net |-> Bring(EmptyNet, links), brings |-> brings]
Batches == {<<Link(1, 2, 0, TRUE)>>, <<Link(2, 4, 0, FALSE)>>}

MCPlans ==
  {<<Visiting(s, MCLinks(k), {})>> : s \in {"a star", "breadth first"}, k \in Kinds}
  \cup {<<Visiting(s, <<>>, Batches), Visiting(t, <<>>, Batches)>> :
          s \in {"any", "a star"}, t \in {"any", "breadth first"}}

ASSUME MCHeightsFit == HeightsFit
===============================================================================
