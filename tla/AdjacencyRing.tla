---------------------------- MODULE AdjacencyRing -----------------------------
(***************************************************************************)
(* What the edge lists promise: every node has a ring of the edges at its   *)
(* ends.  A new edge enters the rings of both its ends in one step, right   *)
(* after the edge that came first; nothing leaves a ring.                   *)
(***************************************************************************)
EXTENDS Integers, Sequences

CONSTANTS Node, Edge

VARIABLE ring   \* node -> its edges, in the order a walk visits them

Init == ring = [n \in Node |-> <<>>]

AfterFirst(s, e) == IF s = <<>> THEN <<e>> ELSE <<Head(s), e>> \o Tail(s)

Attach(e) ==
  /\ \A n \in Node : \A i \in DOMAIN ring[n] : ring[n][i] # e
  /\ ring' = [n \in Node |-> IF n \in {e[1], e[2]} THEN AfterFirst(ring[n], e)
                             ELSE ring[n]]

Next == \E e \in Edge : Attach(e)

Spec == Init /\ [][Next]_ring
===============================================================================
