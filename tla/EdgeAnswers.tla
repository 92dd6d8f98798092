----------------------------- MODULE EdgeAnswers ------------------------------
(***************************************************************************)
(* What the queries of EdgeQueries answer over the lists of EdgeRing.       *)
(***************************************************************************)
EXTENDS EdgeRing, SequencesExt

\* A node whose fourth and later edges have it in the role of the first edge, as
\* every node of a bipartite graph has (users rate movies).
OneRole(n) == \A k \in 4..Len(order[n]) : SameRole(n, order[n][k], order[n][1])

OutEdges(n) == {e \in DOMAIN rec : Src(e) = n}
InEdges(n) == {e \in DOMAIN rec : Dst(e) = n /\ Src(e) # n}

\* getVertexInbound answers every stored edge out of the node, once each, while
\* the node keeps one role and no edge is upset again, too early, or by a second
\* object (foreach, getVertexInbound).
InboundComplete ==
  \A n \in Node : settled /\ Orderly /\ OneRole(n) =>
    /\ InboundTerminates(n)
    /\ ToSet(Inbound(n)) = OutEdges(n)
    /\ Len(Inbound(n)) = Cardinality(OutEdges(n))

\* Whatever the roles and the updates, as long as every edge was stored by its
\* only object before anything else was done with it, both queries end, and what they answer are
\* stored edges of the node in the asked role, without repetition.
\* getVertexOutbound follows the links that do not grow, so of the node's edges
\* it is only sure to see the first two (getVertexInbound, getVertexOutbound).
AnswersSound ==
  Orderly => \A n \in Node :
    /\ InboundTerminates(n) /\ OutboundTerminates(n)
    /\ ToSet(Inbound(n)) \subseteq OutEdges(n)
    /\ ToSet(Outbound(n)) \subseteq InEdges(n)
    /\ IsInjective(Inbound(n)) /\ IsInjective(Outbound(n))
    /\ Len(order[n]) <= 2 => ToSet(Outbound(n)) = InEdges(n)

-------------------------------------------------------------------------------
\* The list of n as a walk along the growing links visits it.
WalkOf(n) == Walk(n, InboundLink, InboundStop)

Abstract == INSTANCE AdjacencyRing WITH ring <- [n \in Node |-> WalkOf(n)]

\* While no edge is upset again, too early, or by a second object, and every node
\* keeps one role, each step on the lists is a step of AdjacencyRing: a new edge
\* enters after the first, nothing leaves (upsetEdge).
Ringlike == settled /\ Orderly /\ \A n \in Node : OneRole(n)
Walks == [n \in Node |-> WalkOf(n)]
ImplementsAdjacencyRing == Abstract!Init /\ [][Ringlike' => Abstract!Next]_Walks

-------------------------------------------------------------------------------
\* test/storage.cpp:191 asks for the neighbors of a node and gets an answer: the
\* query ends on every node.
NeighborsEnd == \A n \in Node : NeighborsTerminates(n)
===============================================================================
