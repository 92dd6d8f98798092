---------------------------- MODULE VirtualNetwork ----------------------------
(***************************************************************************)
(* The in-memory graph: GMap (src/include/base/parallel/GraphModel.h) and  *)
(* the operations of GVirtualNetwork (src/src/VirtualNetwork.cpp) on it.   *)
(*                                                                         *)
(* A graph is a value: its nodes, for every node and layer the list of its *)
(* edges (kept sorted and without repetition, so a set), and the edges by  *)
(* id.  Attributes and the flags nothing reads are left out.               *)
(***************************************************************************)
EXTENDS Integers, FiniteSets

CONSTANTS
  Node,       (* node ids                                                  *)
  Layer,      (* 0..MAX_LAYER_SIZE-1                                       *)
  Info        (* what the data of an edge may be                           *)

ASSUME LayerAssumption == Layer \subseteq Nat

Edge == [from : Node, to : Node, info : Info, both : BOOLEAN, layer : Layer]

NoEdges == [i \in {} |-> 0]

EmptyNet == [nodes |-> {}, lists |-> [n \in Node |-> [l \in Layer |-> {}]], edges |-> NoEdges]

\* addNode on a node that exists changes nothing that is read.
WithNode(g, n) == [g EXCEPT !.nodes = @ \cup {n}]

-------------------------------------------------------------------------------
\* Faulty variant: every edge leads to its end.
AcrossForward(e, n) == e.to

\* The node an edge leads to from n; a one-way edge leads to its end from both.
Across(e, n) == IF e.both /\ e.to = n THEN e.from ELSE e.to

Linked(g, n, l) ==
  {Across(g.edges[i], n) : i \in g.lists[n][l] \cap DOMAIN g.edges}

\* GMap::neighbors: a node without neighbours gets all the others.
Neighbors(g, n, l) ==
  IF Linked(g, n, l) # {} THEN Linked(g, n, l) ELSE g.nodes \ {n}

Put(f, k, v) == [x \in DOMAIN f \cup {k} |-> IF x = k THEN v ELSE f[x]]
Without(f, k) == [x \in DOMAIN f \ {k} |-> f[x]]

BothWays(e) ==
  [from |-> e.from, to |-> e.to, info |-> e.info, both |-> TRUE, layer |-> e.layer]

\* addEdge: an edge in the other direction becomes one for both, under its own
\* id only; an edge of another id is left as it is, and the call fails.
WithEdge(g, i, a, b, info, l) ==
  IF a \in Linked(g, b, l)
  THEN IF i \in DOMAIN g.edges
       THEN [nodes |-> g.nodes, lists |-> g.lists,
             edges |-> Put(g.edges, i, BothWays(g.edges[i]))]
       ELSE g
  ELSE [nodes |-> g.nodes,
        lists |-> [n \in Node |-> [m \in Layer |->
                     IF m = l /\ n \in {a, b} THEN g.lists[n][m] \cup {i}
                     ELSE g.lists[n][m]]],
        edges |-> Put(g.edges, i, [from |-> a, to |-> b, info |-> info,
                                   both |-> FALSE, layer |-> l])]

\* Does addEdge return ECode_Success?
Adds(g, i, a, b, l) == a \in Linked(g, b, l) => i \in DOMAIN g.edges

\* What both callers do: the edge, and the same edge the other way.
WithLink(g, i, a, b, info, l) ==
  WithEdge(WithEdge(g, i, a, b, info, l), i, b, a, info, l)

\* deleteEdge's eraseEdgeFrom: only the highest layer that lists the edge.
Erased(lists, i, n) ==
  [x \in Node |-> [l \in Layer |->
     IF x = n /\ \A m \in Layer : i \in lists[n][m] => m <= l
     THEN lists[x][l] \ {i} ELSE lists[x][l]]]

\* Faulty variant: only the first end forgets the edge.
WithoutEdgeFrom(g, i) ==
  [nodes |-> g.nodes, lists |-> Erased(g.lists, i, g.edges[i].from),
   edges |-> Without(g.edges, i)]

\* deleteEdge without the mark.
WithoutEdge(g, i) ==
  [nodes |-> g.nodes,
   lists |-> Erased(Erased(g.lists, i, g.edges[i].from), i, g.edges[i].to),
   edges |-> Without(g.edges, i)]

-------------------------------------------------------------------------------
(* What a network is while edges are added in both directions. *)

\* A list names edges that exist, in its layer, at its node.
Listed(g) ==
  \A n \in Node, l \in Layer : \A i \in g.lists[n][l] :
    /\ i \in DOMAIN g.edges /\ g.edges[i].layer = l
    /\ n \in {g.edges[i].from, g.edges[i].to}

\* An edge joins two nodes of the network, both ways, and both list it.
Joined(g) ==
  \A i \in DOMAIN g.edges :
    LET e == g.edges[i]
    IN  /\ e.both /\ e.from # e.to /\ {e.from, e.to} \subseteq g.nodes
        /\ i \in g.lists[e.from][e.layer] \cap g.lists[e.to][e.layer]

\* In a layer two nodes are joined by one edge at most.
Single(g) ==
  \A i, j \in DOMAIN g.edges :
    /\ {g.edges[i].from, g.edges[i].to} = {g.edges[j].from, g.edges[j].to}
    /\ g.edges[i].layer = g.edges[j].layer
    => i = j
===============================================================================
