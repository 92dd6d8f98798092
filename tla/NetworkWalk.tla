------------------------------ MODULE NetworkWalk ------------------------------
(***************************************************************************)
(* Visits (NetworkVisit) of in-memory networks (VirtualNetwork) with the   *)
(* selectors the library has: A* and its breadth-first variant             *)
(* (include/walk/AStarWalk.h, BSFWalk.h, src/walk/AStarWalk.cpp), and one  *)
(* that may want data at every turn, as the random walk does.              *)
(*                                                                         *)
(* A walk has no yield inside: once its network is not empty it goes to    *)
(* its end in its first turn, one action per turn of its loop.  Links join *)
(* nodes that are there, so every neighbour can be visited and the walk    *)
(* never asks for data.                                                    *)
(***************************************************************************)
EXTENDS NetworkVisit, VirtualNetwork, Sequences, SequencesExt

CONSTANTS
  Plans,     (* what an application does: of its visits the network, the    *)
             (* selector and what the loader may bring, sequences of links  *)
  Target,    (* the node that is looked for                                 *)
  Height(_), (* h of the heuristic of an A* walk: a guess at what is left   *)
  OrderMod   (* the values of _order, 65536 in the code                     *)

(* A network an application has built: addEdge asserts that both ends are  *)
(* there (VirtualNetwork.cpp:62-63).                                       *)
Built(g) ==
  /\ g \in [nodes : SUBSET Node, lists : [Node -> [Layer -> SUBSET Int]],
            edges : [DOMAIN g.edges -> Edge]]
  /\ DOMAIN g.edges \subseteq Int /\ IsFiniteSet(DOMAIN g.edges) /\ IsFiniteSet(g.nodes)
  /\ \A i \in DOMAIN g.edges : {g.edges[i].from, g.edges[i].to} \subseteq g.nodes

Given == [id : Int, from : Node, to : Node, info : Info, both : BOOLEAN]

ASSUME NodeAssumption == Node \subseteq Nat /\ IsFiniteSet(Node) /\ 0 \in Layer
ASSUME ObjectAssumption == Obj # {}
ASSUME PlanAssumption ==
  \A p \in Plans :
    /\ DOMAIN p \subseteq Visit
    /\ \A v \in DOMAIN p : Built(p[v].net) /\ p[v].brings \subseteq Seq(Given) \ {<<>>}
ASSUME OrderAssumption == OrderMod \in Nat \ {0}

VARIABLES
  plan,      (* the plan of the application                                 *)
  net,       (* the network of each visit                                   *)
  queue,     (* _queue: paths with their length and their rank              *)
  visited,   (* _visited                                                    *)
  order,     (* what was pushed with _order, which is order % OrderMod      *)
  path       (* _path: what success keeps                                   *)

walks == <<net, queue, visited, order, path>>
wvars == <<nvars, plan, walks>>

WInit ==
  /\ NInit /\ plan \in Plans
  /\ net = [v \in Visit |-> IF v \in DOMAIN plan THEN plan[v].net ELSE EmptyNet]
  /\ queue = [v \in Visit |-> {}] /\ visited = [v \in Visit |-> {}]
  /\ order = [v \in Visit |-> 0] /\ path = [v \in Visit |-> <<>>]

Selects(v, kinds) == v \in DOMAIN plan /\ plan[v].selector \in kinds
Walking(v) ==
  /\ active # Nobody /\ active = walker[v] /\ outcome[v] = "open"
  /\ Selects(v, {"a star", "breadth first"})

-----------------------------------------------------------------------------
(* The network.                                                            *)

(* A link is added in both directions: under one id they become one edge   *)
(* for both, under two ids the second call fails.                          *)
WithGiven(g, l) ==
  LET h == WithEdge(WithNode(WithNode(g, l.from), l.to), l.id, l.from, l.to, l.info, 0) IN
  WithEdge(h, IF l.both THEN l.id ELSE l.id + 1, l.to, l.from, l.info, 0)
Bring(g, links) ==
  LET upTo[k \in 0..Len(links)] == IF k = 0 THEN g ELSE WithGiven(upTo[k - 1], links[k])
  IN  upTo[Len(links)]

LoadBatch(v) ==
  /\ Load(v)
  /\ \E b \in plan[v].brings : net' = [net EXCEPT ![v] = Bring(@, b)]
  /\ UNCHANGED <<plan, queue, visited, order, path>>

-----------------------------------------------------------------------------
(* The walk.                                                               *)

Lowest(nodes) == CHOOSE n \in nodes : \A m \in nodes : n <= m

(* gql::stand: the first node of the map, whatever node the selector was   *)
(* told to start at.  Of an empty map nothing is defined.                  *)
Stand(v) ==
  /\ Walking(v) /\ queue[v] = {}
  /\ seen' = [seen EXCEPT ![v] = loaded[v]]
  /\ IF net[v].nodes = {}
     THEN outcome' = [outcome EXCEPT ![v] = "undefined"] /\ UNCHANGED queue
     ELSE /\ queue' = [queue EXCEPT ![v] = {[ids |-> <<Lowest(net[v].nodes)>>, g |-> 0, f |-> 0]}]
          /\ UNCHANGED outcome
  /\ UNCHANGED <<vars, finish, opening, loader, walker, loaded, loading>>
  /\ UNCHANGED <<plan, net, visited, order, path>>

(* The length of the edge that is in the lists of both, as the heuristic   *)
(* of test/vnet.cpp has it.                                                *)
Length(g, a, b) == g.edges[CHOOSE i \in g.lists[a][0] \cap g.lists[b][0] : TRUE].info

(* What the heuristics make of the edge to n, the k-th that is pushed.     *)
Pushed(v, o, n, k) ==
  LET d == IF Selects(v, {"a star"}) THEN Length(net[v], Last(o.ids), n)
           ELSE (order[v] + k) % OrderMod
      g == o.g + d
  IN [ids |-> Append(o.ids, n), g |-> g, f |-> g + IF Selects(v, {"a star"}) THEN Height(n) ELSE 0]

(* Faulty variant: the queue gives the highest rank, as it does unless it  *)
(* is told to compare with greater.                                        *)
IsTopByLess(o, q) == o \in q /\ \A p \in q : p.f <= o.f

(* Of equal ranks the queue may give any.                                  *)
IsTop(o, q) == o \in q /\ \A p \in q : o.f <= p.f

Reaches(v, o) ==
  /\ Last(o.ids) = Target
  /\ outcome' = [outcome EXCEPT ![v] = "reached"] /\ path' = [path EXCEPT ![v] = o.ids]
  /\ Return /\ UNCHANGED <<queue, visited, order>>

(* Faulty variant: one node is always held back.                           *)
UnseenButOne(g, nodes) == Cardinality(g.nodes) > Cardinality(nodes) + 1

(* vg.size() - _visited.size() > 0: nodes and edges, without a sign.       *)
Unseen(g, nodes) == Cardinality(g.nodes) + Cardinality(DOMAIN g.edges) # Cardinality(nodes)

Passes(v, o) ==
  /\ Last(o.ids) # Target
  /\ visited' = [visited EXCEPT ![v] = @ \cup {Last(o.ids)}]
  /\ LET new == Linked(net[v], Last(o.ids), 0) \ visited'[v]
         nth(n) == Cardinality({m \in new : m <= n})
     IN /\ queue' = [queue EXCEPT ![v] = (@ \ {o}) \cup {Pushed(v, o, n, nth(n)) : n \in new}]
        /\ order' = [order EXCEPT ![v] = @ + Cardinality(new)]
  /\ IF Unseen(net[v], visited'[v]) /\ queue'[v] # {}
     THEN UNCHANGED <<vars, outcome>>
     ELSE outcome' = [outcome EXCEPT ![v] = "passed"] /\ Return
  /\ UNCHANGED path

WalkOn(v) ==
  /\ Walking(v)
  /\ \E o \in queue[v] : IsTop(o, queue[v]) /\ (Reaches(v, o) \/ Passes(v, o))
  /\ UNCHANGED <<finish, opening, loader, walker, loaded, loading, seen, plan, net>>

-----------------------------------------------------------------------------
(* Which address new returns makes no difference.                          *)
Fresh == CHOOSE o \in Obj : ~Live(o) \/ \A p \in Obj : Live(p)

IsDefined == \A v \in Visit : outcome[v] # "undefined"

WLoop ==
  /\ IsDefined
  /\ \/ \E v \in Visit : LoadBatch(v) \/ Stand(v) \/ WalkOn(v)
     \/ /\ \/ \E v \in Visit : LoadEnds(v) \/ (Selects(v, {"any"}) /\ Walk(v))
           \/ OpenWalker(Fresh)
           \/ /\ opening = Nobody
              /\ StartRun \/ NextPass \/ EndRun \/ Reap \/ Resume
              /\ UNCHANGED <<finish, opening, loader, walker, loaded, loading, seen, outcome>>
        /\ UNCHANGED <<plan, walks>>

WNext ==
  \/ WLoop
  \/ IsDefined /\ \E v \in DOMAIN plan : Open(v, Fresh) /\ UNCHANGED <<plan, walks>>

(* One thread runs the loop and the bodies, and the application calls run. *)
(* A loader comes to its end because its data is finite.                   *)
WSpec == WInit /\ [][WNext]_wvars /\ WF_wvars(WLoop)

-----------------------------------------------------------------------------
(* Paths of a network from its first node.                                 *)
Tours == {p \in UNION {[1 .. n -> Node] : n \in 1 .. Cardinality(Node)} : IsInjective(p)}
RoutesTo(g, target) ==
  {p \in Tours : /\ p[1] = Lowest(g.nodes) /\ Last(p) = target
                 /\ \A i \in 1 .. Len(p) - 1 : p[i + 1] \in Linked(g, p[i], 0)}
Cost(g, p) ==
  LET upTo[k \in 0 .. Len(p) - 1] == IF k = 0 THEN 0 ELSE upTo[k - 1] + Length(g, p[k], p[k + 1])
  IN  upTo[Len(p) - 1]

(* The path a walk comes back with leads from the first node to the target *)
(* and no other is shorter for A*, none has fewer edges for the breadth-   *)
(* first walk, as long as its uint16_t does not overflow: though nodes are *)
(* marked when they leave the queue, stay in it several times and ties     *)
(* are broken either way (AStarWalk.h:42-77, BSFWalk.h:8-13).              *)
PathsAreShortest ==
  [][\A v \in Visit :
       outcome[v] = "open" /\ outcome'[v] = "reached" /\ Selects(v, {"a star", "breadth first"}) =>
         LET routes == RoutesTo(net[v], Target)  p == path'[v] IN
         /\ p \in routes
         /\ Selects(v, {"a star"}) => \A r \in routes : Cost(net[v], p) <= Cost(net[v], r)
         /\ Selects(v, {"breadth first"}) /\ order[v] < OrderMod =>
              \A r \in routes : Len(p) <= Len(r)]_wvars

(* What A* asks of an application: what is linked under one id joins the   *)
(* same two nodes, and no edge is shorter than the guesses at its ends     *)
(* differ.  A network lists an edge at both of its ends.                   *)
LaidBy(i, e) == [id |-> i, ends |-> {e.from, e.to}, info |-> e.info]
Laid(visit) ==
  {LaidBy(i, visit.net.edges[i]) : i \in DOMAIN visit.net.edges}
  \cup UNION {{LaidBy(b[k].id, b[k]) : k \in DOMAIN b}
              \cup {LaidBy(b[k].id + 1, b[k]) : k \in {j \in DOMAIN b : ~b[j].both}} :
            b \in visit.brings}
Tied(g) ==
  \A n \in Node : \A i \in g.lists[n][0] :
    /\ i \in DOMAIN g.edges /\ n \in {g.edges[i].from, g.edges[i].to}
    /\ i \in g.lists[g.edges[i].from][0] \cap g.lists[g.edges[i].to][0]
Guessed(visit) ==
  /\ Tied(visit.net)
  /\ \A x, y \in Laid(visit) : x.id = y.id => x.ends = y.ends
  /\ \A x \in Laid(visit) : x.info \in Int /\ \A a, b \in x.ends : Height(a) <= x.info + Height(b)
HeightsFit ==
  /\ \A n \in Node : Height(n) \in Int
  /\ \A p \in Plans : \A v \in DOMAIN p : p[v].selector = "a star" => Guessed(p[v])

(* A walk that ends without a path has met all that can be reached in what *)
(* was loaded by then, and the target was not there; one that stands on    *)
(* nothing had its turn before its loader, whose id is higher only when    *)
(* the ids of coroutines have wrapped, or the loader had nothing           *)
(* (VirtualNetwork.h:75-91, AStarWalk.h:57-78, AStarWalk.cpp:6-11).        *)
WalksMissNothing ==
  [][\A v \in Visit : outcome[v] = "open" =>
       /\ outcome'[v] = "passed" => RoutesTo(net[v], Target) = {}
       /\ outcome'[v] = "undefined" =>
            \/ ident[walker[v]] < ident[loader[v]] /\ loading[v]
            \/ ~loading[v] /\ loaded[v] = 0]_wvars

(* Every visit ends, loader and walker, whichever has its turn first,      *)
(* unless one met something undefined (VirtualNetwork.h:75-91).            *)
WalksEnd ==
  \A v \in Visit :
    loader[v] # Nobody ~> (~loading[v] /\ outcome[v] # "open") \/ ~IsDefined
===============================================================================
