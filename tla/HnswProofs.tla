------------------------------ MODULE HnswProofs ------------------------------
(***************************************************************************)
(* Proofs about Hnsw: the lists and the edges of the network agree, only   *)
(* the longest edges are displaced, a search answers what is stored, and   *)
(* what is loaded is what was saved.  For the network a search may find    *)
(* any set of neighbours; that it finds nodes of the network, and finds    *)
(* something, comes with the searches below.                               *)
(***************************************************************************)
EXTENDS Hnsw, Recursions, FiniteSetTheorems

\* A network whose edges have ids up to k.
Network(g, k) ==
  /\ g = [nodes |-> g.nodes, lists |-> g.lists, edges |-> g.edges]
  /\ g.nodes \subseteq Node
  /\ g.lists \in [Node -> [Layer -> SUBSET (1..k)]]
  /\ DOMAIN g.edges \subseteq 1..k
  /\ g.edges \in [DOMAIN g.edges -> Edge]

NetOK(g, k) == Network(g, k) /\ Listed(g) /\ Joined(g) /\ Single(g)

-------------------------------------------------------------------------------
(* The operations of the network *)

LEMMA FiniteIds == \A k \in Nat : IsFiniteSet(1..k)
BY FS_Interval

\* Of two nodes that are joined each is a neighbour of the other.
LEMMA LinkedBoth ==
  ASSUME NEW k \in Nat, NEW g, NetOK(g, k), NEW a \in Node, NEW b \in Node, NEW l \in Layer,
         a \in Linked(g, b, l)
  PROVE  b \in Linked(g, a, l)
<1>1. PICK i \in g.lists[b][l] \cap DOMAIN g.edges : a = Across(g.edges[i], b)
  BY DEF Linked
<1>2. /\ g.edges[i].layer = l /\ b \in {g.edges[i].from, g.edges[i].to}
      /\ g.edges[i].both /\ g.edges[i].from # g.edges[i].to
      /\ i \in g.lists[g.edges[i].from][l] /\ i \in g.lists[g.edges[i].to][l]
  BY <1>1 DEF NetOK, Listed, Joined
<1>3. a \in {g.edges[i].from, g.edges[i].to} /\ b = Across(g.edges[i], a)
  BY <1>1, <1>2 DEF Across
<1>4. i \in g.lists[a][l] \cap DOMAIN g.edges
  BY <1>1, <1>2, <1>3
<1> QED BY <1>3, <1>4 DEF Linked

LEMMA LinkOld ==
  ASSUME NEW k \in Nat, NEW g, NetOK(g, k), NEW a \in Node, NEW b \in Node, NEW l \in Layer,
         NEW info, a \in Linked(g, b, l)
  PROVE  /\ WithEdge(g, k + 1, a, b, info, l) = g
         /\ WithLink(g, k + 1, a, b, info, l) = g
         /\ ~Adds(g, k + 1, b, a, l)
<1>1. k + 1 \notin DOMAIN g.edges BY DEF NetOK, Network
<1>2. b \in Linked(g, a, l) BY LinkedBoth
<1> QED BY <1>1, <1>2 DEF WithLink, WithEdge, Adds

\* What the two calls of addEdge make of a network in which a and b are not joined.
Linking(g, i, a, b, info, l) ==
  [nodes |-> g.nodes,
   lists |-> [n \in Node |-> [m \in Layer |->
                IF m = l /\ n \in {a, b} THEN g.lists[n][m] \cup {i} ELSE g.lists[n][m]]],
   edges |-> Put(g.edges, i, [from |-> a, to |-> b, info |-> info, both |-> TRUE,
                              layer |-> l])]

LEMMA LinkNew ==
  ASSUME NEW k \in Nat, NEW g, NetOK(g, k), NEW a \in Node, NEW b \in Node, NEW l \in Layer,
         NEW info, a # b, a \notin Linked(g, b, l)
  PROVE  /\ WithLink(g, k + 1, a, b, info, l) = Linking(g, k + 1, a, b, info, l)
         /\ Adds(WithEdge(g, k + 1, a, b, info, l), k + 1, b, a, l)
<1> DEFINE i == k + 1
           e == [from |-> a, to |-> b, info |-> info, both |-> FALSE, layer |-> l]
           f == [from |-> a, to |-> b, info |-> info, both |-> TRUE, layer |-> l]
           h == WithEdge(g, i, a, b, info, l)
<1>1. /\ h.nodes = g.nodes /\ h.edges = Put(g.edges, i, e)
      /\ h.lists = [n \in Node |-> [m \in Layer |->
                      IF m = l /\ n \in {a, b} THEN g.lists[n][m] \cup {i}
                      ELSE g.lists[n][m]]]
  BY DEF WithEdge
<1>2. i \in h.lists[a][l] /\ i \in DOMAIN h.edges /\ h.edges[i] = e
  <2>1. i \in DOMAIN Put(g.edges, i, e) /\ Put(g.edges, i, e)[i] = e BY DEF Put
  <2>2. h.lists[a] = [m \in Layer |-> IF m = l /\ a \in {a, b} THEN g.lists[a][m] \cup {i}
                                      ELSE g.lists[a][m]]
    BY <1>1
  <2>3. h.lists[a][l] = g.lists[a][l] \cup {i} BY <2>2
  <2> QED BY <1>1, <2>1, <2>3
<1>3. Across(e, a) = b BY DEF Across
<1> HIDE DEF h, e
<1>4. b \in Linked(h, a, l) BY <1>2, <1>3 DEF Linked
<1>5. WithEdge(h, i, b, a, info, l) =
        [nodes |-> h.nodes, lists |-> h.lists,
         edges |-> Put(h.edges, i, BothWays(h.edges[i]))]
  BY <1>2, <1>4 DEF WithEdge
<1>6. BothWays(e) = f BY DEF BothWays, e
<1>7. Put(h.edges, i, f) = Put(g.edges, i, f)
  BY <1>1 DEF Put
<1>8. WithEdge(h, i, b, a, info, l) = Linking(g, i, a, b, info, l)
  BY <1>1, <1>2, <1>5, <1>6, <1>7 DEF Linking
<1> QED BY <1>2, <1>8 DEF WithLink, Adds, h

LEMMA LinkingOK ==
  ASSUME NEW k \in Nat, NEW g, NetOK(g, k), NEW a \in g.nodes, NEW b \in g.nodes,
         NEW l \in Layer, NEW info \in Info, a # b, a \notin Linked(g, b, l)
  PROVE  NetOK(Linking(g, k + 1, a, b, info, l), k + 1)
<1> DEFINE i == k + 1
           e == [from |-> a, to |-> b, info |-> info, both |-> TRUE, layer |-> l]
           h == Linking(g, i, a, b, info, l)
<1>1. /\ g.nodes \subseteq Node /\ g.lists \in [Node -> [Layer -> SUBSET (1..k)]]
      /\ DOMAIN g.edges \subseteq 1..k /\ g.edges \in [DOMAIN g.edges -> Edge]
  BY DEF NetOK, Network
<1>2. a \in Node /\ b \in Node /\ i \in 1..i /\ 1..k \subseteq 1..i /\ i \notin 1..k
  BY <1>1
<1>3. e \in Edge BY <1>2 DEF Edge
<1>4. /\ h = [nodes |-> h.nodes, lists |-> h.lists, edges |-> h.edges]
      /\ h.nodes = g.nodes /\ h.edges = Put(g.edges, i, e)
      /\ h.lists = [n \in Node |-> [m \in Layer |->
                      IF m = l /\ n \in {a, b} THEN g.lists[n][m] \cup {i}
                      ELSE g.lists[n][m]]]
  BY DEF Linking
<1> HIDE DEF h, e
<1>5. /\ DOMAIN h.edges = DOMAIN g.edges \cup {i}
      /\ h.edges = [j \in DOMAIN g.edges \cup {i} |-> IF j = i THEN e ELSE g.edges[j]]
      /\ h.edges[i] = e /\ \A j \in DOMAIN g.edges : h.edges[j] = g.edges[j]
      /\ i \notin DOMAIN g.edges
  BY <1>1, <1>2, <1>4 DEF Put
<1>6. \A n \in Node, m \in Layer :
        h.lists[n][m] = IF m = l /\ n \in {a, b} THEN g.lists[n][m] \cup {i} ELSE g.lists[n][m]
  BY <1>4
<1>7. Network(h, i)
  <2>1. h.edges \in [DOMAIN h.edges -> Edge] /\ DOMAIN h.edges \subseteq 1..i
    BY <1>1, <1>2, <1>3, <1>5
  <2>2. \A n \in Node, m \in Layer :
          (IF m = l /\ n \in {a, b} THEN g.lists[n][m] \cup {i} ELSE g.lists[n][m])
            \in SUBSET (1..i)
    BY <1>1, <1>2
  <2>3. h.lists \in [Node -> [Layer -> SUBSET (1..i)]]
    BY <1>4, <2>2
  <2> QED BY <2>1, <2>3, <1>1, <1>4 DEF Network
<1>8. Listed(h)
  <2> SUFFICES ASSUME NEW n \in Node, NEW m \in Layer, NEW j \in h.lists[n][m]
               PROVE  /\ j \in DOMAIN h.edges /\ h.edges[j].layer = m
                      /\ n \in {h.edges[j].from, h.edges[j].to}
    BY DEF Listed
  <2>1. CASE j \in g.lists[n][m]
    <3>1. /\ j \in DOMAIN g.edges /\ g.edges[j].layer = m
          /\ n \in {g.edges[j].from, g.edges[j].to}
      BY <2>1 DEF NetOK, Listed
    <3> QED BY <3>1, <1>5
  <2>2. CASE j \notin g.lists[n][m]
    <3>1. j = i /\ m = l /\ n \in {a, b}
      <4>1. m = l /\ n \in {a, b} BY <2>2, <1>6
      <4>2. h.lists[n][m] = g.lists[n][m] \cup {i} BY <4>1, <1>6
      <4> QED BY <2>2, <4>1, <4>2
    <3> QED BY <3>1, <1>5 DEF e
  <2> QED BY <2>1, <2>2
<1>9. Joined(h)
  <2> SUFFICES ASSUME NEW j \in DOMAIN h.edges
               PROVE  /\ h.edges[j].both /\ h.edges[j].from # h.edges[j].to
                      /\ {h.edges[j].from, h.edges[j].to} \subseteq h.nodes
                      /\ j \in h.lists[h.edges[j].from][h.edges[j].layer]
                      /\ j \in h.lists[h.edges[j].to][h.edges[j].layer]
    BY DEF Joined
  <2>1. CASE j = i
    <3>1. e.from = a /\ e.to = b /\ e.layer = l /\ e.both BY DEF e
    <3>2. h.edges[j] = e BY <2>1, <1>5
    <3>3. h.edges[j].both BY <3>1, <3>2, Zenon
    <3> QED BY <2>1, <3>1, <3>2, <3>3, <1>2, <1>4, <1>6
  <2>2. CASE j # i
    <3> DEFINE f == g.edges[j]
    <3>1. j \in DOMAIN g.edges /\ h.edges[j] = f /\ f \in Edge
      BY <2>2, <1>1, <1>5
    <3>2. /\ f.both /\ f.from # f.to /\ {f.from, f.to} \subseteq g.nodes
          /\ j \in g.lists[f.from][f.layer] /\ j \in g.lists[f.to][f.layer]
      BY <3>1 DEF NetOK, Joined
    <3>3. f.from \in Node /\ f.to \in Node /\ f.layer \in Layer
      BY <3>1 DEF Edge
    <3> HIDE DEF f
    <3> QED BY <3>1, <3>2, <3>3, <1>4, <1>6
  <2> QED BY <2>1, <2>2
<1>10. ASSUME NEW j \in DOMAIN g.edges,
              {g.edges[j].from, g.edges[j].to} = {a, b}, g.edges[j].layer = l
       PROVE  FALSE
  <2>1. /\ g.edges[j].both /\ g.edges[j].from # g.edges[j].to
        /\ j \in g.lists[g.edges[j].from][l] /\ j \in g.lists[g.edges[j].to][l]
    BY <1>10 DEF NetOK, Joined
  <2>2. b \in {g.edges[j].from, g.edges[j].to} /\ a \in {g.edges[j].from, g.edges[j].to}
    BY <1>10
  <2>3. j \in g.lists[b][l] /\ Across(g.edges[j], b) = a
    BY <2>1, <2>2 DEF Across
  <2> QED BY <2>3 DEF Linked
<1>11. Single(h)
  <2> SUFFICES ASSUME NEW x \in DOMAIN h.edges, NEW y \in DOMAIN h.edges,
                      {h.edges[x].from, h.edges[x].to} = {h.edges[y].from, h.edges[y].to},
                      h.edges[x].layer = h.edges[y].layer
               PROVE  x = y
    BY DEF Single
  <2>1. e.from = a /\ e.to = b /\ e.layer = l BY DEF e
  <2>2. CASE x = i /\ y # i
    <3>1. y \in DOMAIN g.edges /\ h.edges[y] = g.edges[y] /\ h.edges[x] = e
      BY <2>2, <1>5
    <3> QED BY <3>1, <2>1, <1>10
  <2>3. CASE x # i /\ y = i
    <3>1. x \in DOMAIN g.edges /\ h.edges[x] = g.edges[x] /\ h.edges[y] = e
      BY <2>3, <1>5
    <3> QED BY <3>1, <2>1, <1>10
  <2>4. CASE x # i /\ y # i
    BY <2>4, <1>5 DEF Single, NetOK
  <2> QED BY <2>2, <2>3, <2>4
<1> QED BY <1>7, <1>8, <1>9, <1>11 DEF NetOK, h

\* deleteEdge of an edge of the network: it leaves the lists of its two ends.
Lost(g, h, i) ==
  /\ h.nodes = g.nodes /\ DOMAIN h.edges = DOMAIN g.edges \ {i}
  /\ \A j \in DOMAIN h.edges : h.edges[j] = g.edges[j]
  /\ \A n \in Node, m \in Layer : h.lists[n][m] = g.lists[n][m] \ {i}

SingleLayer(K, i, n) ==
  \A m \in Layer, q \in Layer : i \in K[n][m] /\ i \in K[n][q] => m = q

Lists(k) == [Node -> [Layer -> SUBSET (1..k)]]

LEMMA ErasedOne ==
  ASSUME NEW k, NEW K, K \in Lists(k), NEW n \in Node, NEW i, SingleLayer(K, i, n)
  PROVE  /\ Erased(K, i, n) \in Lists(k)
         /\ \A m \in Layer : Erased(K, i, n)[n][m] = K[n][m] \ {i}
         /\ \A x \in Node \ {n}, m \in Layer : Erased(K, i, n)[x][m] = K[x][m]
<1>1. Erased(K, i, n) \in Lists(k) BY DEF Erased, Lists
<1>2. ASSUME NEW m \in Layer
      PROVE  Erased(K, i, n)[n][m] = K[n][m] \ {i}
  <2>1. CASE i \in K[n][m]
    <3>1. \A q \in Layer : i \in K[n][q] => q <= m
      BY <2>1, LayerAssumption DEF SingleLayer
    <3> QED BY <2>1, <3>1 DEF Erased
  <2>2. CASE i \notin K[n][m]
    BY <2>2 DEF Erased, Lists
  <2> QED BY <2>1, <2>2
<1>3. \A x \in Node \ {n}, m \in Layer : Erased(K, i, n)[x][m] = K[x][m]
  BY DEF Erased
<1> QED BY <1>1, <1>2, <1>3

LEMMA WithoutOK ==
  ASSUME NEW k \in Nat, NEW g, NetOK(g, k), NEW i \in DOMAIN g.edges
  PROVE  NetOK(WithoutEdge(g, i), k) /\ Lost(g, WithoutEdge(g, i), i)
<1> DEFINE h == WithoutEdge(g, i)
           e == g.edges[i]
           K == Erased(g.lists, i, e.from)
           L == Erased(K, i, e.to)
<1>1. /\ g.nodes \subseteq Node /\ g.lists \in [Node -> [Layer -> SUBSET (1..k)]]
      /\ DOMAIN g.edges \subseteq 1..k /\ g.edges \in [DOMAIN g.edges -> Edge]
  BY DEF NetOK, Network
<1>2. h = [nodes |-> g.nodes, lists |-> L, edges |-> Without(g.edges, i)]
  BY DEF WithoutEdge
<1>3. e \in Edge /\ e.from \in Node /\ e.to \in Node /\ e.layer \in Layer
  BY <1>1 DEF Edge
<1>4. \A n \in Node, m \in Layer :
        i \in g.lists[n][m] => m = e.layer /\ n \in {e.from, e.to}
  BY DEF NetOK, Listed
<1>5. e.from # e.to BY DEF NetOK, Joined
<1> HIDE DEF h, e
<1>6. /\ K \in Lists(k)
      /\ \A m \in Layer : K[e.from][m] = g.lists[e.from][m] \ {i}
      /\ \A x \in Node \ {e.from}, m \in Layer : K[x][m] = g.lists[x][m]
  <2>1. g.lists \in Lists(k) /\ SingleLayer(g.lists, i, e.from)
    BY <1>1, <1>3, <1>4 DEF SingleLayer, Lists
  <2> QED BY <2>1, <1>3, ErasedOne
<1> HIDE DEF K
<1>7. /\ L \in Lists(k)
      /\ \A m \in Layer : L[e.to][m] = K[e.to][m] \ {i}
      /\ \A x \in Node \ {e.to}, m \in Layer : L[x][m] = K[x][m]
  <2>1. SingleLayer(K, i, e.to)
    BY <1>3, <1>4, <1>5, <1>6 DEF SingleLayer
  <2> QED BY <2>1, <1>3, <1>6, ErasedOne
<1> HIDE DEF L
<1>8. ASSUME NEW n \in Node, NEW m \in Layer PROVE L[n][m] = g.lists[n][m] \ {i}
  <2>1. CASE n = e.from BY <2>1, <1>3, <1>5, <1>6, <1>7
  <2>2. CASE n = e.to BY <2>2, <1>3, <1>5, <1>6, <1>7
  <2>3. CASE n \notin {e.from, e.to}
    <3>1. i \notin g.lists[n][m] BY <2>3, <1>4
    <3> QED BY <2>3, <3>1, <1>6, <1>7
  <2> QED BY <2>1, <2>2, <2>3
<1>9. Lost(g, h, i)
  BY <1>2, <1>8 DEF Lost, Without
<1>10. Network(h, k)
  <2>1. /\ h = [nodes |-> h.nodes, lists |-> h.lists, edges |-> h.edges]
        /\ h.nodes = g.nodes /\ h.lists = L
        /\ h.edges = [j \in DOMAIN g.edges \ {i} |-> g.edges[j]]
    BY <1>2 DEF Without
  <2> QED BY <2>1, <1>1, <1>7 DEF Network, Lists
<1>11. Listed(h)
  BY <1>9 DEF Lost, Listed, NetOK
<1>12. Joined(h)
  <2> SUFFICES ASSUME NEW j \in DOMAIN h.edges
               PROVE  /\ h.edges[j].both /\ h.edges[j].from # h.edges[j].to
                      /\ {h.edges[j].from, h.edges[j].to} \subseteq h.nodes
                      /\ j \in h.lists[h.edges[j].from][h.edges[j].layer]
                      /\ j \in h.lists[h.edges[j].to][h.edges[j].layer]
    BY DEF Joined
  <2> DEFINE f == g.edges[j]
  <2>1. j \in DOMAIN g.edges /\ j # i /\ h.edges[j] = f /\ f \in Edge
    BY <1>1, <1>9 DEF Lost
  <2>2. /\ f.both /\ f.from # f.to /\ {f.from, f.to} \subseteq g.nodes
        /\ j \in g.lists[f.from][f.layer] /\ j \in g.lists[f.to][f.layer]
    BY <2>1 DEF NetOK, Joined
  <2>3. f.from \in Node /\ f.to \in Node /\ f.layer \in Layer
    BY <2>1 DEF Edge
  <2> HIDE DEF f
  <2> QED BY <2>1, <2>2, <2>3, <1>9 DEF Lost
<1>13. Single(h)
  BY <1>9 DEF Lost, Single, NetOK
<1> QED BY <1>9, <1>10, <1>11, <1>12, <1>13 DEF NetOK, h

\* Where there is room nothing goes; otherwise one of the longest does.
Displaced(g, h, n, l) ==
  \E i \in g.lists[n][l] \cap DOMAIN g.edges :
    /\ Lost(g, h, i) /\ Full(g, n, l) /\ \A j \in g.lists[n][l] : Before(g, j, i)

LEMMA ClippedOK ==
  ASSUME NEW k \in Nat, NEW g, NetOK(g, k), NEW n \in Node, NEW l \in Layer,
         NEW h \in Clipped(g, n, l)
  PROVE  NetOK(h, k) /\ (h = g \/ Displaced(g, h, n, l))
<1>1. CASE Full(g, n, l)
  <2>1. PICK i \in g.lists[n][l] :
          h = WithoutEdge(g, i) /\ \A j \in g.lists[n][l] : Before(g, j, i)
    BY <1>1 DEF Clipped
  <2>2. i \in DOMAIN g.edges BY DEF NetOK, Listed
  <2> QED BY <1>1, <2>1, <2>2, WithoutOK DEF Displaced
<1>2. CASE ~Full(g, n, l)
  BY <1>2 DEF Clipped
<1> QED BY <1>1, <1>2

LEMMA NetOKMono ==
  ASSUME NEW k \in Nat, NEW g, NetOK(g, k)
  PROVE  NetOK(g, k + 1)
<1>1. 1..k \subseteq 1..(k + 1) OBVIOUS
<1>2. g.lists \in [Node -> [Layer -> SUBSET (1..(k + 1))]]
  BY <1>1 DEF NetOK, Network
<1> QED BY <1>1, <1>2 DEF NetOK, Network

LEMMA NodesGrow ==
  ASSUME NEW k \in Nat, NEW g, NetOK(g, k), NEW N \in SUBSET Node, g.nodes \subseteq N
  PROVE  /\ NetOK([g EXCEPT !.nodes = N], k)
         /\ [g EXCEPT !.nodes = N].nodes = N
         /\ [g EXCEPT !.nodes = N].edges = g.edges
<1> DEFINE h == [g EXCEPT !.nodes = N]
<1>1. h = [nodes |-> N, lists |-> g.lists, edges |-> g.edges]
  BY DEF NetOK, Network
<1> HIDE DEF h
<1>2. h.nodes = N /\ h.lists = g.lists /\ h.edges = g.edges BY <1>1
<1>3. h = [nodes |-> h.nodes, lists |-> h.lists, edges |-> h.edges] BY <1>1, <1>2
<1>4. Network(h, k) BY <1>2, <1>3 DEF NetOK, Network
<1>5. Listed(h) /\ Single(h) BY <1>2 DEF NetOK, Listed, Single
<1>6. Joined(h) BY <1>2 DEF NetOK, Joined
<1> QED BY <1>2, <1>4, <1>5, <1>6 DEF NetOK, h

\* Linking two nodes keeps all edges there were.
Grown(g, h, i, a, b, info, l) ==
  /\ h.nodes = g.nodes /\ DOMAIN g.edges \subseteq DOMAIN h.edges
  /\ \A j \in DOMAIN g.edges : h.edges[j] = g.edges[j]
  /\ \A j \in DOMAIN h.edges \ DOMAIN g.edges : j = i /\ h.edges[j].info = info
  /\ \A n \in Node, m \in Layer :
       h.lists[n][m] \subseteq g.lists[n][m] \cup (IF m = l /\ n \in {a, b} THEN {i} ELSE {})

LEMMA WithLinkOK ==
  ASSUME NEW k \in Nat, NEW g, NetOK(g, k), NEW a \in g.nodes, NEW b \in g.nodes,
         NEW l \in Layer, NEW info \in Info, a # b
  PROVE  /\ NetOK(WithLink(g, k + 1, a, b, info, l), k + 1)
         /\ Grown(g, WithLink(g, k + 1, a, b, info, l), k + 1, a, b, info, l)
         /\ ~Adds(WithEdge(g, k + 1, a, b, info, l), k + 1, b, a, l)
              => NetOK(WithLink(g, k + 1, a, b, info, l), k)
<1>0. a \in Node /\ b \in Node BY DEF NetOK, Network
<1>1. CASE a \in Linked(g, b, l)
  <2>1. WithLink(g, k + 1, a, b, info, l) = g BY <1>0, <1>1, LinkOld
  <2>2. Grown(g, g, k + 1, a, b, info, l) BY DEF Grown
  <2> QED BY <2>1, <2>2, NetOKMono
<1>2. CASE a \notin Linked(g, b, l)
  <2> DEFINE h == Linking(g, k + 1, a, b, info, l)
  <2>1. /\ WithLink(g, k + 1, a, b, info, l) = h
        /\ Adds(WithEdge(g, k + 1, a, b, info, l), k + 1, b, a, l)
    BY <1>0, <1>2, LinkNew
  <2>2. NetOK(h, k + 1) BY <1>2, LinkingOK
  <2>3. k + 1 \notin DOMAIN g.edges BY DEF NetOK, Network
  <2>4. Grown(g, h, k + 1, a, b, info, l) BY <2>3 DEF Grown, Linking, Put
  <2> QED BY <2>1, <2>2, <2>4
<1> QED BY <1>1, <1>2

-------------------------------------------------------------------------------
(* The invariant *)

JobOK ==
  /\ job = [op |-> job.op, node |-> job.node, level |-> job.level, at |-> job.at,
            ep |-> job.ep, near |-> job.near, todo |-> job.todo]
  /\ job.op = "link" =>
       job.node \in net.nodes /\ job.at \in Layer /\ job.node \notin job.todo
  /\ job.op \in {"add", "erase"} =>
       /\ job.node \in Node /\ job.level \in Layer
       /\ \A t \in job.todo : t \in Layer \X Node \X Node /\ t[2] \in net.nodes
                              /\ t[2] # t[3]

\* No node was saved as its own neighbour.
LayersOK ==
  /\ layers = [l \in Layer |-> layers[l]]
  /\ \A l \in Layer : /\ DOMAIN layers[l] \subseteq Node
                      /\ \A n \in DOMAIN layers[l] : n \notin layers[l][n]

LengthsKnown == ~loaded => \A i \in DOMAIN net.edges : net.edges[i].info # Null

Inv ==
  /\ ids \in Nat /\ NetOK(net, ids) /\ JobOK /\ LayersOK
  /\ cache \in [Layer -> SUBSET Node] /\ LengthsKnown

LEMMA InitInv == HInit => Inv
<1> SUFFICES ASSUME HInit PROVE Inv OBVIOUS
<1>1. ids = 0 /\ net = EmptyNet /\ job = Idle /\ cache = [l \in Layer |-> {}]
      /\ layers = [l \in Layer |-> NoEdges]
  BY DEF HInit
<1>2. NetOK(EmptyNet, 0)
  BY DEF EmptyNet, NoEdges, NetOK, Network, Listed, Joined, Single
<1>3. JobOK BY <1>1 DEF JobOK, Idle
<1>4. LayersOK BY <1>1 DEF LayersOK, NoEdges
<1>5. LengthsKnown BY <1>1 DEF LengthsKnown, EmptyNet, NoEdges
<1> QED BY <1>1, <1>2, <1>3, <1>4, <1>5 DEF Inv

LEMMA SavedOK ==
  ASSUME Inv
  PROVE  /\ Saved = [l \in Layer |-> Saved[l]]
         /\ \A l \in Layer : /\ DOMAIN Saved[l] \subseteq Node
                             /\ \A n \in DOMAIN Saved[l] : n \notin Saved[l][n]
<1>1. Saved = [l \in Layer |-> Saved[l]] BY DEF Saved
<1>2. ASSUME NEW l \in Layer
      PROVE  /\ DOMAIN Saved[l] \subseteq Node
             /\ \A n \in DOMAIN Saved[l] : n \notin Saved[l][n]
  <2> DEFINE now == {n \in cache[l] : Linked(net, n, l) # {}}
  <2>1. Saved[l] = [n \in DOMAIN layers[l] \cup now |->
                      IF n \in now THEN Linked(net, n, l) ELSE layers[l][n]]
    BY DEF Saved
  <2>2. now \subseteq Node BY DEF Inv
  <2>3. ASSUME NEW n \in Node PROVE n \notin Linked(net, n, l)
    <3> SUFFICES ASSUME NEW i \in net.lists[n][l] \cap DOMAIN net.edges,
                        n = Across(net.edges[i], n)
                 PROVE  FALSE
      BY DEF Linked
    <3>1. /\ n \in {net.edges[i].from, net.edges[i].to} /\ net.edges[i].both
          /\ net.edges[i].from # net.edges[i].to
      BY DEF Inv, NetOK, Listed, Joined
    <3> QED BY <3>1 DEF Across
  <2> HIDE DEF now
  <2> QED BY <2>1, <2>2, <2>3 DEF Inv, LayersOK
<1> QED BY <1>1, <1>2

\* No edge is new, and none has changed.
Shrunk(g, h) ==
  /\ h.nodes = g.nodes /\ DOMAIN h.edges \subseteq DOMAIN g.edges
  /\ \A j \in DOMAIN h.edges : h.edges[j] = g.edges[j]
  /\ \A n \in Node, m \in Layer : h.lists[n][m] \subseteq g.lists[n][m]

LEMMA ClippedShrunk ==
  ASSUME NEW k \in Nat, NEW g, NetOK(g, k), NEW n \in Node, NEW l \in Layer,
         NEW h \in Clipped(g, n, l)
  PROVE  NetOK(h, k) /\ Shrunk(g, h)
BY ClippedOK DEF Displaced, Lost, Shrunk

LEMMA LengthOK ==
  ASSUME NEW n \in Node, NEW m \in Node, NEW near
  PROVE  Length(n, m, near) \in Info /\ Length(n, m, near) # Null
BY InfoAssumption, DistAssumption DEF Length

\* The network that one step of Link leaves.
LEMMA LinkNet ==
  ASSUME Inv, job.op = "link", NEW m \in job.todo, ids' = ids + 1,
         LinkTo(job.node, m, job.at)
  PROVE  /\ NetOK(net', ids + 1) /\ net'.nodes = net.nodes
         /\ LengthsKnown => \A i \in DOMAIN net'.edges : loaded \/ net'.edges[i].info # Null
<1> DEFINE n == job.node l == job.at
<1>1. /\ ids \in Nat /\ NetOK(net, ids) /\ n \in net.nodes /\ n \in Node /\ l \in Layer /\ n # m
  BY DEF Inv, JobOK, NetOK, Network
<1>2. CASE net' = net
  BY <1>1, <1>2, NetOKMono DEF LengthsKnown
<1>3. ASSUME NEW g \in Clipped(net, n, l), net' = g
      PROVE  /\ NetOK(net', ids + 1) /\ net'.nodes = net.nodes
             /\ LengthsKnown => \A i \in DOMAIN net'.edges : loaded \/ net'.edges[i].info # Null
  <2>1. NetOK(g, ids) /\ Shrunk(net, g) BY <1>1, ClippedShrunk
  <2> QED BY <2>1, <1>1, <1>3, NetOKMono DEF LengthsKnown, Shrunk
<1>4. ASSUME NEW g \in Clipped(net, n, l), ~ClipThrows(g, m, l),
             NEW h \in Clipped(g, m, l),
             net' = WithLink(h, ids', n, m, Length(n, m, job.near), l)
      PROVE  /\ NetOK(net', ids + 1) /\ net'.nodes = net.nodes
             /\ LengthsKnown => \A i \in DOMAIN net'.edges : loaded \/ net'.edges[i].info # Null
  <2> DEFINE d == Length(n, m, job.near)
  <2>2. NetOK(g, ids) /\ Shrunk(net, g) BY <1>1, ClippedShrunk
  <2>1. m \in net.nodes /\ m \in Node
    BY <1>4, <2>2 DEF ClipThrows, Shrunk, NetOK, Network
  <2>3. NetOK(h, ids) /\ Shrunk(g, h) BY <1>1, <2>1, <2>2, ClippedShrunk
  <2>4. h.nodes = net.nodes BY <2>2, <2>3 DEF Shrunk
  <2>5. d \in Info /\ d # Null BY <1>1, <2>1, LengthOK
  <2> HIDE DEF n, l, d
  <2>6. n \in h.nodes /\ m \in h.nodes BY <1>1, <2>1, <2>4
  <2>7. NetOK(net', ids + 1) /\ Grown(h, net', ids + 1, n, m, d, l)
    BY <1>1, <1>4, <2>3, <2>5, <2>6, WithLinkOK DEF d
  <2>8. LengthsKnown => \A i \in DOMAIN net'.edges : loaded \/ net'.edges[i].info # Null
    BY <2>2, <2>3, <2>5, <2>7 DEF LengthsKnown, Shrunk, Grown
  <2> QED BY <2>4, <2>7, <2>8 DEF Grown
<1> HIDE DEF n, l
<1>5. LinkTo(n, m, l) BY DEF n, l
<1>6. \/ net' = net
      \/ \E g \in Clipped(net, n, l) :
           \/ net' = g
           \/ /\ ~ClipThrows(g, m, l)
              /\ \E h \in Clipped(g, m, l) :
                   net' = WithLink(h, ids', n, m, Length(n, m, job.near), l)
  BY <1>5 DEF LinkTo
<1> QED BY <1>2, <1>3, <1>4, <1>6

LEMMA LinkJob ==
  ASSUME NEW m, LinkTo(job.node, m, job.at)
  PROVE  job' \in {Idle, [job EXCEPT !.todo = @ \ {m}]}
BY DEF LinkTo

LEMMA InLayerOK ==
  ASSUME NEW g, NEW c, NEW n, NEW level, NEW l, NEW ep
  PROVE  LET j == InLayer(g, c, n, level, l, ep)
         IN  /\ j = [op |-> j.op, node |-> j.node, level |-> j.level, at |-> j.at,
                     ep |-> j.ep, near |-> j.near, todo |-> j.todo]
             /\ j.op = "link" /\ j.node = n /\ j.at = l /\ n \notin j.todo
BY DEF InLayer

LEMMA StepInv == Inv /\ [HNext]_hvars => Inv'
<1> SUFFICES ASSUME Inv, [HNext]_hvars PROVE Inv' OBVIOUS
<1>1. CASE UNCHANGED hvars
  BY <1>1 DEF hvars, disk, Inv, JobOK, LayersOK, LengthsKnown
<1>2. CASE Open
  <2>1. Cached(layers) \in [Layer -> SUBSET Node] BY DEF Cached, Inv, LayersOK
  <2>2. cache' \in [Layer -> SUBSET Node] BY <1>2, <2>1 DEF Open
  <2> QED BY <1>2, <2>2 DEF Open, disk, Inv, JobOK, LayersOK, LengthsKnown
<1>3. CASE Save
  <2>1. layers' = Saved \/ layers' = layers BY <1>3 DEF Save
  <2>2. LayersOK' BY <2>1, SavedOK DEF LayersOK, Inv
  <2> QED BY <1>3, <2>2 DEF Save, Inv, JobOK, LengthsKnown
<1>4. CASE Close
  <2>1. ids' = 0 /\ net' = EmptyNet /\ job' = Idle /\ cache' = [l \in Layer |-> {}]
        /\ layers' = layers
    BY <1>4 DEF Close, disk
  <2>2. NetOK(EmptyNet, 0)
    BY DEF EmptyNet, NoEdges, NetOK, Network, Listed, Joined, Single
  <2>3. JobOK' BY <2>1 DEF JobOK, Idle
  <2>4. LayersOK' BY <2>1 DEF LayersOK, Inv
  <2>5. LengthsKnown' BY <2>1 DEF LengthsKnown, EmptyNet, NoEdges
  <2> QED BY <2>1, <2>2, <2>3, <2>4, <2>5 DEF Inv
<1>5. ASSUME NEW op \in {"add", "erase"}, NEW n \in Node, NEW level \in Layer,
             Call(op, n, level)
      PROVE  Inv'
  <2>1. CASE net.nodes = {}
    <3> DEFINE N == SavedNodes(layers)
    <3>1. /\ net' = [net EXCEPT !.nodes = N]
          /\ job' = [op |-> op, node |-> n, level |-> level, at |-> 0, ep |-> NoNode,
                     near |-> {}, todo |-> ToLoad(layers)]
      BY <1>5, <2>1 DEF Call, Idle
    <3>2. N \in SUBSET Node /\ \A l \in Layer : DOMAIN layers[l] \subseteq N
      BY DEF SavedNodes, Inv, LayersOK
    <3> HIDE DEF N
    <3>3. NetOK(net', ids) /\ net'.nodes = N /\ net'.edges = net.edges
      BY <2>1, <3>1, <3>2, NodesGrow DEF Inv
    <3>4. \A t \in ToLoad(layers) : /\ t \in Layer \X Node \X Node
                                    /\ t[2] \in DOMAIN layers[t[1]]
                                    /\ t[3] \in layers[t[1]][t[2]]
      BY DEF ToLoad
    <3>5. \A t \in ToLoad(layers) : t \in Layer \X Node \X Node /\ t[2] \in N /\ t[2] # t[3]
      BY <3>2, <3>4 DEF Inv, LayersOK
    <3>6. JobOK' BY <3>1, <3>3, <3>5 DEF JobOK
    <3> QED BY <1>5, <3>3, <3>6 DEF Call, disk, Inv, LayersOK, LengthsKnown
  <2>2. CASE net.nodes # {}
    <3>1. /\ net' = net
          /\ job' = [op |-> op, node |-> n, level |-> level, at |-> 0, ep |-> NoNode,
                     near |-> {}, todo |-> {}]
      BY <1>5, <2>2 DEF Call, Idle
    <3>2. JobOK' BY <3>1 DEF JobOK
    <3> QED BY <1>5, <3>1, <3>2 DEF Call, disk, Inv, LayersOK, LengthsKnown
  <2> QED BY <2>1, <2>2
<1>6. CASE LoadLink
  <2>1. PICK t \in job.todo :
          LET l == t[1] k == t[2] n == t[3]
              i == ids + 1
              g == WithEdge(net, i, n, k, Null, l)
          IN  IF n \notin net.nodes
              THEN status' = "aborted" /\ UNCHANGED <<net, ids, job, loaded>>
              ELSE /\ net' = WithLink(net, i, n, k, Null, l)
                   /\ ids' = IF Adds(g, i, k, n, l) THEN i ELSE ids
                   /\ job' = [job EXCEPT !.todo = @ \ {t}]
                   /\ loaded' = TRUE
                   /\ UNCHANGED status
    BY <1>6 DEF LoadLink
  <2>2. job.op \in {"add", "erase"} /\ UNCHANGED <<vectors, layers, cache>>
    BY <1>6 DEF LoadLink, disk
  <2>3. /\ t[1] \in Layer /\ t[2] \in net.nodes /\ t[3] \in Node /\ t[2] # t[3]
    BY <2>2 DEF Inv, JobOK
  <2>4. CASE t[3] \notin net.nodes
    BY <2>1, <2>2, <2>4 DEF Inv, JobOK, LayersOK, LengthsKnown
  <2>5. CASE t[3] \in net.nodes
    <3> DEFINE h == WithLink(net, ids + 1, t[3], t[2], Null, t[1])
               adds == Adds(WithEdge(net, ids + 1, t[3], t[2], Null, t[1]), ids + 1,
                            t[2], t[3], t[1])
    <3>1. /\ net' = h /\ loaded' = TRUE /\ job' = [job EXCEPT !.todo = @ \ {t}]
          /\ ids' = IF adds THEN ids + 1 ELSE ids
      BY <2>1, <2>5
    <3>2. /\ NetOK(h, ids + 1) /\ (~adds => NetOK(h, ids))
          /\ Grown(net, h, ids + 1, t[3], t[2], Null, t[1])
      BY <2>3, <2>5, WithLinkOK, InfoAssumption DEF Inv
    <3> HIDE DEF h, adds
    <3>3. ids' \in Nat /\ NetOK(net', ids')
      BY <3>1, <3>2 DEF Inv
    <3>4. net'.nodes = net.nodes BY <3>1, <3>2 DEF Grown
    <3>5. job' = [op |-> job.op, node |-> job.node, level |-> job.level, at |-> job.at,
                  ep |-> job.ep, near |-> job.near, todo |-> job.todo \ {t}]
      BY <3>1 DEF Inv, JobOK
    <3>6. JobOK' BY <2>2, <3>4, <3>5 DEF Inv, JobOK
    <3> QED BY <2>2, <3>1, <3>3, <3>6 DEF Inv, LayersOK, LengthsKnown
  <2> QED BY <2>4, <2>5
<1>7. CASE Erase \/ AddKnown
  <2>1. job' = Idle /\ UNCHANGED <<layers, cache, net, ids, loaded>>
    BY <1>7 DEF Erase, AddKnown, disk
  <2>2. JobOK' BY <2>1 DEF JobOK, Idle
  <2> QED BY <2>1, <2>2 DEF Inv, LayersOK, LengthsKnown
<1>8. CASE AddNew
  <2> DEFINE n == job.node
             g == WithNode(net, n)
             c == [l \in Layer |-> IF l <= job.level THEN cache[l] \cup {n} ELSE cache[l]]
  <2>1. PICK ep : job' = InLayer(g, c, n, job.level, job.level, ep)
    BY <1>8 DEF AddNew
  <2>2. net' = g /\ cache' = c /\ UNCHANGED <<layers, ids, loaded>>
    BY <1>8 DEF AddNew
  <2>3. n \in Node /\ job.level \in Layer /\ net.nodes \subseteq Node
    BY <1>8 DEF AddNew, Ready, Inv, JobOK, NetOK, Network
  <2>4. cache' \in [Layer -> SUBSET Node] BY <2>2, <2>3 DEF Inv
  <2>5. g = [net EXCEPT !.nodes = net.nodes \cup {n}] BY DEF WithNode
  <2> HIDE DEF g, c, n
  <2>6. NetOK(g, ids) /\ g.nodes = net.nodes \cup {n} /\ g.edges = net.edges
    BY <2>3, <2>5, NodesGrow DEF Inv
  <2>7. JobOK' BY <2>1, <2>2, <2>3, <2>6, InLayerOK DEF JobOK
  <2> QED BY <2>2, <2>4, <2>6, <2>7 DEF Inv, LayersOK, LengthsKnown
<1>9. CASE Link
  <2>1. PICK m \in job.todo : LinkTo(job.node, m, job.at)
    BY <1>9 DEF Link
  <2>2. job.op = "link" /\ ids' = ids + 1 /\ UNCHANGED <<layers, cache, loaded>>
    BY <1>9 DEF Link, disk
  <2>3. /\ NetOK(net', ids + 1) /\ net'.nodes = net.nodes
        /\ LengthsKnown => \A i \in DOMAIN net'.edges : loaded \/ net'.edges[i].info # Null
    BY <2>1, <2>2, LinkNet
  <2>4. job' \in {Idle, [job EXCEPT !.todo = @ \ {m}]} BY <2>1, LinkJob
  <2>5. JobOK'
    <3>1. CASE job' = Idle BY <3>1 DEF JobOK, Idle
    <3>2. CASE job' = [job EXCEPT !.todo = @ \ {m}]
      <4>1. job' = [op |-> job.op, node |-> job.node, level |-> job.level, at |-> job.at,
                    ep |-> job.ep, near |-> job.near, todo |-> job.todo \ {m}]
        BY <3>2 DEF Inv, JobOK
      <4> QED BY <2>2, <2>3, <4>1 DEF Inv, JobOK
    <3> QED BY <2>4, <3>1, <3>2
  <2> QED BY <2>2, <2>3, <2>5 DEF Inv, LayersOK, LengthsKnown
<1>10. CASE NextLayer
  <2>1. job.op = "link" /\ UNCHANGED <<layers, cache, net, ids, loaded>>
    BY <1>10 DEF NextLayer, Ready, disk
  <2>2. JobOK'
    <3>1. CASE job.at > 0
      <4>1. job' = InLayer(net, cache, job.node, job.level, job.at - 1, job.ep)
        BY <1>10, <3>1 DEF NextLayer
      <4>2. job.at - 1 \in Layer
        BY <2>1, <3>1, TopAssumption, LayerAssumption DEF Inv, JobOK
      <4> QED BY <2>1, <4>1, <4>2, InLayerOK DEF Inv, JobOK
    <3>2. CASE ~(job.at > 0)
      <4>1. job' = Idle BY <1>10, <3>2 DEF NextLayer
      <4> QED BY <4>1 DEF JobOK, Idle
    <3> QED BY <3>1, <3>2
  <2> QED BY <2>1, <2>2 DEF Inv, LayersOK, LengthsKnown
<1>11. CASE HNext
  <2>1. ASSUME NEW n \in Node, NEW level \in Layer, Call("add", n, level) PROVE Inv'
    BY <1>5, <2>1
  <2>2. ASSUME NEW n \in Node, Call("erase", n, 0) PROVE Inv'
    BY <1>5, <2>2, TopAssumption
  <2> QED BY <1>2, <1>3, <1>4, <1>6, <1>7, <1>8, <1>9, <1>10, <1>11, <2>1, <2>2 DEF HNext
<1> QED BY <1>1, <1>11

LEMMA Invariant == HSpec => []Inv
BY InitInv, StepInv, PTL DEF HSpec

-------------------------------------------------------------------------------
(* Theorems *)

(* The lists of the nodes and the edges of the network always agree: an edge *)
(* is in the lists of its two ends and nowhere else, leads both ways, and is *)
(* the only one of its ends in its layer (addEdge and deleteEdge as          *)
(* addNode2Edge, clipEdgeThenKeepNeighborSize and initNet call them).        *)
THEOREM ListsAlwaysAgree == HSpec => []ListsAgree
<1>1. Inv => ListsAgree BY DEF Inv, NetOK, ListsAgree
<1> QED BY <1>1, Invariant, PTL

\* What a clip removes.
LEMMA ClippedLongest ==
  ASSUME NEW k \in Nat, NEW g, NetOK(g, k), NEW n \in Node, NEW l \in Layer,
         ~ClipThrows(g, n, l), NEW h \in Clipped(g, n, l),
         NEW i \in DOMAIN g.edges \ DOMAIN h.edges
  PROVE  /\ i \in g.lists[n][l] /\ Full(g, n, l)
         /\ \A j \in g.lists[n][l] :
              g.edges[j].info # Null /\ g.edges[j].info <= g.edges[i].info
<1>1. Displaced(g, h, n, l) BY ClippedOK
<1>2. /\ i \in g.lists[n][l] /\ Full(g, n, l)
      /\ \A j \in g.lists[n][l] : Before(g, j, i)
  BY <1>1 DEF Displaced, Lost
<1>3. ASSUME NEW j \in g.lists[n][l] PROVE g.edges[j].info \in Nat
  <2>1. j \in DOMAIN g.edges BY DEF NetOK, Listed
  <2>2. g.edges[j].info \in Info BY <2>1 DEF NetOK, Network, Edge
  <2>3. g.edges[j].info # Null BY <1>2 DEF ClipThrows
  <2> QED BY <2>2, <2>3, InfoAssumption
<1>4. ASSUME NEW j \in g.lists[n][l] PROVE g.edges[j].info <= g.edges[i].info
  BY <1>2, <1>3 DEF Before
<1> QED BY <1>2, <1>3, <1>4, InfoAssumption

\* What OnlyLongestGo says of a step that removes the edge i.
Longest(i) ==
  \E n \in {net.edges[i].from, net.edges[i].to} :
    /\ Cardinality(net.lists[n][net.edges[i].layer]) >= M - 1
    /\ \A j \in net.lists[n][net.edges[i].layer] \cap net'.lists[n][net.edges[i].layer] :
         net.edges[j].info # Null /\ net.edges[j].info <= net.edges[i].info

LEMMA LinkLongest ==
  ASSUME Inv, job.op = "link", NEW m \in job.todo, ids' = ids + 1,
         LinkTo(job.node, m, job.at), NEW i \in DOMAIN net.edges \ DOMAIN net'.edges
  PROVE  Longest(i)
<1> DEFINE n == job.node l == job.at
<1>1. NetOK(net, ids) /\ n \in Node /\ l \in Layer /\ n # m
  BY DEF Inv, JobOK, NetOK, Network
<1>2. ~ClipThrows(net, n, l) BY DEF LinkTo
<1>3. PICK g \in Clipped(net, n, l) :
        \/ net' = g
        \/ /\ ~ClipThrows(g, m, l)
           /\ \E h \in Clipped(g, m, l) :
                net' = WithLink(h, ids', n, m, Length(n, m, job.near), l)
  BY DEF LinkTo
<1> HIDE DEF n, l
<1>4. ASSUME NEW x \in Node, i \in net.lists[x][l], Cardinality(net.lists[x][l]) >= M - 1,
             \A j \in net.lists[x][l] \cap net'.lists[x][l] :
               net.edges[j].info # Null /\ net.edges[j].info <= net.edges[i].info
      PROVE  Longest(i)
  <2>1. net.edges[i].layer = l /\ x \in {net.edges[i].from, net.edges[i].to}
    BY <1>1, <1>4 DEF NetOK, Listed
  <2> QED BY <1>4, <2>1 DEF Longest
<1>5. CASE i \notin DOMAIN g.edges
  <2>1. /\ i \in net.lists[n][l] /\ Full(net, n, l)
        /\ \A j \in net.lists[n][l] :
             net.edges[j].info # Null /\ net.edges[j].info <= net.edges[i].info
    BY <1>1, <1>2, <1>5, ClippedLongest DEF Inv
  <2> QED BY <1>1, <1>4, <2>1 DEF Full
<1>6. CASE i \in DOMAIN g.edges
  <2>1. NetOK(g, ids) /\ Shrunk(net, g) BY <1>1, ClippedShrunk DEF Inv
  <2>2. PICK h \in Clipped(g, m, l) :
          net' = WithLink(h, ids', n, m, Length(n, m, job.near), l)
    BY <1>3, <1>6
  <2>3. ~ClipThrows(g, m, l) BY <1>3, <1>6
  <2>4. m \in net.nodes /\ m \in Node
    BY <2>1, <2>3 DEF ClipThrows, Shrunk, NetOK, Network
  <2>5. NetOK(h, ids) /\ Shrunk(g, h) BY <1>1, <2>1, <2>4, ClippedShrunk DEF Inv
  <2> DEFINE d == Length(n, m, job.near)
  <2>6. d \in Info BY <1>1, <2>4, LengthOK
  <2>7. n \in h.nodes /\ m \in h.nodes
    BY <2>1, <2>4, <2>5 DEF Shrunk, Inv, JobOK, n
  <2> HIDE DEF d
  <2>8. Grown(h, net', ids + 1, n, m, d, l)
    BY <1>1, <2>2, <2>5, <2>6, <2>7, WithLinkOK DEF d, Inv
  <2>9. i \notin DOMAIN h.edges BY <2>8 DEF Grown
  <2>10. /\ i \in g.lists[m][l] /\ Full(g, m, l)
         /\ \A j \in g.lists[m][l] :
              g.edges[j].info # Null /\ g.edges[j].info <= g.edges[i].info
    BY <1>1, <1>6, <2>1, <2>3, <2>4, <2>9, ClippedLongest DEF Inv
  <2>11. Cardinality(net.lists[m][l]) >= M - 1
    <3>1. net.lists[m][l] \subseteq 1..ids /\ ids \in Nat
      BY <1>1, <2>4 DEF Inv, NetOK, Network
    <3>2. IsFiniteSet(net.lists[m][l])
      BY <3>1, FiniteIds, FS_Subset
    <3>3. g.lists[m][l] \subseteq net.lists[m][l] BY <1>1, <2>1, <2>4 DEF Shrunk
    <3>4. /\ IsFiniteSet(g.lists[m][l])
          /\ Cardinality(g.lists[m][l]) <= Cardinality(net.lists[m][l])
      BY <3>2, <3>3, FS_Subset
    <3>5. Cardinality(g.lists[m][l]) \in Nat /\ Cardinality(net.lists[m][l]) \in Nat
      BY <3>2, <3>4, FS_CardinalityType
    <3> QED BY <2>10, <3>4, <3>5, SizeAssumption DEF Full
  <2>12. ASSUME NEW j \in net.lists[m][l] \cap net'.lists[m][l]
         PROVE  net.edges[j].info # Null /\ net.edges[j].info <= net.edges[i].info
    <3>1. j # ids + 1 BY <1>1, <2>4 DEF Inv, NetOK, Network
    <3>2. j \in g.lists[m][l]
      BY <1>1, <2>4, <2>5, <2>8, <3>1 DEF Grown, Shrunk
    <3>3. j \in DOMAIN g.edges BY <1>1, <2>1, <2>4, <3>2 DEF NetOK, Listed
    <3> QED BY <1>6, <2>1, <2>10, <3>2, <3>3 DEF Shrunk
  <2>13. i \in net.lists[m][l] BY <1>1, <2>1, <2>4, <2>10 DEF Shrunk
  <2> QED BY <1>4, <2>4, <2>11, <2>12, <2>13
<1> QED BY <1>5, <1>6

(* What a link displaces is at one end the longest of a full list of edges   *)
(* that know their length, also when both ends have to make room; no other   *)
(* step than closing the object removes an edge                              *)
(* (clipEdgeThenKeepNeighborSize).                                           *)
THEOREM LinksDisplaceTheLongest == HSpec => OnlyLongestGo
<1> DEFINE P == status' = "open" => \A i \in DOMAIN net.edges \ DOMAIN net'.edges : Longest(i)
<1>1. Inv /\ HNext => P
  <2> SUFFICES ASSUME Inv, HNext, status' = "open",
                      NEW i \in DOMAIN net.edges \ DOMAIN net'.edges
               PROVE  Longest(i)
    OBVIOUS
  <2>1. net' # net OBVIOUS
  <2>2. ~Close BY DEF Close
  <2>3. ASSUME NEW op, NEW n, NEW level, Call(op, n, level) PROVE FALSE
    <3>1. net' = [net EXCEPT !.nodes = SavedNodes(layers)] BY <2>1, <2>3 DEF Call
    <3>2. net'.edges = net.edges BY <3>1 DEF Inv, NetOK, Network
    <3> QED BY <3>2
  <2>4. ~AddNew
    <3> SUFFICES ASSUME AddNew PROVE FALSE OBVIOUS
    <3>1. net' = [net EXCEPT !.nodes = @ \cup {job.node}] BY DEF AddNew, WithNode
    <3>2. net'.edges = net.edges BY <3>1 DEF Inv, NetOK, Network
    <3> QED BY <3>2
  <2>5. ~LoadLink
    <3> SUFFICES ASSUME LoadLink PROVE FALSE OBVIOUS
    <3>1. PICK t \in job.todo :
            /\ t[3] \in net.nodes
            /\ net' = WithLink(net, ids + 1, t[3], t[2], Null, t[1])
      BY <2>1 DEF LoadLink
    <3>2. t[1] \in Layer /\ t[2] \in net.nodes /\ t[2] # t[3]
      BY DEF LoadLink, Inv, JobOK
    <3>3. Grown(net, net', ids + 1, t[3], t[2], Null, t[1])
      BY <3>1, <3>2, WithLinkOK, InfoAssumption DEF Inv
    <3> QED BY <3>3 DEF Grown
  <2>6. Link
    BY <2>1, <2>2, <2>3, <2>4, <2>5
       DEF HNext, Open, Save, Erase, AddKnown, NextLayer
  <2>7. PICK m \in job.todo : LinkTo(job.node, m, job.at) BY <2>6 DEF Link
  <2> QED BY <2>6, <2>7, LinkLongest DEF Link
<1>2. Inv /\ [HNext]_hvars => [P]_hvars BY <1>1
<1>3. HSpec => [][P]_hvars BY <1>2, Invariant, PTL DEF HSpec
<1> QED BY <1>3 DEF OnlyLongestGo, Longest

\* After a clip there is room for one more, if the list was not too long before.
LEMMA ClippedRoom ==
  ASSUME NEW k \in Nat, NEW g, NetOK(g, k), NEW n \in Node, NEW l \in Layer,
         NEW h \in Clipped(g, n, l), Cardinality(g.lists[n][l]) < M
  PROVE  Cardinality(h.lists[n][l]) < M - 1
<1>1. IsFiniteSet(g.lists[n][l]) /\ Cardinality(g.lists[n][l]) \in Nat
  <2>1. g.lists[n][l] \subseteq 1..k BY DEF NetOK, Network
  <2>2. IsFiniteSet(1..k) BY FiniteIds
  <2> QED BY <2>1, <2>2, FS_Subset, FS_CardinalityType
<1>2. CASE ~Full(g, n, l)
  BY <1>1, <1>2, SizeAssumption DEF Clipped, Full
<1>3. CASE Full(g, n, l)
  <2>1. PICK i \in g.lists[n][l] : h = WithoutEdge(g, i)
    BY <1>3 DEF Clipped
  <2>2. i \in DOMAIN g.edges BY DEF NetOK, Listed
  <2>3. h.lists[n][l] = g.lists[n][l] \ {i} BY <2>1, <2>2, WithoutOK DEF Lost
  <2>4. Cardinality(g.lists[n][l] \ {i}) = Cardinality(g.lists[n][l]) - 1
    BY <1>1, FS_RemoveElement
  <2> QED BY <1>1, <2>3, <2>4, SizeAssumption
<1> QED BY <1>2, <1>3

\* A list that shrinks, or grows by one where there is room, stays bounded.
LEMMA SmallSet ==
  ASSUME NEW k \in Nat, NEW A, A \subseteq 1..k, NEW B, NEW x, NEW b \in Nat,
         B \subseteq A \cup {x}, Cardinality(A) < b
  PROVE  Cardinality(B) < b + 1 /\ (B \subseteq A => Cardinality(B) < b)
<1>1. IsFiniteSet(A)
  <2>1. IsFiniteSet(1..k) BY FiniteIds
  <2> QED BY <2>1, FS_Subset
<1>2. /\ IsFiniteSet(A \cup {x})
      /\ Cardinality(A \cup {x}) <= Cardinality(A) + 1
  <2>1. /\ IsFiniteSet(A \cup {x}) /\ Cardinality(A) \in Nat
        /\ Cardinality(A \cup {x}) = IF x \in A THEN Cardinality(A) ELSE Cardinality(A) + 1
    BY <1>1, FS_AddElement, FS_CardinalityType
  <2> QED BY <2>1
<1>3. /\ IsFiniteSet(B) /\ Cardinality(B) <= Cardinality(A \cup {x})
      /\ B \subseteq A => Cardinality(B) <= Cardinality(A)
  BY <1>1, <1>2, FS_Subset
<1>4. Cardinality(A) \in Nat /\ Cardinality(B) \in Nat /\ Cardinality(A \cup {x}) \in Nat
  BY <1>1, <1>2, <1>3, FS_CardinalityType
<1> QED BY <1>2, <1>3, <1>4

LEMMA LinkBounded ==
  ASSUME Inv, NeighborsBounded, job.op = "link", NEW m \in job.todo, ids' = ids + 1,
         LinkTo(job.node, m, job.at)
  PROVE  NeighborsBounded'
<1> DEFINE n == job.node l == job.at
<1>1. NetOK(net, ids) /\ ids \in Nat /\ n \in Node /\ l \in Layer /\ n # m
  BY DEF Inv, JobOK, NetOK, Network
<1>2. \/ net' = net
      \/ \E g \in Clipped(net, n, l) :
           \/ net' = g
           \/ /\ ~ClipThrows(g, m, l)
              /\ \E h \in Clipped(g, m, l) :
                   net' = WithLink(h, ids', n, m, Length(n, m, job.near), l)
  BY DEF LinkTo
<1>3. ASSUME NEW x \in Node, NEW q \in Layer
      PROVE  net.lists[x][q] \subseteq 1..ids /\ Cardinality(net.lists[x][q]) < M
  BY <1>1 DEF NeighborsBounded, NetOK, Network
<1>4. CASE net' = net
  BY <1>4 DEF NeighborsBounded
<1>5. ASSUME NEW g \in Clipped(net, n, l), net' = g PROVE NeighborsBounded'
  <2> SUFFICES ASSUME NEW x \in Node, NEW q \in Layer PROVE Cardinality(g.lists[x][q]) < M
    BY <1>5 DEF NeighborsBounded
  <2>1. g.lists[x][q] \subseteq net.lists[x][q] BY <1>1, ClippedShrunk DEF Shrunk
  <2> QED BY <1>1, <1>3, <2>1, SmallSet, SizeAssumption
<1>6. ASSUME NEW g \in Clipped(net, n, l), ~ClipThrows(g, m, l), NEW h \in Clipped(g, m, l),
             net' = WithLink(h, ids', n, m, Length(n, m, job.near), l)
      PROVE  NeighborsBounded'
  <2> DEFINE d == Length(n, m, job.near)
  <2>1. NetOK(g, ids) /\ Shrunk(net, g) BY <1>1, ClippedShrunk
  <2>2. m \in net.nodes /\ m \in Node
    BY <1>1, <1>6, <2>1 DEF ClipThrows, Shrunk, NetOK, Network
  <2>3. NetOK(h, ids) /\ Shrunk(g, h) BY <1>1, <2>1, <2>2, ClippedShrunk
  <2>4. d \in Info BY <1>1, <2>2, LengthOK
  <2>5. n \in h.nodes /\ m \in h.nodes
    BY <2>1, <2>2, <2>3 DEF Shrunk, Inv, JobOK
  <2> HIDE DEF d, n, l
  <2>6. Grown(h, net', ids + 1, n, m, d, l)
    BY <1>1, <1>6, <2>3, <2>4, <2>5, WithLinkOK DEF d
  <2>7. ASSUME NEW x \in Node, NEW q \in Layer
        PROVE  /\ g.lists[x][q] \subseteq 1..ids /\ h.lists[x][q] \subseteq 1..ids
               /\ Cardinality(g.lists[x][q]) < M /\ Cardinality(h.lists[x][q]) < M
               /\ h.lists[x][q] \subseteq g.lists[x][q]
    <3>1. /\ g.lists[x][q] \subseteq net.lists[x][q]
          /\ h.lists[x][q] \subseteq g.lists[x][q]
      BY <2>1, <2>3 DEF Shrunk
    <3>2. Cardinality(g.lists[x][q]) < M
      BY <1>1, <1>3, <3>1, SmallSet, SizeAssumption
    <3>3. g.lists[x][q] \subseteq 1..ids BY <1>3, <3>1
    <3>4. Cardinality(h.lists[x][q]) < M
      BY <1>1, <3>1, <3>2, <3>3, SmallSet, SizeAssumption
    <3> QED BY <3>1, <3>2, <3>3, <3>4
  <2>8. Cardinality(h.lists[m][l]) < M - 1
    BY <1>1, <2>1, <2>2, <2>7, ClippedRoom
  <2>9. Cardinality(h.lists[n][l]) < M - 1
    <3>1. Cardinality(g.lists[n][l]) < M - 1 BY <1>1, <1>3, ClippedRoom
    <3>2. M - 1 \in Nat BY SizeAssumption
    <3> QED BY <1>1, <2>7, <3>1, <3>2, SmallSet
  <2> SUFFICES ASSUME NEW x \in Node, NEW q \in Layer PROVE Cardinality(net'.lists[x][q]) < M
    BY DEF NeighborsBounded
  <2>10. net'.lists[x][q] \subseteq h.lists[x][q] \cup {ids + 1} BY <2>6 DEF Grown
  <2>11. CASE q = l /\ x \in {n, m}
    <3>1. Cardinality(h.lists[x][q]) < M - 1 BY <2>8, <2>9, <2>11
    <3> DEFINE b == M - 1
               A == h.lists[x][q]
               B == net'.lists[x][q]
    <3>2. b \in Nat /\ M = b + 1 BY SizeAssumption
    <3>3. A \subseteq 1..ids /\ B \subseteq A \cup {ids + 1} /\ Cardinality(A) < b
      BY <2>7, <2>10, <3>1
    <3> HIDE DEF A, B, b
    <3>4. Cardinality(B) < b + 1
      BY <1>1, <3>2, <3>3, SmallSet
    <3> QED BY <3>2, <3>4 DEF B
  <2>12. CASE ~(q = l /\ x \in {n, m})
    <3>1. net'.lists[x][q] \subseteq h.lists[x][q]
      BY <2>12, <2>6 DEF Grown
    <3> QED BY <1>1, <2>7, <3>1, SmallSet, SizeAssumption
  <2> QED BY <2>11, <2>12
<1> HIDE DEF n, l
<1> QED BY <1>2, <1>4, <1>5, <1>6

\* A list never gets longer than M - 1 in a network that was not loaded.
Bounded == ~loaded => NeighborsBounded

(* No node has M edges in a layer before links are loaded: the object that   *)
(* only adds keeps to the limit, whatever its searches find                  *)
(* (clipEdgeThenKeepNeighborSize, addNode2Edge).                             *)
THEOREM BoundedUntilLoaded == HSpec => [](~loaded => NeighborsBounded)
<1>1. HInit => Bounded
  <2> SUFFICES ASSUME HInit PROVE NeighborsBounded BY DEF Bounded
  <2>1. \A n \in Node, l \in Layer : net.lists[n][l] = {} BY DEF HInit, EmptyNet
  <2> QED BY <2>1, FS_EmptySet, SizeAssumption DEF NeighborsBounded
<1>2. Inv /\ Bounded /\ [HNext]_hvars => Bounded'
  <2> SUFFICES ASSUME Inv, Bounded, [HNext]_hvars, ~loaded' PROVE NeighborsBounded'
    BY DEF Bounded
  <2>1. CASE net'.lists = net.lists /\ loaded' = loaded
    BY <2>1 DEF Bounded, NeighborsBounded
  <2>2. CASE Close
    <3>1. \A n \in Node, l \in Layer : net'.lists[n][l] = {} BY <2>2 DEF Close, EmptyNet
    <3> QED BY <3>1, FS_EmptySet, SizeAssumption DEF NeighborsBounded
  <2>3. ASSUME NEW op, NEW n, NEW level, Call(op, n, level)
        PROVE  net'.lists = net.lists /\ loaded' = loaded
    <3>1. net' = [net EXCEPT !.nodes = SavedNodes(layers)] \/ net' = net BY <2>3 DEF Call
    <3>2. net'.lists = net.lists BY <3>1 DEF Inv, NetOK, Network
    <3> QED BY <2>3, <3>2 DEF Call
  <2>4. CASE AddNew
    <3>1. net' = [net EXCEPT !.nodes = @ \cup {job.node}] /\ loaded' = loaded
      BY <2>4 DEF AddNew, WithNode
    <3>2. net'.lists = net.lists BY <3>1 DEF Inv, NetOK, Network
    <3> QED BY <2>1, <3>1, <3>2
  <2>5. CASE LoadLink
    <3>1. net' = net /\ loaded' = loaded BY <2>5 DEF LoadLink
    <3> QED BY <2>1, <3>1
  <2>6. CASE Link
    <3>1. PICK m \in job.todo : LinkTo(job.node, m, job.at) BY <2>6 DEF Link
    <3> QED BY <2>6, <3>1, LinkBounded DEF Link, Bounded
  <2>7. CASE Open \/ Save \/ Erase \/ AddKnown \/ NextLayer \/ UNCHANGED hvars
    BY <2>1, <2>7 DEF Open, Save, Erase, AddKnown, NextLayer, hvars
  <2> QED BY <2>1, <2>2, <2>3, <2>4, <2>5, <2>6, <2>7 DEF HNext
<1>3. HSpec => []Bounded BY <1>1, <1>2, Invariant, PTL DEF HSpec
<1> QED BY <1>3 DEF Bounded

-------------------------------------------------------------------------------
(* What a search finds. *)

\* The greatest of finitely many numbers.
LEMMA MaxOf ==
  ASSUME NEW S \in SUBSET Nat, IsFiniteSet(S), S # {}
  PROVE  Max(S) \in S /\ \A x \in S : x <= Max(S)
<1> DEFINE N == Cardinality(S)
<1>1. PICK f \in Bijection(1..N, S) : TRUE
  BY FS_CardinalityType DEF ExistsBijection
<1>2. N \in Nat /\ f \in [1..N -> S] /\ \A x \in S : \E i \in 1..N : f[i] = x
  BY <1>1, FS_CardinalityType DEF Bijection, Injection, Surjection
<1> HIDE DEF N
<1>3. N # 0
  <2>1. PICK x \in S : TRUE
    OBVIOUS
  <2>2. PICK i \in 1..N : f[i] = x
    BY <1>2
  <2>3. QED
    BY <1>2, <2>2
<1> DEFINE T == {m \in 0..N : m = 0 \/ \E y \in S : \A i \in 1..m : f[i] <= y}
<1>4. 0 \in T
  BY <1>2
<1>5. ASSUME NEW m \in 0..(N - 1), m \in T
      PROVE  m + 1 \in T
  <2>1. m + 1 \in 0..N /\ m + 1 \in 1..N /\ f[m + 1] \in S /\ m \in Nat
    BY <1>2
  <2>0. f[m + 1] \in Nat
    BY <2>1
  <2>2. CASE m = 0
    <3>0. \A i \in 1..(m + 1) : i = m + 1
      BY <2>2
    <3>1. \A i \in 1..(m + 1) : f[i] <= f[m + 1]
      BY <2>0, <3>0
    <3>2. QED
      BY <2>1, <3>1
  <2>3. CASE m # 0
    <3>1. PICK y \in S : \A i \in 1..m : f[i] <= y
      BY <1>5, <2>3
    <3> DEFINE z == IF y <= f[m + 1] THEN f[m + 1] ELSE y
    <3>0. y \in Nat
      OBVIOUS
    <3>2. z \in S /\ y <= z /\ f[m + 1] <= z /\ y \in Nat /\ z \in Nat
      BY <2>0, <2>1, <3>0
    <3> HIDE DEF z
    <3>3. ASSUME NEW i \in 1..(m + 1) PROVE f[i] <= z
      <4>1. CASE i = m + 1
        BY <3>2, <4>1
      <4>2. CASE i # m + 1
        <5>1. i \in 1..m /\ i \in 1..N
          BY <1>2, <2>1, <4>2
        <5>2. f[i] \in Nat /\ f[i] <= y
          BY <1>2, <3>1, <5>1
        <5>3. QED
          BY <3>2, <5>2
      <4>3. QED
        BY <4>1, <4>2
    <3>4. QED
      BY <2>1, <3>2, <3>3
  <2>4. QED
    BY <2>2, <2>3
<1>6. 0..N \subseteq T
  <2> HIDE DEF T
  <2>1. QED
    BY <1>2, <1>4, <1>5, UpTo
<1>7. N \in T
  <2> HIDE DEF T
  <2>1. QED
    BY <1>2, <1>6
<1>8. PICK y \in S : \A i \in 1..N : f[i] <= y
  BY <1>3, <1>7
<1>9. \A x \in S : y >= x
  <2> TAKE x \in S
  <2>1. PICK i \in 1..N : f[i] = x
    BY <1>2
  <2>2. x <= y /\ x \in Nat /\ y \in Nat
    BY <1>8, <2>1
  <2>3. QED
    BY <2>2
<1>10. \E x \in S : \A z \in S : x >= z
  BY <1>9
<1>11. Max(S) \in S /\ \A z \in S : Max(S) >= z
  BY <1>10 DEF Max
<1>12. QED
  BY <1>11

LEMMA MinOf ==
  ASSUME NEW S \in SUBSET Nat, S # {}
  PROVE  Min(S) \in S
<1>1. \E x \in S : \A y \in S : x <= y
  BY Least
<1>2. QED
  BY <1>1 DEF Min

\* Maps from distances to nodes of C, and searches that have met only these.
Maps(C) == UNION {[D -> C] : D \in SUBSET Nat}
Searches(C) == [visited : SUBSET C, found : SUBSET C, candidates : Maps(C), W : Maps(C)]

LEMMA MapsOK ==
  ASSUME NEW C, NEW f, f \in Maps(C), NEW d
  PROVE  /\ Without(f, d) \in Maps(C) /\ NoEdges \in Maps(C)
         /\ DOMAIN f \subseteq Nat /\ \A e \in DOMAIN f : f[e] \in C
         /\ f # NoEdges => DOMAIN f # {}
         /\ d \in Nat => \A x \in C : Put(f, d, x) \in Maps(C)
<1>1. PICK D \in SUBSET Nat : f \in [D -> C]
  BY DEF Maps
<1>2. Without(f, d) \in [D \ {d} -> C]
  BY <1>1 DEF Without
<1>3. NoEdges \in [{} -> C]
  BY DEF NoEdges
<1>4. ASSUME d \in Nat, NEW x \in C PROVE Put(f, d, x) \in [D \cup {d} -> C]
  BY <1>1 DEF Put
<1>5. D = {} => f = NoEdges
  BY <1>1 DEF NoEdges
<1>6. /\ Without(f, d) \in Maps(C) /\ NoEdges \in Maps(C)
      /\ \A x \in C : d \in Nat => Put(f, d, x) \in Maps(C)
  <2>1. D \ {d} \in SUBSET Nat /\ {} \in SUBSET Nat /\ (d \in Nat => D \cup {d} \in SUBSET Nat)
    OBVIOUS
  <2>2. QED
    BY <1>2, <1>3, <1>4, <2>1 DEF Maps
<1>7. QED
  BY <1>1, <1>5, <1>6

\* What meeting x makes of a search.
Meets(C, q, far, s, t, x) ==
  /\ t \in Searches(C) /\ s.found \subseteq t.found /\ t.visited \subseteq s.visited \cup {x}
  /\ x \notin s.visited /\ ~(Dist[q][x] > far) => x \in t.found

LEMMA MetOK ==
  ASSUME NEW C, C \subseteq Node, NEW q, q \in Node, NEW x, x \in C, NEW s, s \in Searches(C),
         NEW topK, NEW far
  PROVE  Meets(C, q, far, s, Met(q, topK, far, s, x), x)
<1> DEFINE d == Dist[q][x]
           W == Put(s.W, d, x)
           less == IF Cardinality(DOMAIN W) > topK THEN Without(W, Max(DOMAIN W)) ELSE W
           seen == [s EXCEPT !.visited = @ \cup {x}]
           more == [visited |-> s.visited \cup {x}, found |-> s.found \cup {x},
                    candidates |-> Put(s.candidates, d, x), W |-> less]
<1>1. /\ s \in [visited : SUBSET C, found : SUBSET C, candidates : Maps(C), W : Maps(C)]
      /\ d \in Nat
  BY DistAssumption DEF Searches
<1> HIDE DEF d
<1>2. Met(q, topK, far, s, x) =
        IF x \in s.visited THEN s
        ELSE IF d > far /\ Cardinality(DOMAIN s.W) >= topK THEN seen ELSE more
  BY Zenon DEF Met, d
<1>3. W \in Maps(C) /\ Put(s.candidates, d, x) \in Maps(C)
  BY <1>1, MapsOK
<1> HIDE DEF W
<1>4. less \in Maps(C)
  BY <1>3, MapsOK
<1> HIDE DEF less
<1>5. more \in Searches(C) /\ more.found = s.found \cup {x} /\ more.visited = s.visited \cup {x}
  BY <1>1, <1>3, <1>4 DEF Searches
<1>6. seen \in Searches(C) /\ seen.found = s.found /\ seen.visited = s.visited \cup {x}
  BY <1>1 DEF Searches
<1> HIDE DEF seen, more
<1>7. Meets(C, q, far, s, s, x) \/ x \notin s.visited
  BY DEF Meets
<1>8. Meets(C, q, far, s, more, x)
  BY <1>5 DEF Meets
<1>9. d > far => Meets(C, q, far, s, seen, x)
  BY <1>6 DEF Meets, d
<1>10. CASE x \in s.visited
  BY <1>2, <1>7, <1>10
<1>11. CASE x \notin s.visited /\ d > far /\ Cardinality(DOMAIN s.W) >= topK
  BY <1>2, <1>9, <1>11
<1>12. CASE x \notin s.visited /\ ~(d > far /\ Cardinality(DOMAIN s.W) >= topK)
  <2>1. Met(q, topK, far, s, x) = more
    BY <1>2, <1>12, Zenon
  <2>2. QED
    BY <1>8, <2>1
<1>13. QED
  BY <1>10, <1>11, <1>12

\* A set of nodes that the neighbours in a layer do not lead out of.
Closed(g, saved, l, C) ==
  C \subseteq Node /\ \A x \in C : Neighborhood(g, saved, x, l) \subseteq C

\* How a search begins.
Start(q, ep) ==
  [visited |-> {}, candidates |-> Put(NoEdges, Dist[q][ep], ep),
   W |-> Put(NoEdges, Dist[q][ep], ep), found |-> {}]

\* One step more, and the first step finds the entry point.
Expands(C, q, s, t) ==
  /\ t \in Searches(C) /\ s.found \subseteq t.found
  /\ \A ep \in C : s = Start(q, ep) => ep \in t.found

LEMMA StartOK ==
  ASSUME NEW C, C \subseteq Node, NEW q, q \in Node, NEW ep, ep \in C
  PROVE  /\ Start(q, ep) \in Searches(C)
         /\ Start(q, ep).candidates # NoEdges /\ Start(q, ep).visited = {}
         /\ DOMAIN Start(q, ep).candidates = {Dist[q][ep]}
         /\ DOMAIN Start(q, ep).W = {Dist[q][ep]}
         /\ Start(q, ep).candidates[Dist[q][ep]] = ep
<1> DEFINE d == Dist[q][ep]
           f == Put(NoEdges, d, ep)
<1>1. d \in Nat
  BY DistAssumption
<1> HIDE DEF d
<1>2. f \in Maps(C) /\ DOMAIN f = {d} /\ f[d] = ep
  <2>1. f = [x \in {d} |-> ep]
    BY DEF Put, NoEdges
  <2>2. {d} \in SUBSET Nat
    BY <1>1
  <2>3. QED
    BY <2>1, <2>2 DEF Maps
<1>3. f # NoEdges
  BY <1>2 DEF NoEdges
<1> HIDE DEF f
<1>4. Start(q, ep) = [visited |-> {}, candidates |-> f, W |-> f, found |-> {}]
  BY DEF Start, f, d
<1>5. QED
  BY <1>2, <1>3, <1>4 DEF Searches, d

LEMMA OneDistance ==
  ASSUME NEW d \in Nat
  PROVE  Min({d}) = d /\ Max({d}) = d
<1>1. {d} \in SUBSET Nat /\ IsFiniteSet({d})
  BY FS_Singleton
<1>2. QED
  BY <1>1, MinOf, MaxOf

LEMMA ExpandOK ==
  ASSUME NEW g, NEW saved, NEW q, NEW topK, NEW l, NEW C, NEW s,
         Closed(g, saved, l, C), q \in Node, s \in Searches(C)
  PROVE  Expands(C, q, s, Expand(g, saved, q, topK, l, s))
<1> DEFINE d == Min(DOMAIN s.candidates)
           x == s.candidates[d]
           far == Max(DOMAIN s.W)
           next == Neighborhood(g, saved, x, l) \cup {x}
           B == Max(next) + 1
           a == [s EXCEPT !.candidates = Without(@, d)]
           none == [s EXCEPT !.candidates = NoEdges]
           P(h) == h = [k \in 0..B |-> IF k = 0 THEN a
                                       ELSE IF k - 1 \in next THEN Met(q, topK, far, h[k - 1], k - 1)
                                       ELSE h[k - 1]]
           u == CHOOSE h : P(h)
<1>0. /\ s \in [visited : SUBSET C, found : SUBSET C, candidates : Maps(C), W : Maps(C)]
      /\ C \subseteq Node
  BY DEF Searches, Closed
<1>1. Expand(g, saved, q, topK, l, s) =
        IF s.candidates = NoEdges THEN s ELSE IF d > far THEN none ELSE u[B]
  BY DEF Expand
<1>2. \A ep \in C : s = Start(q, ep) =>
        s.candidates # NoEdges /\ d = Dist[q][ep] /\ far = d /\ x = ep /\ s.visited = {} /\ d \in Nat
  <2> TAKE ep \in C
  <2>1. Dist[q][ep] \in Nat
    BY <1>0, DistAssumption
  <2>2. QED
    BY <1>0, <2>1, StartOK, OneDistance
<1>3. CASE s.candidates = NoEdges
  <2>1. Expand(g, saved, q, topK, l, s) = s
    BY <1>1, <1>3, Zenon
  <2>2. QED
    BY <1>2, <1>3, <2>1 DEF Expands
<1>4. CASE s.candidates # NoEdges /\ d > far
  <2>1. Expand(g, saved, q, topK, l, s) = none
    BY <1>1, <1>4, Zenon
  <2>2. none \in Searches(C) /\ none.found = s.found
    BY <1>0, MapsOK DEF Searches
  <2>3. \A ep \in C : s # Start(q, ep)
    BY <1>2, <1>4
  <2>4. QED
    BY <2>1, <2>2, <2>3 DEF Expands
<1>5. CASE s.candidates # NoEdges /\ ~(d > far)
  <2>1. Expand(g, saved, q, topK, l, s) = u[B]
    BY <1>1, <1>5, Zenon
  <2>2. d \in DOMAIN s.candidates /\ d \in Nat /\ x \in C
    <3>1. DOMAIN s.candidates \in SUBSET Nat /\ DOMAIN s.candidates # {}
      BY <1>0, <1>5, MapsOK
    <3>2. d \in DOMAIN s.candidates
      BY <3>1, MinOf
    <3>3. QED
      BY <1>0, <3>1, <3>2, MapsOK
  <2>3. a \in Searches(C) /\ a.found = s.found /\ a.visited = s.visited
    BY <1>0, MapsOK DEF Searches
  <2> HIDE DEF d, far, x, a
  <2>4. x \in next /\ next \subseteq C
    BY <2>2 DEF Closed
  <2>5. Max(next) \in next /\ Max(next) \in Nat /\ (\A y \in next : y <= Max(next)) /\ next \subseteq Nat
    <3>1. next \in SUBSET Nat /\ IsFiniteSet(next)
      BY <1>0, <2>4, NodeAssumption, FS_Subset
    <3>2. QED
      BY <2>4, <3>1, MaxOf
  <2> HIDE DEF next
  <2>6. B \in Nat /\ x + 1 \in 0..B /\ x \in Nat
    BY <2>4, <2>5
  <2> HIDE DEF B
  <2>7. \E h : P(h)
    <3> DEFINE S == Searches(C)
               f == [z \in (1..B) \X S |-> IF z[1] - 1 \in next THEN Met(q, topK, far, z[2], z[1] - 1)
                                           ELSE z[2]]
    <3>1. \A z \in (1..B) \X S :
            (IF z[1] - 1 \in next THEN Met(q, topK, far, z[2], z[1] - 1) ELSE z[2]) \in S
      <4> TAKE z \in (1..B) \X S
      <4>1. z[1] - 1 \in next => Met(q, topK, far, z[2], z[1] - 1) \in S
        BY <1>0, <2>4, MetOK DEF Meets
      <4>2. z[2] \in S
        OBVIOUS
      <4>3. QED
        BY <4>1, <4>2, Zenon
    <3>2. f \in Steps(S, B)
      BY <3>1 DEF Steps
    <3>3. \A k \in 1..B : \A y \in S : f[<<k, y>>] = IF k - 1 \in next THEN Met(q, topK, far, y, k - 1) ELSE y
      OBVIOUS
    <3> HIDE DEF f, S
    <3>4. PICK r : IsRun(r, S, a, B, f)
      BY <2>3, <2>6, <3>2, Recursion DEF S
    <3>5. \A k \in 1..B : r[k] = IF k - 1 \in next THEN Met(q, topK, far, r[k - 1], k - 1) ELSE r[k - 1]
      <4> TAKE k \in 1..B
      <4>1. k - 1 \in 0..B
        BY <2>6
      <4>2. r[k - 1] \in S /\ r[k] = f[<<k, r[k - 1]>>]
        BY <3>4, <4>1 DEF IsRun
      <4>3. QED
        BY <3>3, <4>2
    <3>6. r = [k \in 0..B |-> r[k]] /\ r[0] = a
      BY <3>4 DEF IsRun
    <3>7. \A k \in 0..B : k = 0 \/ k \in 1..B
      BY <2>6
    <3>8. \A k \in 0..B : r[k] = IF k = 0 THEN a
                                 ELSE IF k - 1 \in next THEN Met(q, topK, far, r[k - 1], k - 1)
                                 ELSE r[k - 1]
      BY <3>5, <3>6, <3>7
    <3>9. P(r)
      BY <3>6, <3>8
    <3>10. QED
      BY <3>9
  <2>8. P(u)
    <3> HIDE DEF P
    <3>1. QED
      BY <2>7
  <2> HIDE DEF u
  <2>9. /\ u[0] = a
        /\ \A k \in 1..B : u[k] = IF k - 1 \in next THEN Met(q, topK, far, u[k - 1], k - 1) ELSE u[k - 1]
    <3>1. 0 \in 0..B /\ \A k \in 1..B : k \in 0..B /\ k # 0
      BY <2>6
    <3>2. \A k \in 0..B : u[k] = IF k = 0 THEN a
                                 ELSE IF k - 1 \in next THEN Met(q, topK, far, u[k - 1], k - 1)
                                 ELSE u[k - 1]
      BY <2>8, Zenon
    <3> HIDE DEF P
    <3>3. QED
      BY <3>1, <3>2, Zenon
  <2> HIDE DEF P
  <2> DEFINE Fine(k) == /\ u[k] \in Searches(C) /\ s.found \subseteq u[k].found
                        /\ u[k].visited \subseteq s.visited \cup (0..(k - 1))
                        /\ x + 1 <= k /\ s.visited = {} /\ ~(Dist[q][x] > far) => x \in u[k].found
             T == {k \in 0..B : Fine(k)}
  <2>10. 0 \in T
    BY <2>3, <2>6, <2>9
  <2>11. ASSUME NEW m \in 0..(B - 1), m \in T
         PROVE  m + 1 \in T
    <3>1. m + 1 \in 1..B /\ m + 1 \in 0..B /\ (m + 1) - 1 = m /\ m \in Nat
      BY <2>6
    <3>2. u[m + 1] = IF m \in next THEN Met(q, topK, far, u[m], m) ELSE u[m]
      BY <2>9, <3>1
    <3>3. Fine(m)
      BY <2>11
    <3>4. CASE m \in next
      <4>1. u[m + 1] = Met(q, topK, far, u[m], m)
        BY <3>2, <3>4
      <4>2. Meets(C, q, far, u[m], u[m + 1], m)
        BY <1>0, <2>4, <3>3, <3>4, <4>1, MetOK
      <4>3. s.visited = {} => m \notin u[m].visited
        BY <3>1, <3>3
      <4>4. /\ u[m + 1] \in Searches(C) /\ u[m].found \subseteq u[m + 1].found
            /\ u[m + 1].visited \subseteq u[m].visited \cup {m}
            /\ m \notin u[m].visited /\ ~(Dist[q][m] > far) => m \in u[m + 1].found
        BY <4>2 DEF Meets
      <4>5. x + 1 <= m + 1 /\ s.visited = {} /\ ~(Dist[q][x] > far) => x \in u[m + 1].found
        <5>1. x + 1 <= m + 1 => x = m \/ x + 1 <= m
          BY <2>6, <3>1
        <5>2. QED
          BY <3>3, <4>3, <4>4, <5>1
      <4>6. u[m + 1].visited \subseteq s.visited \cup (0..((m + 1) - 1))
        BY <3>1, <3>3, <4>4
      <4>7. QED
        BY <3>1, <3>3, <4>4, <4>5, <4>6
    <3>5. CASE m \notin next
      <4>1. u[m + 1] = u[m]
        BY <3>2, <3>5
      <4>2. x # m
        BY <2>4, <3>5
      <4>3. x + 1 <= m + 1 => x + 1 <= m
        BY <2>6, <3>1, <4>2
      <4>4. 0..(m - 1) \subseteq 0..((m + 1) - 1)
        BY <3>1
      <4>5. QED
        BY <3>1, <3>3, <4>1, <4>3, <4>4
    <3>6. QED
      BY <3>4, <3>5
  <2>12. 0..B \subseteq T
    <3> HIDE DEF T
    <3>1. QED
      BY <2>6, <2>10, <2>11, UpTo
  <2>13. Fine(B)
    BY <2>6, <2>12
  <2>14. \A ep \in C : s = Start(q, ep) => ep \in u[B].found
    <3> SUFFICES ASSUME NEW ep \in C, s = Start(q, ep) PROVE ep \in u[B].found
      OBVIOUS
    <3>1. x = ep /\ s.visited = {} /\ far = Dist[q][x] /\ far \in Nat
      BY <1>2 DEF d, x, far
    <3>2. ~(Dist[q][x] > far) /\ x + 1 <= B
      BY <2>6, <3>1
    <3>3. QED
      BY <2>13, <3>1, <3>2
  <2>15. QED
    BY <2>1, <2>13, <2>14 DEF Expands
<1>6. QED
  BY <1>3, <1>4, <1>5

\* A search in a layer finds its entry point, and stays in a closed set.
LEMMA QueryLayerOK ==
  ASSUME NEW g, NEW saved, NEW q, NEW ep, NEW topK, NEW l, NEW C,
         Closed(g, saved, l, C), q \in Node, ep \in C
  PROVE  ep \in QueryLayer(g, saved, q, ep, topK, l) /\ QueryLayer(g, saved, q, ep, topK, l) \subseteq C
<1> DEFINE B == Cardinality(Node) + 1
           a == Start(q, ep)
           P(h) == h = [k \in 0..B |-> IF k = 0 THEN a ELSE Expand(g, saved, q, topK, l, h[k - 1])]
           u == CHOOSE h : P(h)
<1>1. QueryLayer(g, saved, q, ep, topK, l) = u[B].found
  BY DEF QueryLayer, Start
<1>2. B \in Nat /\ 1 \in 1..B /\ B \in 0..B
  BY NodeAssumption, FS_CardinalityType
<1>3. C \subseteq Node
  BY DEF Closed
<1>4. a \in Searches(C)
  BY <1>3, StartOK
<1> HIDE DEF B, a
<1>5. \E h : P(h)
  <2> DEFINE S == Searches(C)
             f == [z \in (1..B) \X S |-> Expand(g, saved, q, topK, l, z[2])]
  <2>1. \A z \in (1..B) \X S : Expand(g, saved, q, topK, l, z[2]) \in S
    BY ExpandOK DEF Expands
  <2>2. f \in Steps(S, B)
    BY <2>1 DEF Steps
  <2>3. \A k \in 1..B : \A y \in S : f[<<k, y>>] = Expand(g, saved, q, topK, l, y)
    OBVIOUS
  <2> HIDE DEF f, S
  <2>4. PICK r : IsRun(r, S, a, B, f)
    BY <1>2, <1>4, <2>2, Recursion DEF S
  <2>5. \A k \in 1..B : r[k] = Expand(g, saved, q, topK, l, r[k - 1])
    <3> TAKE k \in 1..B
    <3>1. k - 1 \in 0..B
      BY <1>2
    <3>2. r[k - 1] \in S /\ r[k] = f[<<k, r[k - 1]>>]
      BY <2>4, <3>1 DEF IsRun
    <3>3. QED
      BY <2>3, <3>2
  <2>6. r = [k \in 0..B |-> r[k]] /\ r[0] = a
    BY <2>4 DEF IsRun
  <2>7. \A k \in 0..B : k = 0 \/ k \in 1..B
    BY <1>2
  <2>8. \A k \in 0..B : r[k] = IF k = 0 THEN a ELSE Expand(g, saved, q, topK, l, r[k - 1])
    BY <2>5, <2>6, <2>7
  <2>9. P(r)
    BY <2>6, <2>8
  <2>10. QED
    BY <2>9
<1>6. P(u)
  <2> HIDE DEF P
  <2>1. QED
    BY <1>5
<1> HIDE DEF u
<1>7. u[0] = a /\ \A k \in 1..B : u[k] = Expand(g, saved, q, topK, l, u[k - 1])
  <2>1. 0 \in 0..B /\ \A k \in 1..B : k \in 0..B /\ k # 0
    BY <1>2
  <2>2. \A k \in 0..B : u[k] = IF k = 0 THEN a ELSE Expand(g, saved, q, topK, l, u[k - 1])
    BY <1>6, Zenon
  <2> HIDE DEF P
  <2>3. QED
    BY <2>1, <2>2, Zenon
<1> HIDE DEF P
<1> DEFINE T == {k \in 0..B : u[k] \in Searches(C) /\ (k # 0 => ep \in u[k].found)}
<1>8. 0 \in T
  BY <1>2, <1>4, <1>7
<1>9. ASSUME NEW m \in 0..(B - 1), m \in T
      PROVE  m + 1 \in T
  <2>1. m + 1 \in 1..B /\ m + 1 \in 0..B /\ (m + 1) - 1 = m
    BY <1>2
  <2>2. u[m + 1] = Expand(g, saved, q, topK, l, u[m]) /\ u[m] \in Searches(C)
    BY <1>7, <1>9, <2>1
  <2>3. Expands(C, q, u[m], u[m + 1])
    BY <2>2, ExpandOK
  <2>4. /\ u[m + 1] \in Searches(C) /\ u[m].found \subseteq u[m + 1].found
        /\ u[m] = a => ep \in u[m + 1].found
    BY <2>3 DEF Expands, a
  <2>5. m = 0 \/ ep \in u[m].found
    BY <1>9
  <2>6. QED
    BY <1>7, <2>1, <2>4, <2>5
<1>10. 0..B \subseteq T
  <2> HIDE DEF T
  <2>1. QED
    BY <1>2, <1>8, <1>9, UpTo
<1>11. u[B] \in Searches(C) /\ ep \in u[B].found
  BY <1>2, <1>10
<1>12. QED
  BY <1>1, <1>11 DEF Searches

\* What a search starts from in layers that were saved.
Kept(saved) == {l \in Layer : DOMAIN saved[l] # {}}

\* An index answers nodes it holds, and some node if anything was saved.
LEMMA AnswerOK ==
  ASSUME NEW g, NEW saved, NEW q, NEW topK, NEW C, q \in Node,
         \A l \in Layer : Closed(g, saved, l, C),
         \A l \in Layer : DOMAIN saved[l] \subseteq C,
         \A l \in Layer : \A n \in DOMAIN saved[l] : saved[l][n] # {} /\ saved[l][n] \subseteq C
  PROVE  /\ Answer(g, saved, q, topK) \subseteq C
         /\ Kept(saved) # {} => Answer(g, saved, q, topK) # {}
<1> DEFINE kept == {l \in Layer : DOMAIN saved[l] # {}}
           top == Max(kept)
           start == Min(saved[top][Min(DOMAIN saved[top])])
           Next(k, x) == Min(QueryLayer(g, saved, q, x, topK, top - (k - 1)))
           P(h) == h = [k \in 0..top |-> IF k = 0 THEN start
                                         ELSE Min(QueryLayer(g, saved, q, h[k - 1], topK, top - (k - 1)))]
           u == CHOOSE h : P(h)
<1>1. Answer(g, saved, q, topK) =
        IF kept = {} THEN {} ELSE QueryLayer(g, saved, q, u[top], topK, 0)
  BY DEF Answer
<1>2. CASE kept = {}
  BY <1>1, <1>2 DEF Kept
<1>3. CASE kept # {}
  <2>1. top \in kept /\ top \in Nat
    <3>1. kept \in SUBSET Nat /\ IsFiniteSet(kept)
      BY LayerAssumption, TopAssumption, FS_Subset
    <3>2. QED
      BY <1>3, <3>1, MaxOf
  <2>2. C \subseteq Nat /\ C \subseteq Node
    BY NodeAssumption, TopAssumption DEF Closed
  <2>3. start \in C
    <3>1. DOMAIN saved[top] \in SUBSET Nat /\ DOMAIN saved[top] # {}
      BY <2>1, <2>2
    <3>2. Min(DOMAIN saved[top]) \in DOMAIN saved[top]
      BY <3>1, MinOf
    <3> DEFINE R == saved[top][Min(DOMAIN saved[top])]
    <3>3. R \in SUBSET Nat /\ R # {} /\ R \subseteq C
      BY <2>1, <2>2, <3>2
    <3> HIDE DEF R
    <3>4. Min(R) \in C
      BY <3>3, MinOf
    <3>5. QED
      BY <3>4 DEF R
  <2> HIDE DEF top, start
  <2>4. \A k \in 1..top : \A x \in C : Next(k, x) \in C
    <3> TAKE k \in 1..top
    <3> TAKE x \in C
    <3>1. top - (k - 1) \in Layer
      <4>1. top - (k - 1) \in 0..top /\ top \in Layer
        BY <2>1
      <4>2. QED
        BY <4>1, TopAssumption
    <3> DEFINE Q == QueryLayer(g, saved, q, x, topK, top - (k - 1))
    <3>2. x \in Q /\ Q \subseteq C
      BY <3>1, QueryLayerOK
    <3> HIDE DEF Q
    <3>3. Min(Q) \in C
      BY <2>2, <3>2, MinOf
    <3>4. QED
      BY <3>3 DEF Q
  <2>5. \E h : P(h)
    <3> DEFINE f == [z \in (1..top) \X C |-> Next(z[1], z[2])]
    <3>1. f \in Steps(C, top)
      <4>1. \A z \in (1..top) \X C : Next(z[1], z[2]) \in C
        <5> HIDE DEF Next
        <5>1. QED
          BY <2>4
      <4> HIDE DEF Next
      <4>2. QED
        BY <4>1 DEF Steps
    <3>2. \A k \in 1..top : \A y \in C : f[<<k, y>>] = Next(k, y)
      OBVIOUS
    <3> HIDE DEF f
    <3>3. PICK r : IsRun(r, C, start, top, f)
      BY <2>1, <2>3, <3>1, Recursion
    <3> HIDE DEF Next
    <3>4. \A k \in 1..top : r[k] = Next(k, r[k - 1])
      <4> TAKE k \in 1..top
      <4>1. k - 1 \in 0..top
        BY <2>1
      <4>2. r[k - 1] \in C /\ r[k] = f[<<k, r[k - 1]>>]
        BY <3>3, <4>1 DEF IsRun
      <4>3. QED
        BY <3>2, <4>2
    <3>5. r = [k \in 0..top |-> r[k]] /\ r[0] = start
      BY <3>3 DEF IsRun
    <3>6. \A k \in 0..top : k = 0 \/ k \in 1..top
      BY <2>1
    <3>7. \A k \in 0..top : r[k] = IF k = 0 THEN start ELSE Next(k, r[k - 1])
      BY <3>4, <3>5, <3>6
    <3>8. r = [k \in 0..top |-> IF k = 0 THEN start ELSE Next(k, r[k - 1])]
      BY <3>5, <3>7
    <3>9. P(r)
      BY <3>8 DEF Next
    <3>10. QED
      BY <3>9
  <2>6. P(u)
    <3> HIDE DEF P
    <3>1. QED
      BY <2>5
  <2> HIDE DEF u
  <2>7. u[0] = start /\ \A k \in 1..top : u[k] = Next(k, u[k - 1])
    <3>1. 0 \in 0..top /\ \A k \in 1..top : k \in 0..top /\ k # 0
      BY <2>1
    <3>2. \A k \in 0..top : u[k] = IF k = 0 THEN start
                                   ELSE Min(QueryLayer(g, saved, q, u[k - 1], topK, top - (k - 1)))
      BY <2>6, Zenon
    <3> HIDE DEF P
    <3>3. QED
      BY <3>1, <3>2, Zenon
  <2> HIDE DEF P
  <2> DEFINE T == {k \in 0..top : u[k] \in C}
  <2>8. 0 \in T
    BY <2>1, <2>3, <2>7
  <2>9. ASSUME NEW m \in 0..(top - 1), m \in T
        PROVE  m + 1 \in T
    <3>1. m + 1 \in 1..top /\ m + 1 \in 0..top /\ (m + 1) - 1 = m
      BY <2>1
    <3> HIDE DEF Next
    <3>2. u[m + 1] = Next(m + 1, u[m]) /\ u[m] \in C
      BY <2>7, <2>9, <3>1
    <3>3. QED
      BY <2>4, <3>1, <3>2
  <2>10. 0..top \subseteq T
    <3> HIDE DEF T
    <3>1. QED
      BY <2>1, <2>8, <2>9, UpTo
  <2>11. u[top] \in C
    BY <2>1, <2>10
  <2>12. /\ u[top] \in QueryLayer(g, saved, q, u[top], topK, 0)
         /\ QueryLayer(g, saved, q, u[top], topK, 0) \subseteq C
    BY <2>11, QueryLayerOK, TopAssumption
  <2>13. QED
    BY <1>1, <1>3, <2>12
<1>4. QED
  BY <1>2, <1>3

-------------------------------------------------------------------------------
(* What is stored, saved and loaded. *)

LEMMA LinkedNodes ==
  ASSUME NEW k, NEW g, NetOK(g, k), NEW n \in Node, NEW l \in Layer
  PROVE  Linked(g, n, l) \subseteq g.nodes \ {n}
<1> SUFFICES ASSUME NEW i \in g.lists[n][l] \cap DOMAIN g.edges
             PROVE  Across(g.edges[i], n) \in g.nodes \ {n}
  BY DEF Linked
<1>1. /\ n \in {g.edges[i].from, g.edges[i].to} /\ g.edges[i].both
      /\ g.edges[i].from # g.edges[i].to
      /\ g.edges[i].from \in g.nodes /\ g.edges[i].to \in g.nodes
  BY DEF NetOK, Listed, Joined
<1>2. QED
  BY <1>1 DEF Across

\* A search in a network that has nodes stays among them.
LEMMA NetClosed ==
  ASSUME NEW k, NEW g, NetOK(g, k), g.nodes # {}, NEW saved, NEW l \in Layer
  PROVE  Closed(g, saved, l, g.nodes)
<1>1. g.nodes \subseteq Node
  BY DEF NetOK, Network
<1>2. ASSUME NEW x \in g.nodes
      PROVE  Neighborhood(g, saved, x, l) \subseteq g.nodes
  BY <1>1, LinkedNodes DEF Neighborhood, Neighbors
<1>3. QED
  BY <1>1, <1>2 DEF Closed

\* The vectors C hold all that the layers name.
LayersIn(saved, C) ==
  \A l \in Layer : /\ DOMAIN saved[l] \subseteq C
                   /\ \A n \in DOMAIN saved[l] : saved[l][n] # {} /\ saved[l][n] \subseteq C

LEMMA SavedClosed ==
  ASSUME NEW g, g.nodes = {}, NEW saved, NEW C, C \subseteq Node, LayersIn(saved, C),
         NEW l \in Layer
  PROVE  Closed(g, saved, l, C)
BY DEF LayersIn, Closed, Neighborhood

Calls == {"add", "erase"}

\* A saved neighbour that save wrote nowhere.
SomeLost == \E n \in vectors : \A l \in Layer : n \notin DOMAIN layers[l]

Recorded ==
  /\ vectors \subseteq Node /\ net.nodes \subseteq vectors
  /\ \A l \in Layer : cache[l] \subseteq vectors
  /\ LayersIn(layers, vectors)
  /\ status = "aborted" => job.op \in Calls /\ job.todo # {} /\ SomeLost

\* What a call has still to load, and from what.
LoadOK ==
  /\ job.op \in Calls => job.todo \subseteq ToLoad(layers)
  /\ job.op \in Calls /\ job.todo # {} => net.nodes = SavedNodes(layers)
  /\ job.op \in Calls \cup {"idle", "link"} /\ (job.op = "idle" => job.todo = {})

LEMMA RecordedInit == HInit => Recorded /\ LoadOK
<1> SUFFICES ASSUME HInit PROVE Recorded /\ LoadOK
  OBVIOUS
<1>1. /\ net.nodes = {} /\ vectors = {} /\ status = "closed" /\ job.op = "idle" /\ job.todo = {}
      /\ \A l \in Layer : cache[l] = {} /\ DOMAIN layers[l] = {}
  BY DEF HInit, EmptyNet, NoEdges, Idle
<1>2. QED
  BY <1>1 DEF Recorded, LayersIn, LoadOK, Calls

\* What links and clips leave alone.
LEMMA LinkKeeps ==
  ASSUME Inv, Link
  PROVE  /\ net'.nodes = net.nodes /\ job.op = "link" /\ job.todo # {}
         /\ job' = Idle \/ (job'.op = "link" /\ job'.node = job.node /\ job'.todo \subseteq job.todo)
         /\ UNCHANGED <<vectors, layers, cache, status, updated, saves, loaded>>
<1>1. PICK m \in job.todo : LinkTo(job.node, m, job.at)
  BY DEF Link
<1>2. job.op = "link" /\ ids' = ids + 1 /\ UNCHANGED <<vectors, layers, cache, status, updated, saves, loaded>>
  BY DEF Link, disk
<1>3. net'.nodes = net.nodes
  BY <1>1, <1>2, LinkNet
<1>4. job' \in {Idle, [job EXCEPT !.todo = @ \ {m}]}
  BY <1>1, LinkJob
<1>5. job' = Idle \/ (job'.op = "link" /\ job'.node = job.node /\ job'.todo \subseteq job.todo)
  BY <1>2, <1>4 DEF Inv, JobOK
<1>6. QED
  BY <1>1, <1>2, <1>3, <1>5

\* What loading one link does.
LEMMA LoadKeeps ==
  ASSUME Inv, LoadLink
  PROVE  /\ job.op \in Calls /\ job.todo # {} /\ status = "open" /\ net'.nodes = net.nodes
         /\ UNCHANGED <<vectors, layers, cache, updated, saves>>
         /\ \E t \in job.todo :
              /\ \/ t[3] \notin net.nodes /\ status' = "aborted" /\ UNCHANGED <<net, job>>
                 \/ t[3] \in net.nodes /\ UNCHANGED status
              /\ job'.op = job.op /\ job'.todo \subseteq job.todo
<1>1. /\ job.op \in Calls /\ job.todo # {} /\ status = "open"
      /\ UNCHANGED <<vectors, layers, cache, updated, saves>>
  BY DEF LoadLink, Calls, disk
<1>2. PICK t \in job.todo :
        \/ t[3] \notin net.nodes /\ status' = "aborted" /\ UNCHANGED <<net, job>>
        \/ /\ t[3] \in net.nodes /\ UNCHANGED status
           /\ net' = WithLink(net, ids + 1, t[3], t[2], Null, t[1])
           /\ job' = [job EXCEPT !.todo = @ \ {t}]
  BY DEF LoadLink
<1>3. t[1] \in Layer /\ t[2] \in net.nodes /\ t[2] # t[3]
  BY <1>1 DEF Inv, JobOK, Calls
<1>4. net'.nodes = net.nodes
  <2>1. CASE t[3] \in net.nodes
    <3>1. Grown(net, net', ids + 1, t[3], t[2], Null, t[1])
      BY <1>2, <1>3, <2>1, WithLinkOK, InfoAssumption DEF Inv
    <3>2. QED
      BY <3>1 DEF Grown
  <2>2. QED
    BY <1>2, <2>1
<1>5. job'.op = job.op /\ job'.todo \subseteq job.todo
  BY <1>2 DEF Inv, JobOK
<1>6. QED
  BY <1>1, <1>2, <1>4, <1>5

\* Every record that is written is of the object's own nodes, or an old one.
LEMMA SavedIn ==
  ASSUME Inv, Recorded
  PROVE  LayersIn(Saved, vectors)
<1> SUFFICES ASSUME NEW l \in Layer
             PROVE  /\ DOMAIN Saved[l] \subseteq vectors
                    /\ \A n \in DOMAIN Saved[l] : Saved[l][n] # {} /\ Saved[l][n] \subseteq vectors
  BY DEF LayersIn
<1> DEFINE now == {n \in cache[l] : Linked(net, n, l) # {}}
<1>1. Saved[l] = [n \in DOMAIN layers[l] \cup now |->
                    IF n \in now THEN Linked(net, n, l) ELSE layers[l][n]]
  BY DEF Saved
<1>2. now \subseteq Node /\ now \subseteq vectors
  BY DEF Inv, Recorded
<1>3. \A n \in now : Linked(net, n, l) # {} /\ Linked(net, n, l) \subseteq vectors
  BY <1>2, LinkedNodes DEF Inv, Recorded
<1> HIDE DEF now
<1>4. QED
  BY <1>1, <1>2, <1>3 DEF Recorded, LayersIn

LEMMA RecordedStep == Inv /\ Recorded /\ LoadOK /\ [HNext]_hvars => Recorded'
<1> SUFFICES ASSUME Inv, Recorded, LoadOK, [HNext]_hvars PROVE Recorded'
  OBVIOUS
<1>1. CASE UNCHANGED hvars
  BY <1>1 DEF hvars, disk, Recorded, LayersIn, SomeLost
<1>2. CASE Open
  <2>1. \A l \in Layer : Cached(layers)[l] \subseteq vectors
    BY DEF Cached, Recorded, LayersIn
  <2>2. cache' = Cached(layers) /\ status' = "open" /\ UNCHANGED <<vectors, layers, net>>
    BY <1>2 DEF Open, disk
  <2>3. QED
    BY <2>1, <2>2 DEF Recorded, LayersIn
<1>3. CASE Save
  <2>1. LayersIn(layers', vectors)
    BY <1>3, SavedIn DEF Save, Recorded
  <2>2. status' = "open" /\ UNCHANGED <<vectors, cache, net>>
    BY <1>3 DEF Save
  <2>3. QED
    BY <2>1, <2>2 DEF Recorded
<1>4. CASE Close
  <2>1. /\ net'.nodes = {} /\ (\A l \in Layer : cache'[l] = {}) /\ status' = "closed"
        /\ UNCHANGED <<vectors, layers>>
    BY <1>4 DEF Close, disk, EmptyNet
  <2>2. QED
    BY <2>1 DEF Recorded, LayersIn
<1>5. ASSUME NEW op \in Calls, NEW n \in Node, NEW level \in Layer, Call(op, n, level)
      PROVE  Recorded'
  <2>1. status' = "open" /\ UNCHANGED <<vectors, layers, cache>>
    BY <1>5 DEF Call, disk
  <2>2. net'.nodes \in {net.nodes, SavedNodes(layers)}
    BY <1>5 DEF Call, Inv, NetOK, Network
  <2>3. SavedNodes(layers) \subseteq vectors
    BY DEF SavedNodes, Recorded, LayersIn
  <2>4. QED
    BY <2>1, <2>2, <2>3 DEF Recorded, LayersIn
<1>6. CASE LoadLink
  <2>1. PICK t \in job.todo :
          /\ \/ t[3] \notin net.nodes /\ status' = "aborted" /\ UNCHANGED <<net, job>>
             \/ t[3] \in net.nodes /\ UNCHANGED status
          /\ job'.op = job.op /\ job'.todo \subseteq job.todo
    BY <1>6, LoadKeeps
  <2>2. /\ job.op \in Calls /\ job.todo # {} /\ status = "open"
        /\ net'.nodes = net.nodes /\ UNCHANGED <<vectors, layers, cache>>
    BY <1>6, LoadKeeps
  <2>3. ASSUME t[3] \notin net.nodes
        PROVE  SomeLost
    <3>1. net.nodes = SavedNodes(layers) /\ t \in ToLoad(layers)
      BY <2>2 DEF LoadOK
    <3>2. t[1] \in Layer /\ t[2] \in DOMAIN layers[t[1]] /\ t[3] \in layers[t[1]][t[2]]
      BY <3>1 DEF ToLoad
    <3>3. t[3] \in vectors
      BY <3>2 DEF Recorded, LayersIn
    <3>4. \A l \in Layer : t[3] \notin DOMAIN layers[l]
      BY <2>3, <3>1 DEF SavedNodes
    <3>5. QED
      BY <3>3, <3>4 DEF SomeLost
  <2>4. QED
    BY <2>1, <2>2, <2>3 DEF Recorded, LayersIn, SomeLost
<1>7. CASE Erase \/ AddKnown
  <2>1. status' = status /\ UNCHANGED <<vectors, layers, cache, net>> /\ job.todo = {}
    BY <1>7 DEF Erase, AddKnown, disk, Ready
  <2>2. QED
    BY <2>1 DEF Recorded, LayersIn
<1>8. CASE AddNew
  <2>1. /\ vectors' = vectors \cup {job.node} /\ net' = [net EXCEPT !.nodes = @ \cup {job.node}]
        /\ cache' = [l \in Layer |-> IF l <= job.level THEN cache[l] \cup {job.node} ELSE cache[l]]
        /\ job.op = "add" /\ job.todo = {} /\ UNCHANGED <<layers, status>>
    BY <1>8 DEF AddNew, WithNode, Ready
  <2>2. job.node \in Node /\ net'.nodes = net.nodes \cup {job.node}
    BY <2>1 DEF Inv, JobOK, NetOK, Network
  <2>3. \A l \in Layer : cache'[l] \subseteq cache[l] \cup {job.node}
    BY <2>1
  <2>4. QED
    BY <2>1, <2>2, <2>3 DEF Recorded, LayersIn
<1>9. CASE Link
  BY <1>9, LinkKeeps DEF Recorded, LayersIn, Link
<1>10. CASE NextLayer
  <2>1. job.todo = {} /\ UNCHANGED <<vectors, layers, status, cache, net>>
    BY <1>10 DEF NextLayer, disk, Ready
  <2>2. QED
    BY <2>1 DEF Recorded, LayersIn
<1>11. QED
  BY <1>1, <1>2, <1>3, <1>4, <1>5, <1>6, <1>7, <1>8, <1>9, <1>10, TopAssumption DEF HNext, Calls

LEMMA LoadStep == Inv /\ Recorded /\ LoadOK /\ [HNext]_hvars => LoadOK'
<1> SUFFICES ASSUME Inv, Recorded, LoadOK, [HNext]_hvars PROVE LoadOK'
  OBVIOUS
<1>1. ASSUME job' = Idle
      PROVE  LoadOK'
  BY <1>1 DEF LoadOK, Idle, Calls
<1>2. CASE UNCHANGED <<layers, job, net>>
  BY <1>2 DEF LoadOK
<1>3. CASE Save
  <2>1. UNCHANGED <<net, job>> /\ job.op = "idle"
    BY <1>3 DEF Save, Idle
  <2>2. QED
    BY <2>1 DEF LoadOK, Calls
<1>4. CASE Close
  <2>1. job' = Idle
    BY <1>4 DEF Close
  <2>2. QED
    BY <1>1, <2>1
<1>5. ASSUME NEW op \in Calls, NEW n \in Node, NEW level \in Layer, Call(op, n, level)
      PROVE  LoadOK'
  <2>1. /\ UNCHANGED layers /\ job'.op = op
        /\ \/ job'.todo = {}
           \/ job'.todo = ToLoad(layers) /\ net' = [net EXCEPT !.nodes = SavedNodes(layers)]
    BY <1>5 DEF Call, disk, Idle
  <2>2. job'.todo # {} => net'.nodes = SavedNodes(layers)
    BY <2>1 DEF Inv, NetOK, Network
  <2>3. QED
    BY <2>1, <2>2 DEF LoadOK, Calls
<1>6. CASE LoadLink
  <2>1. /\ job'.op = job.op /\ job'.todo \subseteq job.todo /\ net'.nodes = net.nodes
        /\ UNCHANGED layers /\ job.todo # {} /\ job.op \in Calls
    BY <1>6, LoadKeeps
  <2>2. QED
    BY <2>1 DEF LoadOK, Calls
<1>7. CASE Erase \/ AddKnown
  BY <1>1, <1>7 DEF Erase, AddKnown
<1>8. ASSUME job'.op = "link"
      PROVE  LoadOK'
  BY <1>8 DEF LoadOK, Calls
<1>9. CASE AddNew
  <2>1. job'.op = "link"
    BY <1>9, InLayerOK DEF AddNew
  <2>2. QED
    BY <1>8, <2>1
<1>10. CASE Link
  BY <1>1, <1>8, <1>10, LinkKeeps
<1>11. CASE NextLayer
  <2>1. job' = Idle \/ job'.op = "link"
    BY <1>11, InLayerOK DEF NextLayer
  <2>2. QED
    BY <1>1, <1>8, <2>1
<1>12. CASE Open \/ UNCHANGED hvars
  BY <1>2, <1>12 DEF Open, disk, hvars
<1>13. QED
  BY <1>3, <1>4, <1>5, <1>6, <1>7, <1>9, <1>10, <1>11, <1>12, TopAssumption DEF HNext, Calls

LEMMA RecordedAlways == HSpec => [](Inv /\ Recorded /\ LoadOK)
<1>1. HInit => Recorded /\ LoadOK
  BY RecordedInit
<1>2. Inv /\ (Recorded /\ LoadOK) /\ [HNext]_hvars => (Recorded /\ LoadOK)'
  BY RecordedStep, LoadStep
<1>3. QED
  BY <1>1, <1>2, Invariant, PTL DEF HSpec

(* An assert of the network fails only where a saved node has a neighbour    *)
(* that save wrote nowhere: as long as every stored vector is on record in   *)
(* some layer, loading succeeds (initNet and readEachLayer, HNSW.cpp; the    *)
(* assert is VirtualNetwork.cpp:62-63).                                      *)
THEOREM OnlyLostNodesAbort == HSpec => []AssertFailsForLostNode
<1>1. Recorded => AssertFailsForLostNode
  BY DEF Recorded, AssertFailsForLostNode, SomeLost
<1>2. QED
  BY <1>1, RecordedAlways, PTL

(* A query answers nodes whose vector is stored, whether it searches the     *)
(* network or the saved layers, and comes back with none only as long as     *)
(* nothing was saved (knnSearch, queryLayer, neighborhood, HNSW.cpp).        *)
THEOREM AnswersAreStored == HSpec => []AnswersStored
<1>1. Inv /\ Recorded => AnswersStored
  <2> SUFFICES ASSUME Inv, Recorded, NEW q \in vectors, NEW topK \in 1..2
               PROVE  LET a == Answer(net, layers, q, topK)
                      IN  a \subseteq vectors /\ (a = {} => \A l \in Layer : DOMAIN layers[l] = {})
    BY DEF AnswersStored
  <2>1. q \in Node
    BY DEF Recorded
  <2>2. \A l \in Layer : Closed(net, layers, l, vectors)
    <3> TAKE l \in Layer
    <3>1. CASE net.nodes = {}
      BY <3>1, SavedClosed DEF Recorded
    <3>2. CASE net.nodes # {}
      <4>1. ASSUME NEW x \in vectors
            PROVE  Neighborhood(net, layers, x, l) \subseteq vectors
        BY <3>2, LinkedNodes DEF Neighborhood, Neighbors, Recorded, Inv
      <4>2. QED
        BY <4>1 DEF Closed, Recorded
    <3>3. QED
      BY <3>1, <3>2
  <2>3. /\ Answer(net, layers, q, topK) \subseteq vectors
        /\ Kept(layers) # {} => Answer(net, layers, q, topK) # {}
    BY <2>1, <2>2, AnswerOK DEF Recorded, LayersIn
  <2>4. QED
    BY <2>3 DEF Kept
<1>2. QED
  BY <1>1, RecordedAlways, PTL

\* The cache names nodes of the network, or of the store while nothing is loaded;
\* the neighbours chosen for a new node are in the network.
CacheOK ==
  /\ \A l \in Layer : cache[l] \subseteq IF net.nodes = {} THEN SavedNodes(layers) ELSE net.nodes
  /\ net.nodes = {} => job.op # "link" /\ (job.op \in Calls => SavedNodes(layers) = {})
  /\ job.op = "link" => job.todo \subseteq net.nodes /\ \E l \in Layer : cache[l] # {}
  /\ status = "closed" => job.op = "idle" /\ net.nodes = {}

LEMMA CacheInit == HInit => CacheOK
<1> SUFFICES ASSUME HInit PROVE CacheOK
  OBVIOUS
<1>1. net.nodes = {} /\ job.op = "idle" /\ \A l \in Layer : cache[l] = {} /\ DOMAIN layers[l] = {}
  BY DEF HInit, EmptyNet, NoEdges, Idle
<1>2. QED
  BY <1>1 DEF CacheOK, Calls, SavedNodes

\* The first entry to the cache is a node of it.
LEMMA EntryOK ==
  ASSUME NEW c, NEW C, C \subseteq Node, \A l \in Layer : c[l] \subseteq C,
         \E l \in Layer : c[l] # {}
  PROVE  Top(c) \in Layer /\ Entry(c) \in C
<1> DEFINE full == {l \in Layer : c[l] # {}}
<1>1. full \in SUBSET Nat /\ IsFiniteSet(full) /\ full # {}
  BY LayerAssumption, TopAssumption, FS_Subset
<1>2. Top(c) \in full
  BY <1>1, MaxOf DEF Top
<1>3. c[Top(c)] \in SUBSET Nat /\ c[Top(c)] # {} /\ Top(c) \in Layer
  BY <1>2, NodeAssumption
<1>4. Entry(c) \in c[Top(c)]
  BY <1>3, MinOf DEF Entry
<1>5. QED
  BY <1>3, <1>4

LEMMA InLayerIn ==
  ASSUME NEW k, NEW g, NetOK(g, k), NEW c, \A l \in Layer : c[l] \subseteq g.nodes,
         \E l \in Layer : c[l] # {}, NEW n \in Node, NEW level, NEW l, NEW ep
  PROVE  InLayer(g, c, n, level, l, ep).todo \subseteq g.nodes
<1>1. g.nodes # {} /\ g.nodes \subseteq Node
  BY DEF NetOK, Network
<1>2. Top(c) \in Layer /\ Entry(c) \in g.nodes
  BY <1>1, EntryOK
<1>3. Closed(g, layers, Top(c), g.nodes)
  BY <1>1, <1>2, NetClosed
<1>4. QueryLayer(g, layers, n, Entry(c), M, Top(c)) \subseteq g.nodes
  BY <1>2, <1>3, QueryLayerOK
<1>5. InLayer(g, c, n, level, l, ep).todo = QueryLayer(g, layers, n, Entry(c), M, Top(c)) \ {n}
  BY DEF InLayer
<1>6. QED
  BY <1>4, <1>5

LEMMA CacheStep == Inv /\ LoadOK /\ CacheOK /\ [HNext]_hvars => CacheOK'
<1> SUFFICES ASSUME Inv, LoadOK, CacheOK, [HNext]_hvars PROVE CacheOK'
  OBVIOUS
<1>1. CASE UNCHANGED hvars
  BY <1>1 DEF hvars, disk, CacheOK
<1>2. CASE Open
  <2>1. net.nodes = {} /\ job.op = "idle"
    BY <1>2 DEF Open, CacheOK
  <2>2. cache' = Cached(layers) /\ status' = "open" /\ UNCHANGED <<layers, net, job>>
    BY <1>2 DEF Open, disk
  <2>3. \A l \in Layer : Cached(layers)[l] \subseteq SavedNodes(layers)
    BY DEF Cached, SavedNodes
  <2>4. QED
    BY <2>1, <2>2, <2>3 DEF CacheOK, Calls
<1>3. CASE Save
  <2>1. job.op = "idle" /\ status' = "open" /\ UNCHANGED <<net, cache, job>>
    BY <1>3 DEF Save, Idle
  <2>2. \A l \in Layer : DOMAIN layers[l] \subseteq DOMAIN Saved[l]
    BY DEF Saved
  <2>3. SavedNodes(layers) \subseteq SavedNodes(layers')
    BY <1>3, <2>2 DEF Save, SavedNodes
  <2>4. QED
    BY <2>1, <2>3 DEF CacheOK, Calls
<1>4. CASE Close
  <2>1. net'.nodes = {} /\ job'.op = "idle" /\ \A l \in Layer : cache'[l] = {}
    BY <1>4 DEF Close, EmptyNet, Idle
  <2>2. QED
    BY <2>1 DEF CacheOK, Calls
<1>5. ASSUME NEW op \in Calls, NEW n \in Node, NEW level \in Layer, Call(op, n, level)
      PROVE  CacheOK'
  <2>1. status' = "open" /\ job'.op = op /\ UNCHANGED <<layers, cache>>
    BY <1>5 DEF Call, disk, Idle
  <2>2. CASE net.nodes = {}
    <3>1. net'.nodes = SavedNodes(layers)
      BY <1>5, <2>2 DEF Call, Inv, NetOK, Network
    <3>2. QED
      BY <2>1, <2>2, <3>1 DEF CacheOK, Calls
  <2>3. CASE net.nodes # {}
    <3>1. net' = net
      BY <1>5, <2>3 DEF Call
    <3>2. QED
      BY <2>1, <2>3, <3>1 DEF CacheOK, Calls
  <2>4. QED
    BY <2>2, <2>3
<1>6. CASE LoadLink
  <2>1. /\ net'.nodes = net.nodes /\ job'.op = job.op /\ job.op \in Calls /\ status' # "closed"
        /\ UNCHANGED <<layers, cache>>
    BY <1>6, LoadKeeps
  <2>2. QED
    BY <2>1 DEF CacheOK, Calls
<1>7. CASE Erase \/ AddKnown
  <2>1. job'.op = "idle" /\ UNCHANGED <<layers, cache, net, status>>
    BY <1>7 DEF Erase, AddKnown, disk, Idle
  <2>2. job.op \in Calls
    BY <1>7 DEF Erase, AddKnown, Ready, Calls
  <2>3. QED
    BY <2>1, <2>2 DEF CacheOK, Calls
<1>8. CASE AddNew
  <2> DEFINE n == job.node
             g == WithNode(net, n)
             c == [l \in Layer |-> IF l <= job.level THEN cache[l] \cup {n} ELSE cache[l]]
  <2>1. PICK ep : job' = InLayer(g, c, n, job.level, job.level, ep)
    BY <1>8 DEF AddNew
  <2>2. net' = g /\ cache' = c /\ job.op = "add" /\ UNCHANGED <<layers, status>>
    BY <1>8 DEF AddNew, Ready
  <2>3. n \in Node /\ job.level \in Layer
    BY <2>2 DEF Inv, JobOK
  <2>4. g = [net EXCEPT !.nodes = net.nodes \cup {n}] /\ net.nodes \cup {n} \in SUBSET Node
    BY <2>3 DEF WithNode, Inv, NetOK, Network
  <2>5. NetOK(g, ids) /\ g.nodes = net.nodes \cup {n}
    <3> HIDE DEF g
    <3>1. QED
      BY <2>4, NodesGrow DEF Inv
  <2>6. \A l \in Layer : c[l] \subseteq g.nodes
    <3>1. \A l \in Layer : cache[l] \subseteq net.nodes
      BY <2>2 DEF CacheOK, Calls
    <3>2. QED
      BY <2>5, <3>1
  <2>7. c[job.level] # {}
    <3>0. job.level \in Nat
      BY <2>3, LayerAssumption
    <3>1. job.level <= job.level
      BY <3>0
    <3>2. c[job.level] = cache[job.level] \cup {n}
      BY <2>3, <3>1
    <3> HIDE DEF c
    <3>3. QED
      BY <3>2
  <2> HIDE DEF g, c
  <2>8. job'.todo \subseteq g.nodes
    BY <2>1, <2>3, <2>5, <2>6, <2>7, InLayerIn
  <2>9. job'.op = "link"
    BY <2>1, InLayerOK
  <2>10. status # "closed"
    BY <2>2 DEF CacheOK
  <2>11. QED
    BY <2>2, <2>3, <2>5, <2>6, <2>7, <2>8, <2>9, <2>10 DEF CacheOK, Calls
<1>9. CASE Link
  <2>1. /\ net'.nodes = net.nodes /\ job.op = "link"
        /\ job' = Idle \/ (job'.op = "link" /\ job'.todo \subseteq job.todo)
        /\ UNCHANGED <<layers, cache, status>>
    BY <1>9, LinkKeeps
  <2>2. Idle.op = "idle"
    BY DEF Idle
  <2>3. QED
    BY <2>1, <2>2 DEF CacheOK, Calls
<1>10. CASE NextLayer
  <2>1. job.op = "link" /\ UNCHANGED <<layers, status, cache, net>>
    BY <1>10 DEF NextLayer, disk, Ready
  <2>2. CASE job.at > 0
    <3>1. job' = InLayer(net, cache, job.node, job.level, job.at - 1, job.ep)
      BY <1>10, <2>2 DEF NextLayer
    <3>2. job.node \in Node
      BY <2>1 DEF Inv, JobOK, NetOK, Network
    <3>3. job'.todo \subseteq net.nodes /\ job'.op = "link"
      BY <2>1, <3>1, <3>2, InLayerIn, InLayerOK DEF CacheOK, Inv
    <3>4. QED
      BY <2>1, <3>3 DEF CacheOK, Calls
  <2>3. CASE ~(job.at > 0)
    <3>1. job'.op = "idle"
      BY <1>10, <2>3 DEF NextLayer, Idle
    <3>2. QED
      BY <2>1, <3>1 DEF CacheOK, Calls
  <2>4. QED
    BY <2>2, <2>3
<1>11. QED
  BY <1>1, <1>2, <1>3, <1>4, <1>5, <1>6, <1>7, <1>8, <1>9, <1>10, TopAssumption DEF HNext, Calls

LayerMaps == \A l \in Layer : layers[l] = [n \in DOMAIN layers[l] |-> layers[l][n]]

\* The small variables, and the layers as functions.
Flags ==
  /\ status \in {"closed", "open", "aborted"} /\ updated \in BOOLEAN /\ loaded \in BOOLEAN
  /\ saves \in 0..1 /\ LayerMaps

LEMMA FlagsInit == HInit => Flags
<1> SUFFICES ASSUME HInit PROVE Flags
  OBVIOUS
<1>1. \A l \in Layer : layers[l] = NoEdges
  BY DEF HInit
<1>2. LayerMaps
  BY <1>1 DEF NoEdges, LayerMaps
<1>3. status = "closed" /\ updated = FALSE /\ loaded = FALSE /\ saves = 0
  BY DEF HInit
<1>4. updated \in BOOLEAN /\ loaded \in BOOLEAN
  BY <1>3, Zenon
<1>5. saves \in 0..1 /\ status \in {"closed", "open", "aborted"}
  BY <1>3
<1>6. QED
  BY <1>2, <1>4, <1>5, Zenon DEF Flags

LEMMA FlagsStep == Flags /\ [HNext]_hvars => Flags'
<1> SUFFICES ASSUME Flags, [HNext]_hvars PROVE Flags'
  OBVIOUS
<1>1. CASE UNCHANGED hvars
  BY <1>1 DEF hvars, disk, Flags, LayerMaps
<1>2. CASE Open
  BY <1>2 DEF Open, disk, Flags, LayerMaps
<1>3. CASE Save
  <2>1. \A l \in Layer : Saved[l] = [n \in DOMAIN Saved[l] |-> Saved[l][n]]
    BY DEF Saved
  <2>2. layers' = Saved \/ layers' = layers
    BY <1>3 DEF Save
  <2>3. UNCHANGED <<status, updated, loaded>> /\ saves' = 1
    BY <1>3 DEF Save
  <2>4. LayerMaps'
    BY <2>1, <2>2 DEF Flags, LayerMaps
  <2>5. QED
    BY <2>3, <2>4 DEF Flags
<1>4. CASE Close
  <2>1. status' = "closed" /\ updated' = FALSE /\ loaded' = FALSE /\ saves' = 0 /\ UNCHANGED layers
    BY <1>4 DEF Close, disk
  <2>2. LayerMaps'
    BY <2>1 DEF Flags, LayerMaps
  <2>3. updated' \in BOOLEAN /\ loaded' \in BOOLEAN
    BY <2>1, Zenon
  <2>4. saves' \in 0..1 /\ status' \in {"closed", "open", "aborted"}
    BY <2>1
  <2>5. QED
    BY <2>2, <2>3, <2>4, Zenon DEF Flags
<1>5. ASSUME NEW op, NEW n, NEW level, Call(op, n, level)
      PROVE  Flags'
  BY <1>5 DEF Call, disk, Flags, LayerMaps
<1>6. CASE LoadLink
  <2>1. status' \in {status, "aborted"} /\ loaded' \in {loaded, TRUE} /\ UNCHANGED <<layers, updated, saves>>
    BY <1>6 DEF LoadLink, disk
  <2>2. QED
    BY <2>1 DEF Flags, LayerMaps
<1>7. CASE Erase \/ AddKnown
  <2>1. updated' \in {updated, TRUE} /\ UNCHANGED <<layers, status, loaded, saves>>
    BY <1>7 DEF Erase, AddKnown, disk
  <2>2. QED
    BY <2>1 DEF Flags, LayerMaps
<1>8. CASE AddNew
  BY <1>8 DEF AddNew, Flags, LayerMaps
<1>9. CASE Link
  BY <1>9 DEF Link, disk, Flags, LayerMaps
<1>10. CASE NextLayer
  <2>1. updated' \in {updated, TRUE} /\ UNCHANGED <<layers, status, loaded, saves>>
    BY <1>10 DEF NextLayer, disk
  <2>2. QED
    BY <2>1 DEF Flags, LayerMaps
<1>11. QED
  BY <1>1, <1>2, <1>3, <1>4, <1>5, <1>6, <1>7, <1>8, <1>9, <1>10 DEF HNext

LEMMA CacheAlways == HSpec => [](Inv /\ Recorded /\ LoadOK /\ CacheOK /\ Flags)
<1>1. HInit => CacheOK /\ Flags
  BY CacheInit, FlagsInit
<1>2. (Inv /\ Recorded /\ LoadOK) /\ (CacheOK /\ Flags) /\ [HNext]_hvars => (CacheOK /\ Flags)'
  BY CacheStep, FlagsStep
<1>3. QED
  BY <1>1, <1>2, RecordedAlways, PTL DEF HSpec

(* The network, the saved layers, the cache and the call that executes stay  *)
(* what their types say: in particular a search never chooses a neighbour    *)
(* that is no node (addNode2Edge, selectNeighbors, HNSW.cpp).                *)
THEOREM TypeCorrect == HSpec => []TypeOK
<1>1. Inv /\ Recorded /\ LoadOK /\ CacheOK /\ Flags => TypeOK
  <2> SUFFICES ASSUME Inv, Recorded, LoadOK, CacheOK, Flags PROVE TypeOK
    OBVIOUS
  <2>1. vectors \subseteq Node /\ status \in {"closed", "open", "aborted"}
    BY DEF Recorded, Flags
  <2>2. \A l \in Layer : layers[l] \in [DOMAIN layers[l] -> SUBSET Node]
    <3> TAKE l \in Layer
    <3>1. \A n \in DOMAIN layers[l] : layers[l][n] \in SUBSET Node
      BY DEF Recorded, LayersIn
    <3>2. layers[l] = [n \in DOMAIN layers[l] |-> layers[l][n]]
      BY DEF Flags, LayerMaps
    <3>3. QED
      BY <3>1, <3>2
  <2>3. cache \in [Layer -> SUBSET Node] /\ ids \in Nat
    BY DEF Inv
  <2>4. /\ net.nodes \subseteq Node /\ net.edges \in [DOMAIN net.edges -> Edge]
        /\ net.lists \in [Node -> [Layer -> SUBSET (1..ids)]]
    BY DEF Inv, NetOK, Network
  <2>5. updated \in BOOLEAN /\ loaded \in BOOLEAN /\ saves \in 0..1
    BY DEF Flags
  <2>6. job.todo \subseteq IF job.op = "link" THEN Node ELSE Layer \X Node \X Node
    <3>1. CASE job.op = "link"
      BY <2>4, <3>1 DEF CacheOK
    <3>2. CASE job.op \in Calls
      BY <3>2 DEF LoadOK, ToLoad, Calls
    <3>3. CASE job.op = "idle"
      BY <3>3 DEF LoadOK
    <3>4. QED
      BY <3>1, <3>2, <3>3 DEF LoadOK
  <2>7. QED
    BY <2>1, <2>2, <2>3, <2>4, <2>5, <2>6 DEF TypeOK
<1>2. QED
  BY <1>1, CacheAlways, PTL

(* An exception leaves an add half done only in a network that was loaded:   *)
(* both ends of every link to be made are nodes of the network, and edges    *)
(* made by this object know their distance (addNode2Edge, selectNeighbors,   *)
(* clipEdgeThenKeepNeighborSize, HNSW.cpp).                                  *)
THEOREM HalfDoneOnlyLoaded == HSpec => HalfDoneOnlyAfterLoad
<1> DEFINE P == job.op = "link" /\ job.todo # {} /\ job'.op = "idle" => loaded
<1>1. Inv /\ CacheOK /\ HNext => P
  <2> SUFFICES ASSUME Inv, CacheOK, HNext, job.op = "link", job.todo # {}, job'.op = "idle", ~loaded
               PROVE  FALSE
    OBVIOUS
  <2>1. Link
    <3>1. job # Idle
      BY DEF Idle
    <3>2. \A op, n, level : ~Call(op, n, level)
      BY <3>1 DEF Call
    <3>3. ~Open
      BY DEF Open, CacheOK
    <3>4. QED
      BY <3>1, <3>2, <3>3 DEF HNext, Save, Close, LoadLink, Erase, AddKnown, AddNew, NextLayer, Ready
  <2>2. PICK m \in job.todo : LinkTo(job.node, m, job.at)
    BY <2>1 DEF Link
  <2> DEFINE n == job.node
             l == job.at
  <2>3. /\ n \in net.nodes /\ n \in Node /\ l \in Layer /\ NetOK(net, ids) /\ ids \in Nat
        /\ m \in net.nodes /\ m \in Node
    BY DEF Inv, JobOK, NetOK, Network, CacheOK
  <2>4. ASSUME NEW g, NetOK(g, ids), Shrunk(net, g), NEW x \in {n, m}
        PROVE  ~ClipThrows(g, x, l)
    <3>1. g.nodes = net.nodes
      BY <2>4 DEF Shrunk
    <3>2. \A i \in g.lists[x][l] : i \in DOMAIN g.edges
      BY <2>3, <2>4 DEF NetOK, Listed
    <3>3. \A i \in DOMAIN g.edges : g.edges[i].info # Null
      BY <2>4 DEF Shrunk, Inv, LengthsKnown
    <3>4. QED
      BY <2>3, <3>1, <3>2, <3>3 DEF ClipThrows
  <2>5. Shrunk(net, net)
    BY DEF Shrunk
  <2>6. ~ClipThrows(net, n, l)
    BY <2>3, <2>4, <2>5
  <2>7. job' # Idle
    <3>1. \A g \in Clipped(net, n, l) : ~ClipThrows(g, m, l)
      BY <2>3, <2>4, ClippedShrunk
    <3>2. job' = [job EXCEPT !.todo = @ \ {m}]
      BY <2>2, <2>6, <3>1 DEF LinkTo
    <3>3. job'.op = "link"
      BY <3>2 DEF Inv, JobOK
    <3>4. QED
      BY <3>3
  <2>8. job' = Idle \/ job'.op = "link"
    BY <2>1, LinkKeeps
  <2>9. QED
    BY <2>7, <2>8
<1>2. Inv /\ CacheOK /\ [HNext]_hvars => [P]_hvars
  BY <1>1
<1>3. HSpec => [][P]_hvars
  BY <1>2, CacheAlways, PTL DEF HSpec
<1>4. QED
  BY <1>3 DEF HalfDoneOnlyAfterLoad

-------------------------------------------------------------------------------
(* What is loaded is what was saved. *)

\* An edge that was loaded joins two nodes in a layer.
NullPair(g, l, k, n) ==
  \E i \in DOMAIN g.edges : /\ g.edges[i].info = Null /\ g.edges[i].layer = l
                            /\ {g.edges[i].from, g.edges[i].to} = {k, n}

Pending == IF job.op \in Calls THEN job.todo ELSE {}
Loads(l, k, n) == {<<l, k, n>>, <<l, n, k>>} \cap (ToLoad(layers) \ Pending) # {}

\* The records of two nodes name each other, or neither.
Mirrored(saved) ==
  \A l \in Layer : \A n, m \in DOMAIN saved[l] : m \in saved[l][n] => n \in saved[l][m]

\* The layers are those the object was made with.
Unsaved == saves = 0 \/ ~updated

\* Until they are written the layers are in the network link by link.
LinksLoaded ==
  Unsaved => \A l \in Layer, k \in Node, n \in Node :
               NullPair(net, l, k, n) <=> net.nodes # {} /\ Loads(l, k, n)

LoadInv ==
  /\ Mirrored(layers) /\ LinksLoaded
  /\ status = "open" /\ saves = 0 => \A l \in Layer : DOMAIN layers[l] \subseteq cache[l]
  /\ job.op \in Calls /\ job.todo # {} => \A i \in DOMAIN net.edges : net.edges[i].info = Null
  /\ loaded => net.nodes # {}

\* A network without nodes has no edges.
LEMMA NoNodesNoEdges ==
  ASSUME NEW k, NEW g, NetOK(g, k), g.nodes = {}
  PROVE  DOMAIN g.edges = {}
BY DEF NetOK, Joined

LEMMA NoNulls ==
  ASSUME NEW k, NEW g, NetOK(g, k), g.nodes = {}
  PROVE  \A l, a, b : ~NullPair(g, l, a, b)
BY NoNodesNoEdges DEF NullPair

LEMMA NothingToLoad == SavedNodes(layers) = {} => ToLoad(layers) = {}
BY DEF SavedNodes, ToLoad

\* A pair is loaded from one side.
LEMMA LoadedOnce ==
  ASSUME Inv, NEW t \in ToLoad(layers)
  PROVE  /\ t = <<t[1], t[2], t[3]>> /\ t[1] \in Layer /\ t[2] \in Node /\ t[3] \in Node
         /\ t[2] # t[3] /\ <<t[1], t[3], t[2]>> \notin ToLoad(layers)
<1>1. /\ t \in Layer \X Node \X Node /\ t[2] \in DOMAIN layers[t[1]]
      /\ t[3] \in layers[t[1]][t[2]] /\ (t[3] \in DOMAIN layers[t[1]] => t[2] <= t[3])
  BY DEF ToLoad
<1>2. t[2] # t[3]
  BY <1>1 DEF Inv, LayersOK
<1>3. ASSUME <<t[1], t[3], t[2]>> \in ToLoad(layers)
      PROVE  FALSE
  <2>1. t[3] \in DOMAIN layers[t[1]] /\ (t[2] \in DOMAIN layers[t[1]] => t[3] <= t[2])
    BY <1>3 DEF ToLoad
  <2>2. t[2] \in Nat /\ t[3] \in Nat
    BY <1>1, NodeAssumption
  <2>3. QED
    BY <1>1, <1>2, <2>1, <2>2
<1>4. QED
  BY <1>1, <1>2, <1>3

\* The neighbours of a node are those that edges join to it.
LEMMA LinkedPairs ==
  ASSUME NEW k, NEW g, NetOK(g, k), NEW l \in Layer, NEW a \in Node, NEW b
  PROVE  b \in Linked(g, a, l) <=>
           \E i \in DOMAIN g.edges : /\ g.edges[i].layer = l /\ a # b
                                     /\ {g.edges[i].from, g.edges[i].to} = {a, b}
<1>1. ASSUME b \in Linked(g, a, l)
      PROVE  \E i \in DOMAIN g.edges : /\ g.edges[i].layer = l /\ a # b
                                       /\ {g.edges[i].from, g.edges[i].to} = {a, b}
  <2>1. PICK i \in g.lists[a][l] \cap DOMAIN g.edges : b = Across(g.edges[i], a)
    BY <1>1 DEF Linked
  <2>2. /\ g.edges[i].layer = l /\ a \in {g.edges[i].from, g.edges[i].to}
        /\ g.edges[i].both /\ g.edges[i].from # g.edges[i].to
    BY <2>1 DEF NetOK, Listed, Joined
  <2>3. {g.edges[i].from, g.edges[i].to} = {a, b} /\ a # b
    BY <2>1, <2>2 DEF Across
  <2>4. QED
    BY <2>1, <2>2, <2>3
<1>2. ASSUME NEW i \in DOMAIN g.edges, g.edges[i].layer = l, a # b,
             {g.edges[i].from, g.edges[i].to} = {a, b}
      PROVE  b \in Linked(g, a, l)
  <2>1. /\ g.edges[i].both /\ i \in g.lists[a][l]
    BY <1>2 DEF NetOK, Joined
  <2>2. b = Across(g.edges[i], a)
    BY <1>2, <2>1 DEF Across
  <2>3. QED
    BY <2>1, <2>2 DEF Linked
<1>3. QED
  BY <1>1, <1>2

\* With the layers loaded, an object that has written nothing knows every record.
LEMMA RecordsLoaded ==
  ASSUME Inv, Recorded, LoadInv, Unsaved, net.nodes # {}, Pending = {},
         NEW l \in Layer, NEW n \in DOMAIN layers[l], NEW m \in layers[l][n]
  PROVE  NullPair(net, l, n, m)
<1>1. n \in Node /\ m \in Node
  BY DEF Inv, LayersOK, Recorded, LayersIn
<1>2. Loads(l, n, m)
  <2>1. CASE m \in DOMAIN layers[l] => n <= m
    <3>1. <<l, n, m>> \in ToLoad(layers)
      BY <1>1, <2>1 DEF ToLoad
    <3>2. QED
      BY <3>1 DEF Loads
  <2>2. CASE m \in DOMAIN layers[l] /\ ~(n <= m)
    <3>1. n \in layers[l][m]
      BY <2>2 DEF LoadInv, Mirrored
    <3>2. m <= n
      <4>1. n \in Nat /\ m \in Nat
        BY <1>1, NodeAssumption
      <4>2. QED
        BY <2>2, <4>1
    <3>3. <<l, m, n>> \in ToLoad(layers)
      BY <1>1, <2>2, <3>1, <3>2 DEF ToLoad
    <3>4. QED
      BY <3>3 DEF Loads
  <2>3. QED
    BY <2>1, <2>2
<1>3. QED
  BY <1>1, <1>2 DEF LoadInv, LinksLoaded

\* What is saved the first time is mirrored.
LEMMA SavedMirrored ==
  ASSUME Inv, Recorded, LoadInv, status = "open", job = Idle, saves = 0
  PROVE  Mirrored(Saved)
<1> SUFFICES ASSUME NEW l \in Layer, NEW n \in DOMAIN Saved[l], NEW m \in DOMAIN Saved[l],
                    m \in Saved[l][n]
             PROVE  n \in Saved[l][m]
  BY DEF Mirrored
<1> DEFINE now == {x \in cache[l] : Linked(net, x, l) # {}}
<1>1. Saved[l] = [x \in DOMAIN layers[l] \cup now |->
                    IF x \in now THEN Linked(net, x, l) ELSE layers[l][x]]
  BY DEF Saved
<1>2. Unsaved /\ Pending = {}
  BY DEF Unsaved, Pending, Idle, Calls
<1>3. CASE net.nodes = {}
  <2>1. \A x \in Node : Linked(net, x, l) = {}
    BY <1>3, LinkedNodes DEF Inv
  <2>2. now = {}
    BY <2>1 DEF Inv
  <2> HIDE DEF now
  <2>3. QED
    BY <1>1, <2>2 DEF LoadInv, Mirrored
<1>4. CASE net.nodes # {}
  <2>1. ASSUME NEW x \in DOMAIN layers[l]
        PROVE  x \in now
    <3>1. x \in cache[l] /\ x \in Node
      BY DEF LoadInv, Inv, LayersOK
    <3>2. PICK y \in layers[l][x] : TRUE
      BY DEF Recorded, LayersIn
    <3>3. NullPair(net, l, x, y) /\ x # y
      BY <1>2, <1>4, RecordsLoaded DEF Inv, LayersOK
    <3>4. y \in Linked(net, x, l)
      BY <3>1, <3>3, LinkedPairs DEF NullPair, Inv
    <3>5. QED
      BY <3>1, <3>4
  <2>2. now \subseteq Node
    BY DEF Inv
  <2>3. n \in now /\ m \in now
    <3> HIDE DEF now
    <3>1. QED
      BY <1>1, <2>1
  <2> HIDE DEF now
  <2>4. m \in Linked(net, n, l)
    BY <1>1, <2>3
  <2>5. n \in Linked(net, m, l)
    BY <2>2, <2>3, <2>4, LinkedBoth DEF Inv
  <2>6. QED
    BY <1>1, <2>3, <2>5
<1>5. QED
  BY <1>3, <1>4

\* Of the edges that were loaded a step of Link keeps all, and makes none.
SameNulls(g, h) ==
  /\ \A i \in DOMAIN g.edges : g.edges[i].info = Null => i \in DOMAIN h.edges /\ h.edges[i] = g.edges[i]
  /\ \A i \in DOMAIN h.edges : h.edges[i].info = Null => i \in DOMAIN g.edges /\ h.edges[i] = g.edges[i]

LEMMA SamePairs ==
  ASSUME NEW g, NEW h, SameNulls(g, h)
  PROVE  \A l, a, b : NullPair(g, l, a, b) <=> NullPair(h, l, a, b)
BY DEF SameNulls, NullPair

LEMMA ClipNulls ==
  ASSUME NEW k \in Nat, NEW g, NetOK(g, k), NEW n \in Node, NEW l \in Layer,
         ~ClipThrows(g, n, l), NEW h \in Clipped(g, n, l)
  PROVE  NetOK(h, k) /\ Shrunk(g, h) /\ SameNulls(g, h)
<1>1. NetOK(h, k) /\ Shrunk(g, h)
  BY ClippedShrunk
<1>2. ASSUME NEW i \in DOMAIN g.edges, g.edges[i].info = Null
      PROVE  i \in DOMAIN h.edges
  <2>1. CASE i \in DOMAIN g.edges \ DOMAIN h.edges
    <3>1. i \in g.lists[n][l] /\ \A j \in g.lists[n][l] : g.edges[j].info # Null
      BY <2>1, ClippedLongest
    <3>2. QED
      BY <1>2, <3>1
  <2>2. QED
    BY <2>1
<1>3. QED
  BY <1>1, <1>2 DEF SameNulls, Shrunk

LEMMA LinkNulls ==
  ASSUME Inv, job.op = "link", NEW m \in job.todo, ids' = ids + 1,
         LinkTo(job.node, m, job.at)
  PROVE  SameNulls(net, net')
<1> DEFINE n == job.node
           l == job.at
<1>1. NetOK(net, ids) /\ ids \in Nat /\ n \in Node /\ l \in Layer /\ n # m /\ n \in net.nodes
  BY DEF Inv, JobOK, NetOK, Network
<1>2. \/ net' = net
      \/ /\ ~ClipThrows(net, n, l)
         /\ \E g \in Clipped(net, n, l) :
              \/ net' = g
              \/ /\ ~ClipThrows(g, m, l)
                 /\ \E h \in Clipped(g, m, l) :
                      net' = WithLink(h, ids', n, m, Length(n, m, job.near), l)
  BY DEF LinkTo
<1>3. CASE net' = net
  BY <1>3 DEF SameNulls
<1>4. ASSUME ~ClipThrows(net, n, l), NEW g \in Clipped(net, n, l), net' = g
      PROVE  SameNulls(net, net')
  BY <1>1, <1>4, ClipNulls
<1>5. ASSUME ~ClipThrows(net, n, l), NEW g \in Clipped(net, n, l), ~ClipThrows(g, m, l),
             NEW h \in Clipped(g, m, l),
             net' = WithLink(h, ids', n, m, Length(n, m, job.near), l)
      PROVE  SameNulls(net, net')
  <2> DEFINE d == Length(n, m, job.near)
  <2>1. NetOK(g, ids) /\ Shrunk(net, g) /\ SameNulls(net, g)
    BY <1>1, <1>5, ClipNulls
  <2>2. m \in net.nodes /\ m \in Node
    BY <1>1, <1>5, <2>1 DEF ClipThrows, Shrunk, NetOK, Network
  <2>3. NetOK(h, ids) /\ Shrunk(g, h) /\ SameNulls(g, h)
    BY <1>1, <1>5, <2>1, <2>2, ClipNulls
  <2>4. d \in Info /\ d # Null
    BY <1>1, <2>2, LengthOK
  <2>5. n \in h.nodes /\ m \in h.nodes
    BY <1>1, <2>1, <2>2, <2>3 DEF Shrunk
  <2> HIDE DEF d, n, l
  <2>6. Grown(h, net', ids + 1, n, m, d, l)
    BY <1>1, <1>5, <2>3, <2>4, <2>5, WithLinkOK DEF d
  <2>7. SameNulls(h, net')
    BY <2>4, <2>6 DEF Grown, SameNulls
  <2>8. QED
    BY <2>1, <2>3, <2>7 DEF SameNulls
<1>6. QED
  BY <1>2, <1>3, <1>4, <1>5

LEMMA LoadInvInit == HInit => LoadInv
<1> SUFFICES ASSUME HInit PROVE LoadInv
  OBVIOUS
<1>1. /\ net.nodes = {} /\ DOMAIN net.edges = {} /\ status = "closed" /\ job.op = "idle"
      /\ loaded = FALSE /\ \A l \in Layer : DOMAIN layers[l] = {}
  BY DEF HInit, EmptyNet, NoEdges, Idle
<1>2. Mirrored(layers)
  BY <1>1 DEF Mirrored
<1>3. LinksLoaded
  BY <1>1 DEF LinksLoaded, NullPair
<1>4. QED
  BY <1>1, <1>2, <1>3 DEF LoadInv, Calls

\* Steps that change neither the layers nor what is loaded, nor what is pending.
LEMMA LinksStay ==
  ASSUME LinksLoaded, Unsaved' => Unsaved, UNCHANGED layers, SameNulls(net, net'),
         Pending' = Pending,
         net'.nodes = net.nodes \/ (net'.nodes # {} /\ (net.nodes = {} => ToLoad(layers) = {}))
  PROVE  LinksLoaded'
<1> SUFFICES ASSUME Unsaved', NEW l \in Layer, NEW k \in Node, NEW n \in Node
             PROVE  NullPair(net', l, k, n) <=> net'.nodes # {} /\ Loads(l, k, n)'
  BY DEF LinksLoaded
<1>1. NullPair(net, l, k, n) <=> net.nodes # {} /\ Loads(l, k, n)
  BY DEF LinksLoaded
<1>2. NullPair(net', l, k, n) <=> NullPair(net, l, k, n)
  BY SamePairs
<1>3. Loads(l, k, n)' <=> Loads(l, k, n)
  BY DEF Loads
<1>4. ToLoad(layers) = {} => ~Loads(l, k, n)
  BY DEF Loads
<1>5. QED
  BY <1>1, <1>2, <1>3, <1>4

LEMMA SameSelf == \A g : SameNulls(g, g)
BY DEF SameNulls

\* One more link is loaded.
LEMMA LoadLinkLinks ==
  ASSUME Inv, LoadOK, LoadInv, LoadLink
  PROVE  /\ LinksLoaded'
         /\ \A i \in DOMAIN net'.edges : net'.edges[i].info = Null
<1>1. /\ job.op \in Calls /\ job.todo # {} /\ net'.nodes = net.nodes
      /\ UNCHANGED <<layers, updated, saves>>
  BY LoadKeeps
<1>2. PICK t \in job.todo :
        \/ t[3] \notin net.nodes /\ UNCHANGED <<net, job>>
        \/ /\ t[3] \in net.nodes /\ net' = WithLink(net, ids + 1, t[3], t[2], Null, t[1])
           /\ job' = [job EXCEPT !.todo = @ \ {t}]
  BY DEF LoadLink
<1>3. \A i \in DOMAIN net.edges : net.edges[i].info = Null
  BY <1>1 DEF LoadInv
<1>4. Unsaved' => Unsaved
  BY <1>1 DEF Unsaved
<1>5. CASE UNCHANGED <<net, job>>
  <2>1. SameNulls(net, net') /\ Pending' = Pending
    BY <1>5, SameSelf DEF Pending
  <2>2. LinksLoaded'
    BY <1>1, <1>4, <2>1, LinksStay DEF LoadInv
  <2>3. QED
    BY <1>3, <1>5, <2>2
<1>6. CASE t[3] \in net.nodes /\ net' = WithLink(net, ids + 1, t[3], t[2], Null, t[1])
           /\ job' = [job EXCEPT !.todo = @ \ {t}]
  <2> DEFINE b == t[2]
             a == t[3]
             j == t[1]
  <2>1. t \in ToLoad(layers) /\ b \in net.nodes
    BY <1>1 DEF LoadOK, Inv, JobOK, Calls
  <2>2. /\ t = <<j, b, a>> /\ j \in Layer /\ b \in Node /\ a \in Node /\ a # b
        /\ <<j, a, b>> \notin ToLoad(layers) /\ a \in net.nodes
    BY <1>6, <2>1, LoadedOnce
  <2> HIDE DEF a, b, j
  <2>3. Pending = job.todo /\ Pending' = Pending \ {t}
    BY <1>1, <1>6 DEF Pending, Inv, JobOK
  <2>4. net' = WithLink(net, ids + 1, a, b, Null, j)
    BY <1>6 DEF a, b, j
  <2>5. Grown(net, net', ids + 1, a, b, Null, j)
    BY <2>1, <2>2, <2>4, WithLinkOK, InfoAssumption DEF Inv
  <2>6. \A i \in DOMAIN net'.edges : net'.edges[i].info = Null
    BY <1>3, <2>5 DEF Grown
  <2>7. ASSUME Unsaved'
        PROVE  \A l \in Layer, k \in Node, n \in Node :
                 NullPair(net', l, k, n) <=> net'.nodes # {} /\ Loads(l, k, n)'
    <3>1. \A l \in Layer, k \in Node, n \in Node : NullPair(net, l, k, n) <=> Loads(l, k, n)
      BY <1>4, <2>2, <2>7 DEF LoadInv, LinksLoaded
    <3>2. ~Loads(j, a, b)
      BY <2>2, <2>3 DEF Loads
    <3>3. ~NullPair(net, j, a, b)
      BY <2>2, <3>1, <3>2
    <3>4. a \notin Linked(net, b, j)
      <4>1. a \in Linked(net, b, j) =>
              \E i \in DOMAIN net.edges : /\ net.edges[i].layer = j /\ b # a
                                          /\ {net.edges[i].from, net.edges[i].to} = {b, a}
        BY <2>2, LinkedPairs DEF Inv
      <4>2. QED
        BY <1>3, <3>3, <4>1 DEF NullPair
    <3>5. net' = Linking(net, ids + 1, a, b, Null, j)
      BY <2>2, <2>4, <3>4, LinkNew DEF Inv
    <3> DEFINE i0 == ids + 1
               e == [from |-> a, to |-> b, info |-> Null, both |-> TRUE, layer |-> j]
    <3>6. /\ DOMAIN net'.edges = DOMAIN net.edges \cup {i0} /\ net'.edges[i0] = e
          /\ \A i \in DOMAIN net.edges : i # i0 => net'.edges[i] = net.edges[i]
      BY <3>5 DEF Linking, Put
    <3>7. i0 \notin DOMAIN net.edges
      BY DEF Inv, NetOK, Network
    <3> HIDE DEF i0
    <3> SUFFICES ASSUME NEW l \in Layer, NEW k \in Node, NEW n \in Node
                 PROVE  NullPair(net', l, k, n) <=> net'.nodes # {} /\ Loads(l, k, n)'
      OBVIOUS
    <3>8. NullPair(net', l, k, n) <=> NullPair(net, l, k, n) \/ (l = j /\ {a, b} = {k, n})
      <4>1. e.info = Null /\ e.layer = j /\ e.from = a /\ e.to = b
        OBVIOUS
      <4> HIDE DEF e
      <4>2. QED
        BY <3>6, <3>7, <4>1 DEF NullPair
    <3>9. Loads(l, k, n)' <=> Loads(l, k, n) \/ t \in {<<l, k, n>>, <<l, n, k>>}
      <4>1. ToLoad(layers)' \ Pending' = (ToLoad(layers) \ Pending) \cup {t}
        BY <1>1, <2>1, <2>3
      <4>2. QED
        BY <4>1 DEF Loads
    <3>10. t \in {<<l, k, n>>, <<l, n, k>>} <=> l = j /\ {a, b} = {k, n}
      BY <2>2
    <3>11. net'.nodes # {}
      BY <1>1, <2>2
    <3>12. QED
      BY <3>1, <3>8, <3>9, <3>10, <3>11
  <2>8. QED
    BY <2>6, <2>7 DEF LinksLoaded
<1>7. QED
  BY <1>2, <1>5, <1>6

LEMMA LoadInvStep ==
  ASSUME ~SaveAgain
  PROVE  Inv /\ Recorded /\ LoadOK /\ CacheOK /\ LoadInv /\ [HNext]_hvars => LoadInv'
<1> SUFFICES ASSUME Inv, Recorded, LoadOK, CacheOK, LoadInv, [HNext]_hvars PROVE LoadInv'
  OBVIOUS
<1>0. LinksLoaded /\ Mirrored(layers)
  BY DEF LoadInv
<1>1. CASE UNCHANGED hvars
  <2>1. Unsaved' <=> Unsaved
    BY <1>1 DEF hvars, Unsaved
  <2>2. Pending' = Pending /\ SameNulls(net, net') /\ UNCHANGED <<layers, net>>
    BY <1>1, SameSelf DEF hvars, disk, Pending
  <2>3. LinksLoaded'
    BY <1>0, <2>1, <2>2, LinksStay
  <2>4. QED
    BY <1>1, <2>3 DEF hvars, disk, LoadInv
<1>2. CASE Open
  <2>1. /\ cache' = Cached(layers) /\ status' = "open"
        /\ UNCHANGED <<layers, net, updated, job, saves, loaded>>
    BY <1>2 DEF Open, disk
  <2>2. \A l \in Layer : DOMAIN layers[l] \subseteq Cached(layers)[l]
    <3> TAKE l \in Layer
    <3>1. l \in Nat
      BY LayerAssumption
    <3>2. l >= l
      BY <3>1
    <3>3. QED
      BY <3>2 DEF Cached
  <2>3. Unsaved' <=> Unsaved
    BY <2>1 DEF Unsaved
  <2>4. Pending' = Pending /\ SameNulls(net, net')
    BY <2>1, SameSelf DEF Pending
  <2>5. LinksLoaded'
    BY <1>0, <2>1, <2>3, <2>4, LinksStay
  <2>6. QED
    BY <2>1, <2>2, <2>5 DEF LoadInv
<1>3. CASE Save
  <2>1. /\ status = "open" /\ job = Idle /\ saves' = 1 /\ UNCHANGED <<status, cache, net, updated, job, loaded>>
        /\ layers' = IF updated THEN Saved ELSE layers
    BY <1>3 DEF Save
  <2>2. saves = 0
    BY <1>3 DEF Save
  <2>3. Mirrored(layers')
    BY <1>0, <2>1, <2>2, SavedMirrored
  <2>4. LinksLoaded'
    <3>1. CASE updated
      <4>1. ~Unsaved'
        <5>1. updated'
          BY <2>1, <3>1, Zenon
        <5>2. saves' # 0
          BY <2>1
        <5>3. QED
          BY <5>1, <5>2, Zenon DEF Unsaved
      <4>2. QED
        BY <4>1 DEF LinksLoaded
    <3>2. CASE ~updated
      <4>1. layers' = layers
        BY <2>1, <3>2
      <4>2. Unsaved
        BY <2>2 DEF Unsaved
      <4>3. Pending' = Pending /\ SameNulls(net, net')
        BY <2>1, SameSelf DEF Pending
      <4>4. QED
        BY <1>0, <2>1, <4>1, <4>2, <4>3, LinksStay
    <3>3. QED
      BY <3>1, <3>2
  <2>5. QED
    BY <2>1, <2>3, <2>4 DEF LoadInv, Idle, Calls
<1>4. CASE Close
  <2>1. /\ status' = "closed" /\ net' = EmptyNet /\ loaded' = FALSE /\ UNCHANGED <<layers, job>> /\ job = Idle
    BY <1>4 DEF Close, disk
  <2>2. net'.nodes = {} /\ DOMAIN net'.edges = {}
    BY <2>1 DEF EmptyNet, NoEdges
  <2>3. LinksLoaded'
    BY <2>2 DEF LinksLoaded, NullPair
  <2>4. Mirrored(layers')
    BY <1>0, <2>1
  <2>5. ~loaded'
    BY <2>1
  <2>6. status' # "open"
    BY <2>1
  <2>7. QED
    BY <2>2, <2>3, <2>4, <2>5, <2>6 DEF LoadInv
<1>5. ASSUME NEW op \in Calls, NEW n \in Node, NEW level \in Layer, Call(op, n, level)
      PROVE  LoadInv'
  <2>1. /\ status' = status /\ job = Idle /\ job'.op = op /\ UNCHANGED <<layers, cache, updated, saves, loaded>>
    BY <1>5 DEF Call, disk, Idle
  <2>2. Unsaved' <=> Unsaved
    BY <2>1 DEF Unsaved
  <2>3. Pending = {} /\ Pending' = job'.todo
    BY <2>1 DEF Pending, Idle, Calls
  <2>4. CASE net.nodes = {}
    <3>1. net'.edges = net.edges /\ job'.todo = ToLoad(layers)
      BY <1>5, <2>4 DEF Call, Inv, NetOK, Network, Idle
    <3>2. DOMAIN net.edges = {}
      BY <2>4, NoNodesNoEdges DEF Inv
    <3>3. \A l \in Layer, k \in Node, m \in Node : ~Loads(l, k, m)'
      BY <2>1, <2>3, <3>1 DEF Loads
    <3>4. LinksLoaded'
      BY <3>1, <3>2, <3>3 DEF LinksLoaded, NullPair
    <3>5. ~loaded
      BY <2>4 DEF LoadInv
    <3>6. QED
      BY <1>0, <2>1, <3>1, <3>2, <3>4, <3>5 DEF LoadInv
  <2>5. CASE net.nodes # {}
    <3>1. net' = net /\ job'.todo = {}
      BY <1>5, <2>5 DEF Call, Idle
    <3>2. SameNulls(net, net')
      BY <3>1, SameSelf
    <3>3. LinksLoaded'
      BY <1>0, <2>1, <2>2, <2>3, <3>1, <3>2, LinksStay
    <3>4. QED
      BY <1>0, <2>1, <3>1, <3>3 DEF LoadInv
  <2>6. QED
    BY <2>4, <2>5
<1>6. CASE LoadLink
  <2>1. LinksLoaded' /\ \A i \in DOMAIN net'.edges : net'.edges[i].info = Null
    BY <1>6, LoadLinkLinks
  <2>2. net'.nodes = net.nodes /\ UNCHANGED <<layers, cache, saves>> /\ status = "open"
    BY <1>6, LoadKeeps
  <2>3. loaded' => net.nodes # {}
    <3>1. loaded' = loaded \/ \E t : t \in net.nodes
      BY <1>6 DEF LoadLink
    <3>2. QED
      BY <3>1 DEF LoadInv
  <2>4. QED
    BY <1>0, <2>1, <2>2, <2>3 DEF LoadInv
<1>7. CASE Erase \/ AddKnown
  <2>1. job' = Idle /\ UNCHANGED <<layers, status, cache, net, saves, loaded>> /\ job.todo = {}
    BY <1>7 DEF Erase, AddKnown, disk, Ready
  <2>2. Unsaved' => Unsaved
    <3>1. updated' \/ updated' = updated
      BY <1>7, Zenon DEF Erase, AddKnown
    <3>2. QED
      BY <2>1, <3>1 DEF Unsaved
  <2>3. Pending' = Pending
    BY <2>1 DEF Pending, Idle, Calls
  <2>4. SameNulls(net, net')
    BY <2>1, SameSelf
  <2>5. LinksLoaded'
    BY <1>0, <2>1, <2>2, <2>3, <2>4, LinksStay
  <2>6. QED
    BY <1>0, <2>1, <2>5 DEF LoadInv, Idle, Calls
<1>8. CASE AddNew
  <2>1. /\ job.op = "add" /\ job.todo = {} /\ net' = [net EXCEPT !.nodes = @ \cup {job.node}]
        /\ cache' = [l \in Layer |-> IF l <= job.level THEN cache[l] \cup {job.node} ELSE cache[l]]
        /\ UNCHANGED <<layers, status, updated, saves, loaded>>
    BY <1>8 DEF AddNew, Ready, WithNode
  <2>2. net'.nodes # {} /\ net'.edges = net.edges
    BY <2>1 DEF Inv, NetOK, Network
  <2>3. job'.op = "link"
    BY <1>8, InLayerOK DEF AddNew
  <2>4. Pending' = Pending
    BY <2>1, <2>3 DEF Pending, Calls
  <2>5. SameNulls(net, net')
    BY <2>2 DEF SameNulls
  <2>6. net.nodes = {} => ToLoad(layers) = {}
    BY <2>1, NothingToLoad DEF CacheOK, Calls
  <2>7. Unsaved' <=> Unsaved
    BY <2>1 DEF Unsaved
  <2>8. LinksLoaded'
    BY <1>0, <2>1, <2>2, <2>4, <2>5, <2>6, <2>7, LinksStay
  <2>9. \A l \in Layer : cache[l] \subseteq cache'[l]
    BY <2>1
  <2>10. QED
    BY <1>0, <2>1, <2>2, <2>3, <2>8, <2>9 DEF LoadInv, Calls
<1>9. CASE Link
  <2>1. PICK m \in job.todo : LinkTo(job.node, m, job.at)
    BY <1>9 DEF Link
  <2>2. /\ net'.nodes = net.nodes /\ job.op = "link"
        /\ job' = Idle \/ job'.op = "link"
        /\ UNCHANGED <<layers, cache, status, updated, saves, loaded>>
    BY <1>9, LinkKeeps
  <2>3. ids' = ids + 1
    BY <1>9 DEF Link
  <2>4. SameNulls(net, net')
    BY <2>1, <2>2, <2>3, LinkNulls
  <2>5. Pending' = Pending
    BY <2>2 DEF Pending, Idle, Calls
  <2>6. Unsaved' <=> Unsaved
    BY <2>2 DEF Unsaved
  <2>7. LinksLoaded'
    BY <1>0, <2>2, <2>4, <2>5, <2>6, LinksStay
  <2>8. QED
    BY <1>0, <2>2, <2>7 DEF LoadInv, Idle, Calls
<1>10. CASE NextLayer
  <2>1. job.op = "link" /\ UNCHANGED <<layers, status, cache, net, saves, loaded>>
    BY <1>10 DEF NextLayer, disk, Ready
  <2>2. job' = Idle \/ job'.op = "link"
    BY <1>10, InLayerOK DEF NextLayer
  <2>3. Unsaved' => Unsaved
    <3>1. updated' \/ updated' = updated
      BY <1>10, Zenon DEF NextLayer
    <3>2. QED
      BY <2>1, <3>1 DEF Unsaved
  <2>4. Pending' = Pending
    BY <2>1, <2>2 DEF Pending, Idle, Calls
  <2>5. SameNulls(net, net')
    BY <2>1, SameSelf
  <2>6. LinksLoaded'
    BY <1>0, <2>1, <2>3, <2>4, <2>5, LinksStay
  <2>7. QED
    BY <1>0, <2>1, <2>2, <2>6 DEF LoadInv, Idle, Calls
<1>11. QED
  BY <1>1, <1>2, <1>3, <1>4, <1>5, <1>6, <1>7, <1>8, <1>9, <1>10, TopAssumption DEF HNext, Calls

(* What an object loads is what the one before it saved: with only loaded    *)
(* links in the network the neighbours of a saved node are those of its      *)
(* record.  The hypothesis is that an object is saved once: a second save    *)
(* leaves the records of nodes that lost their links as they were (save,     *)
(* initNet, readEachLayer, HNSW.cpp).                                        *)
THEOREM LoadedAsSaved ==
  ASSUME ~SaveAgain
  PROVE  HSpec => []LoadsWhatWasSaved
<1>1. Inv /\ Recorded /\ LoadOK /\ CacheOK /\ LoadInv => LoadsWhatWasSaved
  <2> SUFFICES ASSUME Inv, Recorded, LoadInv, job.op \in Calls, job.todo = {}, loaded, ~updated,
                      \A i \in DOMAIN net.edges : net.edges[i].info = Null,
                      NEW l \in Layer, NEW n \in DOMAIN layers[l]
               PROVE  Linked(net, n, l) = layers[l][n]
    BY DEF LoadsWhatWasSaved, Calls
  <2>1. Unsaved /\ Pending = {} /\ net.nodes # {} /\ n \in Node
    BY DEF Unsaved, Pending, LoadInv, Inv, LayersOK
  <2>2. ASSUME NEW m \in layers[l][n]
        PROVE  m \in Linked(net, n, l)
    <3>1. NullPair(net, l, n, m) /\ n # m
      BY <2>1, RecordsLoaded DEF Inv, LayersOK
    <3>2. QED
      BY <2>1, <3>1, LinkedPairs DEF Inv, NullPair
  <2>3. ASSUME NEW m \in Linked(net, n, l)
        PROVE  m \in layers[l][n]
    <3>1. m \in Node
      BY <2>1, LinkedNodes DEF Inv, NetOK, Network
    <3>2. NullPair(net, l, n, m)
      BY <2>1, LinkedPairs DEF Inv, NullPair
    <3>3. Loads(l, n, m)
      BY <2>1, <3>1, <3>2 DEF LoadInv, LinksLoaded
    <3>4. <<l, n, m>> \in ToLoad(layers) \/ <<l, m, n>> \in ToLoad(layers)
      BY <3>3 DEF Loads
    <3>5. m \in layers[l][n] \/ (m \in DOMAIN layers[l] /\ n \in layers[l][m])
      BY <3>4 DEF ToLoad
    <3>6. QED
      BY <3>5 DEF LoadInv, Mirrored
  <2>4. QED
    BY <2>2, <2>3
<1>2. (Inv /\ Recorded /\ LoadOK /\ CacheOK) /\ LoadInv /\ [HNext]_hvars => LoadInv'
  BY LoadInvStep
<1>3. HSpec => [](Inv /\ Recorded /\ LoadOK /\ CacheOK)
  BY CacheAlways, PTL
<1>4. HSpec => []LoadInv
  BY <1>2, <1>3, LoadInvInit, PTL DEF HSpec
<1>5. QED
  BY <1>1, <1>3, <1>4, PTL
-------------------------------------------------------------------------------
(* The bound of the lists, loaded or not. *)

\* The nodes that the records join to x.
Named(saved, l, x) ==
  {y \in Node : \/ x \in DOMAIN saved[l] /\ y \in saved[l][x]
                \/ y \in DOMAIN saved[l] /\ x \in saved[l][y]}

\* No node is named too often, and what is loaded is what is named.
BoundInv ==
  /\ NeighborsBounded
  /\ \A l \in Layer, x \in Node : Cardinality(Named(layers, l, x)) < M
  /\ job.op \in Calls /\ job.todo # {} =>
       \A l \in Layer, x \in Node : Linked(net, x, l) \subseteq Named(layers, l, x)

LEMMA NamedFinite ==
  ASSUME NEW saved, NEW l, NEW x
  PROVE  IsFiniteSet(Named(saved, l, x)) /\ Cardinality(Named(saved, l, x)) \in Nat
<1>1. Named(saved, l, x) \subseteq Node
  BY DEF Named
<1>2. QED
  BY <1>1, NodeAssumption, FS_Subset, FS_CardinalityType

\* A node has one edge in a layer to each of its neighbours.
LEMMA EdgePerNeighbor ==
  ASSUME NEW k \in Nat, NEW g, NetOK(g, k), NEW n \in Node, NEW l \in Layer
  PROVE  /\ IsFiniteSet(Linked(g, n, l)) /\ IsFiniteSet(g.lists[n][l])
         /\ Cardinality(Linked(g, n, l)) = Cardinality(g.lists[n][l])
<1> DEFINE L == g.lists[n][l]
           K == Linked(g, n, l)
           f == [i \in L |-> Across(g.edges[i], n)]
<1>1. L \subseteq 1..k /\ L \subseteq DOMAIN g.edges
  BY DEF NetOK, Network, Listed
<1>2. IsFiniteSet(L)
  BY <1>1, FiniteIds, FS_Subset
<1>3. K = {Across(g.edges[i], n) : i \in L}
  BY <1>1 DEF Linked
<1>4. ASSUME NEW i \in L, NEW j \in L, Across(g.edges[i], n) = Across(g.edges[j], n)
      PROVE  i = j
  <2>1. \A x \in L : /\ x \in DOMAIN g.edges /\ g.edges[x].layer = l
                     /\ n \in {g.edges[x].from, g.edges[x].to}
                     /\ g.edges[x].both /\ g.edges[x].from # g.edges[x].to
    BY DEF NetOK, Listed, Joined
  <2>2. \A x \in L : {g.edges[x].from, g.edges[x].to} = {n, Across(g.edges[x], n)}
    BY <2>1 DEF Across
  <2>3. {g.edges[i].from, g.edges[i].to} = {g.edges[j].from, g.edges[j].to}
    BY <1>4, <2>2
  <2>4. QED
    BY <2>1, <2>3 DEF NetOK, Single
<1> HIDE DEF L, K
<1>5. f \in [L -> K] /\ DOMAIN f = L /\ \A i \in L : f[i] = Across(g.edges[i], n)
  BY <1>3
<1> HIDE DEF f
<1>6. f \in Bijection(L, K)
  <2>1. f \in Injection(L, K)
    BY <1>4, <1>5 DEF Injection, IsInjective
  <2>2. f \in Surjection(L, K)
    BY <1>3, <1>5 DEF Surjection
  <2>3. QED
    BY <2>1, <2>2 DEF Bijection
<1>7. ExistsBijection(L, K)
  BY <1>6 DEF ExistsBijection
<1>8. QED
  BY <1>2, <1>7, FS_Bijection DEF L, K

\* Sets of nodes that contain one another.
LEMMA FewerThan ==
  ASSUME NEW A, NEW B, IsFiniteSet(B), A \subseteq B, Cardinality(B) < M
  PROVE  Cardinality(A) < M
<1>1. IsFiniteSet(A) /\ Cardinality(A) <= Cardinality(B)
  BY FS_Subset
<1>2. Cardinality(A) \in Nat /\ Cardinality(B) \in Nat /\ M \in Nat
  BY <1>1, FS_CardinalityType, SizeAssumption
<1>3. QED
  BY <1>1, <1>2

\* A network all of whose links are named by the records is bounded.
LEMMA NamedBound ==
  ASSUME NEW k \in Nat, NEW g, NetOK(g, k), NEW saved, NEW n \in Node, NEW l \in Layer,
         Linked(g, n, l) \subseteq Named(saved, l, n), Cardinality(Named(saved, l, n)) < M
  PROVE  Cardinality(g.lists[n][l]) < M
<1>1. Cardinality(Linked(g, n, l)) < M
  BY NamedFinite, FewerThan
<1>2. QED
  BY <1>1, EdgePerNeighbor

LEMMA NoLinks ==
  ASSUME NEW k, NEW g, NetOK(g, k), g.nodes = {}, NEW n \in Node, NEW l \in Layer
  PROVE  Linked(g, n, l) = {}
BY LinkedNodes

\* What the first save of an object names is what is linked.
LEMMA SavedNamed ==
  ASSUME Inv, Recorded, LoadInv, status = "open", job = Idle, saves = 0, net.nodes # {},
         NEW l \in Layer, NEW x \in Node
  PROVE  Named(Saved, l, x) \subseteq Linked(net, x, l)
<1> DEFINE now == {n \in cache[l] : Linked(net, n, l) # {}}
<1>1. Saved[l] = [n \in DOMAIN layers[l] \cup now |->
                    IF n \in now THEN Linked(net, n, l) ELSE layers[l][n]]
  BY DEF Saved
<1>2. Unsaved /\ Pending = {}
  BY DEF Unsaved, Pending, Idle, Calls
<1>3. ASSUME NEW n \in DOMAIN layers[l], NEW y \in layers[l][n]
      PROVE  y \in Linked(net, n, l)
  <2>1. NullPair(net, l, n, y) /\ n # y /\ n \in Node
    BY <1>2, RecordsLoaded DEF Inv, LayersOK
  <2>2. QED
    BY <2>1, LinkedPairs DEF NullPair, Inv
<1>4. now \subseteq Node /\ DOMAIN layers[l] \subseteq Node
  BY DEF Inv, LayersOK
<1> HIDE DEF now
<1>5. ASSUME NEW n \in DOMAIN Saved[l], NEW y \in Saved[l][n]
      PROVE  n \in Node /\ y \in Linked(net, n, l)
  BY <1>1, <1>3, <1>4
<1>6. ASSUME NEW y \in Node, x \in Linked(net, y, l)
      PROVE  y \in Linked(net, x, l)
  BY <1>6, LinkedBoth DEF Inv
<1>7. QED
  BY <1>5, <1>6 DEF Named

LEMMA BoundSave ==
  ASSUME ~SaveAgain, Inv, Recorded, LoadInv, BoundInv, Save
  PROVE  BoundInv'
<1>1. /\ status = "open" /\ job = Idle /\ saves = 0 /\ UNCHANGED <<net, job>>
      /\ layers' = IF updated THEN Saved ELSE layers
  BY DEF Save
<1>2. NeighborsBounded' /\ ~(job'.op \in Calls)
  BY <1>1 DEF BoundInv, NeighborsBounded, Idle, Calls
<1>3. ASSUME NEW l \in Layer, NEW x \in Node
      PROVE  Cardinality(Named(layers', l, x)) < M
  <2>1. CASE layers' = layers
    BY <2>1 DEF BoundInv
  <2>2. CASE layers' = Saved /\ net.nodes # {}
    <3>1. Named(Saved, l, x) \subseteq Linked(net, x, l)
      BY <1>1, <2>2, SavedNamed
    <3>2. /\ IsFiniteSet(Linked(net, x, l))
          /\ Cardinality(Linked(net, x, l)) = Cardinality(net.lists[x][l])
      BY EdgePerNeighbor DEF Inv
    <3>3. Cardinality(net.lists[x][l]) < M
      BY DEF BoundInv, NeighborsBounded
    <3>4. Cardinality(Named(Saved, l, x)) < M
      BY <3>1, <3>2, <3>3, FewerThan
    <3>5. QED
      BY <2>2, <3>4
  <2>3. CASE layers' = Saved /\ net.nodes = {}
    <3> DEFINE now == {n \in cache[l] : Linked(net, n, l) # {}}
    <3>1. Saved[l] = [n \in DOMAIN layers[l] \cup now |->
                        IF n \in now THEN Linked(net, n, l) ELSE layers[l][n]]
      BY DEF Saved
    <3>2. now = {}
      <4>1. cache[l] \subseteq Node
        BY DEF Inv
      <4>2. \A n \in Node : Linked(net, n, l) = {}
        BY <2>3, NoLinks DEF Inv
      <4>3. QED
        BY <4>1, <4>2
    <3> HIDE DEF now
    <3>3. /\ DOMAIN Saved[l] = DOMAIN layers[l]
          /\ \A n \in DOMAIN layers[l] : Saved[l][n] = layers[l][n]
      BY <3>1, <3>2
    <3>4. Named(Saved, l, x) = Named(layers, l, x)
      BY <3>3 DEF Named
    <3>5. QED
      BY <2>3, <3>4 DEF BoundInv
  <2>4. QED
    BY <1>1, <2>1, <2>2, <2>3
<1>4. QED
  BY <1>2, <1>3 DEF BoundInv

LEMMA BoundLoad ==
  ASSUME Inv, Inv', LoadOK, BoundInv, LoadLink
  PROVE  BoundInv'
<1>1. job.op \in Calls /\ job.todo # {} /\ UNCHANGED layers
  BY LoadKeeps
<1>2. PICK t \in job.todo :
        \/ UNCHANGED net
        \/ t[3] \in net.nodes /\ net' = WithLink(net, ids + 1, t[3], t[2], Null, t[1])
  BY DEF LoadLink
<1> DEFINE b == t[2]
           a == t[3]
           j == t[1]
<1>3. t \in ToLoad(layers) /\ b \in net.nodes
  BY <1>1 DEF LoadOK, Inv, JobOK, Calls
<1>4. /\ j \in Layer /\ b \in Node /\ a \in Node /\ a # b
      /\ b \in DOMAIN layers[j] /\ a \in layers[j][b]
  BY <1>3, LoadedOnce DEF ToLoad
<1> HIDE DEF a, b, j
<1>5. ASSUME NEW l \in Layer, NEW x \in Node
      PROVE  Linked(net', x, l) \subseteq Named(layers, l, x)
  <2>0. Linked(net, x, l) \subseteq Named(layers, l, x)
    BY <1>1 DEF BoundInv
  <2>1. CASE UNCHANGED net
    BY <2>0, <2>1
  <2>2. CASE a \in net.nodes /\ net' = WithLink(net, ids + 1, a, b, Null, j)
    <3>1. CASE a \in Linked(net, b, j)
      <4>1. net' = net
        BY <1>4, <2>2, <3>1, LinkOld DEF Inv
      <4>2. QED
        BY <2>0, <4>1
    <3>2. CASE a \notin Linked(net, b, j)
      <4>1. net' = Linking(net, ids + 1, a, b, Null, j)
        BY <1>4, <2>2, <3>2, LinkNew DEF Inv
      <4> DEFINE i0 == ids + 1
                 e == [from |-> a, to |-> b, info |-> Null, both |-> TRUE, layer |-> j]
      <4>2. /\ DOMAIN net'.edges = DOMAIN net.edges \cup {i0} /\ net'.edges[i0] = e
            /\ \A i \in DOMAIN net.edges : i # i0 => net'.edges[i] = net.edges[i]
        BY <4>1 DEF Linking, Put
      <4>3. e.layer = j /\ e.from = a /\ e.to = b
        OBVIOUS
      <4> HIDE DEF e, i0
      <4>4. ASSUME NEW y, y \in Linked(net', x, l)
            PROVE  y \in Named(layers, l, x)
        <5>1. PICK i \in DOMAIN net'.edges :
                /\ net'.edges[i].layer = l /\ x # y
                /\ {net'.edges[i].from, net'.edges[i].to} = {x, y}
          <6>1. NetOK(net', ids')
            BY DEF Inv
          <6>2. QED
            BY <4>4, <6>1, LinkedPairs
        <5>2. CASE i = i0
          <6>1. l = j /\ {a, b} = {x, y}
            BY <4>2, <4>3, <5>1, <5>2
          <6>2. QED
            BY <1>4, <5>1, <6>1 DEF Named
        <5>3. CASE i # i0
          <6>1. i \in DOMAIN net.edges /\ net'.edges[i] = net.edges[i]
            BY <4>2, <5>3
          <6>2. y \in Linked(net, x, l)
            <7>1. NetOK(net, ids)
              BY DEF Inv
            <7>2. /\ net.edges[i].layer = l /\ x # y
                  /\ {net.edges[i].from, net.edges[i].to} = {x, y}
              BY <5>1, <6>1
            <7>3. QED
              BY <1>5, <6>1, <7>1, <7>2, LinkedPairs
          <6>3. QED
            BY <2>0, <6>2
        <5>4. QED
          BY <5>2, <5>3
      <4>5. QED
        BY <4>4
    <3>3. QED
      BY <3>1, <3>2
  <2>3. QED
    BY <1>2, <2>1, <2>2 DEF a, b, j
<1>6. \A l \in Layer, x \in Node : Cardinality(Named(layers, l, x)) < M
  BY DEF BoundInv
<1>7. NeighborsBounded'
  <2> SUFFICES ASSUME NEW x \in Node, NEW l \in Layer
               PROVE  Cardinality(net'.lists[x][l]) < M
    BY DEF NeighborsBounded
  <2>1. QED
    BY <1>5, <1>6, NamedBound DEF Inv
<1>8. QED
  BY <1>1, <1>5, <1>6, <1>7 DEF BoundInv

\* The steps that keep the lists, the edges and the layers.
LEMMA BoundQuiet ==
  ASSUME BoundInv, net'.lists = net.lists, net'.edges = net.edges, UNCHANGED layers,
         job'.op \in Calls /\ job'.todo # {} => job.op \in Calls /\ job.todo # {}
  PROVE  BoundInv'
<1>1. \A l, x : Linked(net', x, l) = Linked(net, x, l)
  BY DEF Linked
<1>2. NeighborsBounded'
  BY DEF BoundInv, NeighborsBounded
<1>3. QED
  BY <1>1, <1>2 DEF BoundInv

LEMMA BoundStep ==
  ASSUME ~SaveAgain
  PROVE  (Inv /\ Recorded /\ LoadOK /\ CacheOK) /\ LoadInv /\ Inv' /\ BoundInv /\ [HNext]_hvars
            => BoundInv'
<1> SUFFICES ASSUME Inv, Recorded, LoadOK, CacheOK, LoadInv, Inv', BoundInv, [HNext]_hvars
             PROVE  BoundInv'
  OBVIOUS
<1>1. CASE UNCHANGED hvars
  BY <1>1, BoundQuiet DEF hvars, disk
<1>2. CASE Open
  BY <1>2, BoundQuiet DEF Open, disk
<1>3. CASE Save
  BY <1>3, BoundSave
<1>4. CASE Close
  <2>1. net' = EmptyNet /\ UNCHANGED <<layers, job>> /\ job = Idle
    BY <1>4 DEF Close, disk
  <2>2. \A n \in Node, l \in Layer : net'.lists[n][l] = {}
    BY <2>1 DEF EmptyNet
  <2>3. NeighborsBounded'
    <3>1. Cardinality({}) < M
      BY FS_EmptySet, SizeAssumption
    <3>2. QED
      BY <2>2, <3>1, Zenon DEF NeighborsBounded
  <2>4. ~(job'.op \in Calls)
    BY <2>1 DEF Idle, Calls
  <2>5. layers' = layers
    BY <2>1
  <2>6. QED
    BY <2>3, <2>4, <2>5 DEF BoundInv
<1>5. ASSUME NEW op \in Calls, NEW n \in Node, NEW level \in Layer, Call(op, n, level)
      PROVE  BoundInv'
  <2>1. UNCHANGED layers
    BY <1>5 DEF Call, disk
  <2>2. CASE net.nodes = {}
    <3>1. net'.edges = net.edges /\ net'.lists = net.lists
      BY <1>5, <2>2 DEF Call, Inv, NetOK, Network
    <3>2. \A x \in Node, l \in Layer : Linked(net, x, l) = {}
      BY <2>2, NoLinks DEF Inv
    <3>3. \A x \in Node, l \in Layer : Linked(net', x, l) = {}
      BY <3>1, <3>2 DEF Linked
    <3>4. NeighborsBounded'
      BY <3>1 DEF BoundInv, NeighborsBounded
    <3>5. QED
      BY <2>1, <3>3, <3>4 DEF BoundInv
  <2>3. CASE net.nodes # {}
    <3>1. net' = net /\ job'.todo = {}
      BY <1>5, <2>3 DEF Call, Idle
    <3>2. QED
      BY <2>1, <3>1, BoundQuiet
  <2>4. QED
    BY <2>2, <2>3
<1>6. CASE LoadLink
  BY <1>6, BoundLoad
<1>7. CASE Erase \/ AddKnown
  <2>1. job' = Idle /\ UNCHANGED <<layers, net>>
    BY <1>7 DEF Erase, AddKnown, disk
  <2>2. QED
    BY <2>1, BoundQuiet DEF Idle, Calls
<1>8. CASE AddNew
  <2>1. net' = [net EXCEPT !.nodes = @ \cup {job.node}] /\ UNCHANGED layers
    BY <1>8 DEF AddNew, WithNode
  <2>2. net'.lists = net.lists /\ net'.edges = net.edges
    BY <2>1 DEF Inv, NetOK, Network
  <2>3. job'.op = "link"
    BY <1>8, InLayerOK DEF AddNew
  <2>4. QED
    BY <2>1, <2>2, <2>3, BoundQuiet DEF Calls
<1>9. CASE Link
  <2>1. PICK m \in job.todo : LinkTo(job.node, m, job.at)
    BY <1>9 DEF Link
  <2>2. /\ job.op = "link" /\ (job' = Idle \/ job'.op = "link") /\ UNCHANGED layers
    BY <1>9, LinkKeeps
  <2>3. NeighborsBounded'
    BY <1>9, <2>1, <2>2, LinkBounded DEF Link, BoundInv
  <2>4. QED
    BY <2>2, <2>3 DEF BoundInv, Idle, Calls
<1>10. CASE NextLayer
  <2>1. UNCHANGED <<layers, net>> /\ (job' = Idle \/ job'.op = "link")
    BY <1>10, InLayerOK DEF NextLayer, disk
  <2>2. QED
    BY <2>1, BoundQuiet DEF Idle, Calls
<1>11. QED
  BY <1>1, <1>2, <1>3, <1>4, <1>5, <1>6, <1>7, <1>8, <1>9, <1>10, TopAssumption DEF HNext, Calls

LEMMA BoundInit == HInit => BoundInv
<1> SUFFICES ASSUME HInit PROVE BoundInv
  OBVIOUS
<1>1. /\ \A n \in Node, l \in Layer : net.lists[n][l] = {}
      /\ job.op = "idle" /\ \A l \in Layer : DOMAIN layers[l] = {}
  BY DEF HInit, EmptyNet, NoEdges, Idle
<1>2. \A l \in Layer, x \in Node : Named(layers, l, x) = {}
  BY <1>1 DEF Named
<1>3. Cardinality({}) < M
  BY FS_EmptySet, SizeAssumption
<1>4. QED
  BY <1>1, <1>2, <1>3 DEF BoundInv, NeighborsBounded, Calls

(* A list has fewer than M edges, in the session that adds them and in every  *)
(* later one that loads what was saved: no node is named by M records, a load *)
(* makes one edge of each pair that is named, and a full list is clipped      *)
(* before it grows (clipEdgeThenKeepNeighborSize, save, initNet, HNSW.cpp).   *)
(* The hypothesis is again that an object is saved once.                      *)
THEOREM AlwaysBounded ==
  ASSUME ~SaveAgain
  PROVE  HSpec => []NeighborsBounded
<1>1. BoundInv => NeighborsBounded
  BY DEF BoundInv
<1>2. HSpec => [](Inv /\ Recorded /\ LoadOK /\ CacheOK)
  BY CacheAlways, PTL
<1>3. (Inv /\ Recorded /\ LoadOK /\ CacheOK) /\ LoadInv /\ [HNext]_hvars => LoadInv'
  BY LoadInvStep
<1>4. HSpec => []LoadInv
  BY <1>2, <1>3, LoadInvInit, PTL DEF HSpec
<1>5. (Inv /\ Recorded /\ LoadOK /\ CacheOK) /\ LoadInv /\ Inv' /\ BoundInv /\ [HNext]_hvars => BoundInv'
  BY BoundStep
<1>6. HSpec => []BoundInv
  BY <1>2, <1>4, <1>5, BoundInit, PTL DEF HSpec
<1>7. QED
  BY <1>1, <1>6, PTL
===============================================================================
