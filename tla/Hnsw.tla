--------------------------------- MODULE Hnsw ---------------------------------
(***************************************************************************)
(* The nearest-neighbour index of vectors: GHNSW                           *)
(* (src/src/operand/query/HNSW.cpp) on a GVirtualNetwork and a store.      *)
(*                                                                         *)
(* A GHNSW object is made for a store that may hold the layers an earlier  *)
(* object saved; it loads them with the first add or erase. A vector is    *)
(* its node; what the code asks of vectors is their distance. One call is  *)
(* several steps here, one for each link, so that what a call does half    *)
(* can be seen: an exception ends it where it is.                          *)
(***************************************************************************)
EXTENDS VirtualNetwork, FiniteSetsExt

CONSTANTS
  Dist,       (* the distance of the vectors of two nodes                  *)
  Null,       (* the data of an edge that was loaded                       *)
  M,          (* the number of neighbours, 16 in init                      *)
  Ef,         (* the size of the candidate list, 16 in init                *)
  SaveAgain   (* does the application save an object more than once?       *)

ASSUME NodeAssumption == Node \subseteq Nat /\ IsFiniteSet(Node)
ASSUME DistAssumption == Dist \in [Node -> [Node -> Nat]]
ASSUME InfoAssumption ==
  /\ Null \in Info /\ Null \notin Nat /\ Info \subseteq Nat \cup {Null}
  /\ 0 \in Info /\ \A n, m \in Node : Dist[n][m] \in Info
ASSUME SizeAssumption == M \in Nat /\ M >= 2 /\ Ef \in Nat \ {0}
ASSUME TopAssumption ==
  IsFiniteSet(Layer) /\ 0 \in Layer /\ \A l \in Layer : 0..l \subseteq Layer
ASSUME SaveAgainAssumption == SaveAgain \in BOOLEAN

VARIABLES
  vectors,  (* the nodes whose vector the property map holds               *)
  layers,   (* the layer maps: for every layer, node -> saved neighbours   *)
  status,   (* of the GHNSW object: closed, open, aborted by an assert     *)
  cache,    (* _cache: the nodes of every layer                            *)
  net,      (* the network                                                 *)
  ids,      (* the last id of _edgeIDGenerator                             *)
  updated,  (* _updated                                                    *)
  job,      (* the call that executes, and what it still has to do         *)
  saves,    (* how often the object was saved                              *)
  loaded    (* have links been loaded into the network?                    *)

hvars == <<vectors, layers, status, cache, net, ids, updated, job, saves, loaded>>
disk == <<vectors, layers>>

NoNode == -1
Idle == [op |-> "idle", node |-> NoNode, level |-> 0, at |-> 0, ep |-> NoNode,
         near |-> {}, todo |-> {}]

-------------------------------------------------------------------------------
(* Search *)

\* neighborhood: of the network, or of the store while the network is empty.
Neighborhood(g, saved, n, l) ==
  IF g.nodes # {} THEN Neighbors(g, n, l)
  ELSE IF n \in DOMAIN saved[l] THEN saved[l][n] ELSE {}

\* One neighbour in the inner loop of queryLayer; far is the distance of the
\* farthest element when the loop began. candidates and W are maps from the
\* distance: of two nodes equally far only the later is kept. found (elements) is in
\* the order of the ids and nothing leaves it: the templates of gutil.h compare
\* tuples as the standard library does, so the id decides, and what is to be
\* erased, having no vector, equals no element.
Met(q, topK, far, s, x) ==
  LET d == Dist[q][x]
      W == Put(s.W, d, x)
  IN  IF x \in s.visited THEN s
      ELSE IF d > far /\ Cardinality(DOMAIN s.W) >= topK
      THEN [s EXCEPT !.visited = @ \cup {x}]
      ELSE [visited |-> s.visited \cup {x}, found |-> s.found \cup {x},
            candidates |-> Put(s.candidates, d, x),
            W |-> IF Cardinality(DOMAIN W) > topK THEN Without(W, Max(DOMAIN W)) ELSE W]

\* The outer loop of queryLayer for the nearest candidate.
Expand(g, saved, q, topK, l, s) ==
  LET d == Min(DOMAIN s.candidates)
      x == s.candidates[d]
      far == Max(DOMAIN s.W)
      next == Neighborhood(g, saved, x, l) \cup {x}
      upTo[k \in 0 .. Max(next) + 1] ==
        IF k = 0 THEN [s EXCEPT !.candidates = Without(@, d)]
        ELSE IF k - 1 \in next THEN Met(q, topK, far, upTo[k - 1], k - 1) ELSE upTo[k - 1]
  IN  IF s.candidates = NoEdges THEN s
      ELSE IF d > far THEN [s EXCEPT !.candidates = NoEdges]
      ELSE upTo[Max(next) + 1]

\* queryLayer: every node is a candidate once, the entry point perhaps twice.
QueryLayer(g, saved, q, ep, topK, l) ==
  LET first == Put(NoEdges, Dist[q][ep], ep)
      start == [visited |-> {}, candidates |-> first, W |-> first, found |-> {}]
      after[k \in 0 .. Cardinality(Node) + 1] ==
        IF k = 0 THEN start ELSE Expand(g, saved, q, topK, l, after[k - 1])
  IN  after[Cardinality(Node) + 1].found

\* entry: the least node of the highest layer that has one.
Top(c) == Max({l \in Layer : c[l] # {}})
Entry(c) == Min(c[Top(c)])

\* knnSearch: from the first neighbour of the first record of the top layer, down
\* to layer 0. An index that was never saved answers nothing.
Answer(g, saved, q, topK) ==
  LET kept == {l \in Layer : DOMAIN saved[l] # {}}
      top == Max(kept)
      start == Min(saved[top][Min(DOMAIN saved[top])])
      nearest[k \in 0..top] ==
        IF k = 0 THEN start
        ELSE Min(QueryLayer(g, saved, q, nearest[k - 1], topK, top - (k - 1)))
  IN  IF kept = {} THEN {} ELSE QueryLayer(g, saved, q, nearest[top], topK, 0)

-------------------------------------------------------------------------------
(* Loading *)

\* The constructor: a node saved in a layer is in the cache of those below.
Cached(saved) ==
  [l \in Layer |-> UNION {DOMAIN saved[m] : m \in {k \in Layer : k >= l}}]

\* Faulty variant: the first layer that has nodes, and not those below.
NodesOfTop(saved) ==
  UNION {DOMAIN saved[l] : l \in {k \in Layer : \A m \in Layer :
                                    m > k => DOMAIN saved[m] = {}}}

\* initNet, first pass: the nodes of every layer.
SavedNodes(saved) == UNION {DOMAIN saved[l] : l \in Layer}

\* Faulty variant: a pair is loaded from its lower node only.
ToLoadOnce(saved) ==
  {t \in Layer \X Node \X Node :
     t[2] \in DOMAIN saved[t[1]] /\ t[3] \in saved[t[1]][t[2]] /\ t[2] <= t[3]}

\* initNet, second pass: what readEachLayer meets, <<layer, node, neighbour>>; a
\* pair met before from the other side is skipped.
ToLoad(saved) ==
  {t \in Layer \X Node \X Node :
     /\ t[2] \in DOMAIN saved[t[1]] /\ t[3] \in saved[t[1]][t[2]]
     /\ t[3] \in DOMAIN saved[t[1]] => t[2] <= t[3]}

\* Layers from the top, nodes and their neighbours in order.
Earlier(s, t) ==
  \/ s[1] > t[1]
  \/ s[1] = t[1] /\ s[2] < t[2]
  \/ s[1] = t[1] /\ s[2] = t[2] /\ s[3] < t[3]

-------------------------------------------------------------------------------
(* Linking *)

\* Faulty variants: one edge too many; the edges of all layers counted together.
FullLate(g, n, l) == Cardinality(g.lists[n][l]) > M - 1
FullInAll(g, n, l) == Cardinality(UNION {g.lists[n][k] : k \in Layer}) >= M - 1

\* clipEdgeThenKeepNeighborSize: the last of the longest edges goes. A set with
\* the one network that is left.
Full(g, n, l) == Cardinality(g.lists[n][l]) >= M - 1

Before(g, j, i) ==
  \/ g.edges[j].info < g.edges[i].info
  \/ g.edges[j].info = g.edges[i].info /\ j <= i

Clipped(g, n, l) ==
  IF Full(g, n, l)
  THEN {WithoutEdge(g, i) : i \in {x \in g.lists[n][l] :
                                     \A y \in g.lists[n][l] : Before(g, y, x)}}
  ELSE {g}

\* What throws: at() for no node, and the conversion of the distance of an edge
\* that was loaded, which is null.
ClipThrows(g, n, l) ==
  \/ n \notin g.nodes
  \/ Full(g, n, l) /\ \E i \in g.lists[n][l] : g.edges[i].info = Null

\* Faulty variant: the edge is entered without data, as initNet does.
NoLength(n, m, near) == Null

\* mNodes[nid]: a neighbour that is not among the candidates is entered with 0.
Length(n, m, near) == IF m \in near THEN Dist[n][m] ELSE 0

\* What addNode2Edge does first in a layer: the candidates, and the neighbours,
\* which selectNeighbors takes from the top layer whatever the layer is.
InLayer(g, c, n, level, l, ep) ==
  [op |-> "link", node |-> n, level |-> level, at |-> l, ep |-> ep,
   near |-> QueryLayer(g, layers, n, ep, Ef, l),
   todo |-> QueryLayer(g, layers, n, Entry(c), M, Top(c)) \ {n}]

-------------------------------------------------------------------------------
HInit ==
  /\ vectors = {} /\ layers = [l \in Layer |-> NoEdges]
  /\ status = "closed" /\ cache = [l \in Layer |-> {}] /\ net = EmptyNet
  /\ ids = 0 /\ updated = FALSE /\ job = Idle /\ saves = 0 /\ loaded = FALSE

\* new GHNSW on a new network.
Open ==
  /\ status = "closed"
  /\ status' = "open" /\ cache' = Cached(layers)
  /\ UNCHANGED <<disk, net, ids, updated, job, saves, loaded>>

\* add and erase load the network if it is empty.
Call(op, n, level) ==
  /\ status = "open" /\ job = Idle
  /\ IF net.nodes = {}
     THEN /\ net' = [net EXCEPT !.nodes = SavedNodes(layers)]
          /\ job' = [Idle EXCEPT !.op = op, !.node = n, !.level = level,
                                 !.todo = ToLoad(layers)]
     ELSE /\ job' = [Idle EXCEPT !.op = op, !.node = n, !.level = level]
          /\ UNCHANGED net
  /\ UNCHANGED <<disk, status, cache, ids, updated, saves, loaded>>

\* initNet: addEdge twice for a saved neighbour, with the next id until one
\* succeeds.
LoadLink ==
  /\ status = "open" /\ job.op \in {"add", "erase"} /\ job.todo # {}
  /\ \E t \in job.todo :
       /\ \A s \in job.todo : s = t \/ Earlier(t, s)
       /\ LET l == t[1] k == t[2] n == t[3]
              i == ids + 1
              g == WithEdge(net, i, n, k, Null, l)
          IN  IF n \notin net.nodes
              THEN /\ status' = "aborted"
                   /\ UNCHANGED <<net, ids, job, loaded>>
              ELSE /\ net' = WithLink(net, i, n, k, Null, l)
                   /\ ids' = IF Adds(g, i, k, n, l) THEN i ELSE ids
                   /\ job' = [job EXCEPT !.todo = @ \ {t}]
                   /\ loaded' = TRUE
                   /\ UNCHANGED status
  /\ UNCHANGED <<disk, cache, updated, saves>>

Ready(op) == job.op = op /\ job.todo = {}

\* erase does no more than this.
Erase ==
  /\ Ready("erase") /\ status = "open"
  /\ updated' = TRUE /\ job' = Idle
  /\ UNCHANGED <<disk, status, cache, net, ids, saves, loaded>>

\* addDisk finds the vector: nothing is added.
AddKnown ==
  /\ Ready("add") /\ job.node \in vectors
  /\ job' = Idle
  /\ UNCHANGED <<disk, status, cache, net, ids, updated, saves, loaded>>

\* addDisk, addNode, and the start of addNode2Edge.
AddNew ==
  LET n == job.node
      g == WithNode(net, n)
      c == [l \in Layer |-> IF l <= job.level THEN cache[l] \cup {n} ELSE cache[l]]
      ep == IF Top(c) = job.level
            THEN Min(QueryLayer(g, layers, n, Entry(c), 1, Top(c))) ELSE Entry(c)
  IN  /\ Ready("add") /\ n \notin vectors
      /\ vectors' = vectors \cup {n} /\ cache' = c /\ net' = g
      /\ job' = InLayer(g, c, n, job.level, job.level, ep)
      /\ UNCHANGED <<layers, status, ids, updated, saves, loaded>>

\* One neighbour in addNode2Edge, in the order of their ids: room is made at both
\* ends and the edge is added. A throw ends the call there.
LinkTo(n, m, l) ==
  IF ClipThrows(net, n, l)
  THEN job' = Idle /\ UNCHANGED net
  ELSE \E g \in Clipped(net, n, l) :
         IF ClipThrows(g, m, l)
         THEN job' = Idle /\ net' = g
         ELSE /\ \E h \in Clipped(g, m, l) :
                   net' = WithLink(h, ids', n, m, Length(n, m, job.near), l)
              /\ job' = [job EXCEPT !.todo = @ \ {m}]

Link ==
  /\ status = "open" /\ job.op = "link"
  /\ ids' = ids + 1
  /\ \E m \in job.todo : (\A x \in job.todo : m <= x) /\ LinkTo(job.node, m, job.at)
  /\ UNCHANGED <<disk, status, cache, updated, saves, loaded>>

NextLayer ==
  /\ Ready("link")
  /\ IF job.at > 0
     THEN job' = InLayer(net, cache, job.node, job.level, job.at - 1, job.ep)
          /\ UNCHANGED updated
     ELSE job' = Idle /\ updated' = TRUE
  /\ UNCHANGED <<disk, status, cache, net, ids, saves, loaded>>

\* Faulty variant: the ids of the edges are written, those of another overload.
SavedEdges ==
  [l \in Layer |->
     LET now == {n \in cache[l] : Linked(net, n, l) # {}}
     IN  [n \in DOMAIN layers[l] \cup now |->
            IF n \in now THEN net.lists[n][l] ELSE layers[l][n]]]

\* Only nodes with neighbours are written; the records of others stay as they are.
Saved ==
  [l \in Layer |->
     LET now == {n \in cache[l] : Linked(net, n, l) # {}}
     IN  [n \in DOMAIN layers[l] \cup now |->
            IF n \in now THEN Linked(net, n, l) ELSE layers[l][n]]]

Save ==
  /\ status = "open" /\ job = Idle /\ (SaveAgain \/ saves = 0)
  /\ layers' = IF updated THEN Saved ELSE layers
  /\ saves' = 1
  /\ UNCHANGED <<vectors, status, cache, net, ids, updated, job, loaded>>

\* The destructor saves nothing.
Close ==
  /\ status = "open" /\ job = Idle
  /\ status' = "closed" /\ cache' = [l \in Layer |-> {}] /\ net' = EmptyNet
  /\ ids' = 0 /\ updated' = FALSE /\ saves' = 0 /\ loaded' = FALSE
  /\ UNCHANGED <<disk, job>>

HNext ==
  \/ Open \/ Save \/ Close
  \/ \E n \in Node, level \in Layer : Call("add", n, level)
  \/ \E n \in Node : Call("erase", n, 0)
  \/ LoadLink \/ Erase \/ AddKnown \/ AddNew \/ Link \/ NextLayer

HSpec == HInit /\ [][HNext]_hvars
-------------------------------------------------------------------------------
TypeOK ==
  /\ vectors \subseteq Node /\ status \in {"closed", "open", "aborted"}
  /\ \A l \in Layer : layers[l] \in [DOMAIN layers[l] -> SUBSET Node]
  /\ cache \in [Layer -> SUBSET Node] /\ net.nodes \subseteq Node
  /\ net.edges \in [DOMAIN net.edges -> Edge]
  /\ net.lists \in [Node -> [Layer -> SUBSET (1..ids)]]
  /\ ids \in Nat /\ updated \in BOOLEAN /\ loaded \in BOOLEAN /\ saves \in 0..1
  /\ job.todo \subseteq IF job.op = "link" THEN Node ELSE Layer \X Node \X Node

(* The lists of the nodes and the edges agree, whatever was linked, clipped, *)
(* loaded, or left half done by an exception: an edge is in the lists of its *)
(* two ends and nowhere else, leads both ways, and is the only one between   *)
(* them in its layer (addEdge, deleteEdge, addNode2Edge, initNet).           *)
ListsAgree == Listed(net) /\ Joined(net) /\ Single(net)

(* No node ever has M edges in a layer, in the first session or in a later   *)
(* one that loads what was saved: clipEdgeThenKeepNeighborSize makes room at *)
(* both ends before the edge is added (HNSW.cpp:248-251, 330-351).           *)
NeighborsBounded ==
  \A n \in Node, l \in Layer : Cardinality(net.lists[n][l]) < M

(* Once a network is loaded, and as long as only loaded links are in it and  *)
(* no call has ended, the neighbours of every node that was saved in a layer *)
(* are those it was saved with: the records of the two ends of a link never  *)
(* contradict each other (save, initNet).                                    *)
LoadsWhatWasSaved ==
  /\ job.op \in {"add", "erase"} /\ job.todo = {}
  /\ loaded /\ ~updated /\ \A i \in DOMAIN net.edges : net.edges[i].info = Null
  => \A l \in Layer : \A n \in DOMAIN layers[l] : Linked(net, n, l) = layers[l][n]

(* An assert fails only where a saved node has a neighbour that save wrote   *)
(* nowhere, because all its links in its own layers had been clipped: with   *)
(* every vector on record, loading succeeds (VirtualNetwork.cpp:62-63).      *)
AssertFailsForLostNode ==
  status = "aborted" => \E n \in vectors : \A l \in Layer : n \notin DOMAIN layers[l]

(* A query answers nodes whose vector is stored, whether it searches the     *)
(* network or the saved layers, and comes back with none only as long as     *)
(* nothing was saved (knnSearch, queryLayer, neighborhood).                  *)
AnswersStored ==
  status = "open" /\ job = Idle =>
    \A q \in vectors, topK \in 1..2 :
      LET a == Answer(net, layers, q, topK)
      IN  a \subseteq vectors /\ (a = {} => \A l \in Layer : DOMAIN layers[l] = {})

(* What a link displaces is at one end the longest of a full list of edges   *)
(* this object made, also when both ends have to make room                   *)
(* (clipEdgeThenKeepNeighborSize).                                           *)
OnlyLongestGo ==
  [][status' = "open" =>
       \A i \in DOMAIN net.edges \ DOMAIN net'.edges :
         LET e == net.edges[i]
         IN  \E n \in {e.from, e.to} :
               /\ Cardinality(net.lists[n][e.layer]) >= M - 1
               /\ \A j \in net.lists[n][e.layer] \cap net'.lists[n][e.layer] :
                    net.edges[j].info # Null /\ net.edges[j].info <= e.info]_hvars

(* An exception leaves an add half done only in a network that was loaded:   *)
(* the edges made by this object all know their distance                     *)
(* (addNode2Edge, initNet, clipEdgeThenKeepNeighborSize).                    *)
HalfDoneOnlyAfterLoad ==
  [][job.op = "link" /\ job.todo # {} /\ job'.op = "idle" => loaded]_hvars
===============================================================================
