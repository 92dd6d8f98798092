----------------------------- MODULE EdgeQueries ------------------------------
(***************************************************************************)
(* The queries over the lists of EdgeList: foreach and its three callers   *)
(* getVertexInbound, getVertexOutbound and getVertexNeighbors.  A query     *)
(* starts at the first edge of a node and follows one link per edge until   *)
(* the link leads back to the first edge.                                   *)
(*                                                                          *)
(* The code calls Inbound the edges whose SOURCE is the node and Outbound   *)
(* those whose destination is the node; test/storage.cpp:190-199 expects    *)
(* exactly that, so the names are kept.                                     *)
(***************************************************************************)
EXTENDS EdgeList

\* Faulty variant: the role of the node is not looked at.
InboundLinkNoRole(n, e) == rec[e][SRC_NEXT_INDEX]

\* The link each query follows from edge e of node n.
InboundLink(n, e) == IF n = Src(e) THEN rec[e][SRC_NEXT_INDEX] ELSE rec[e][DST_PREV_INDEX]
OutboundLink(n, e) == IF n = Src(e) THEN rec[e][SRC_PREV_INDEX] ELSE rec[e][DST_NEXT_INDEX]

\* getVertexNeighbors tests the destination first ...
NeighborLink(n, e) == IF n = Dst(e) THEN rec[e][DST_NEXT_INDEX] ELSE rec[e][SRC_PREV_INDEX]
\* ... and ends where edges[0], the src_prev link whatever the role of n, is the
\* first edge.
NeighborStop(n, e) == rec[e][SRC_PREV_INDEX] = head[n]

\* Which edges Inbound and Outbound put in their answer.
InboundTakes(n, e) == n = Src(e)
OutboundTakes(n, e) == n # Src(e)

-------------------------------------------------------------------------------
\* Visits(n, Link): what foreach visits, in order, up to one edge more than there
\* are edges: visit k is the edge after visit k - 1.
Limit == Cardinality(Edge) + 1

Visits(n, Link(_, _)) ==
  LET at[k \in 1..Limit] == IF k = 1 THEN head[n] ELSE Link(n, at[k - 1])
  IN  at

\* foreach ends after visit k: the link of that edge is the first edge.
EndsAt(n, Link(_, _), Stop(_, _), k) ==
  LET at == Visits(n, Link)
  IN  Stop(n, at[k]) /\ \A j \in 1..(k - 1) : ~Stop(n, at[j])

Terminates(n, Link(_, _), Stop(_, _)) ==
  n \in DOMAIN head => \E k \in 1..Limit : EndsAt(n, Link, Stop, k)

\* The edges visited before the end, as a sequence; only for queries that end.
Walk(n, Link(_, _), Stop(_, _)) ==
  IF n \notin DOMAIN head THEN <<>>
  ELSE LET k == CHOOSE k \in 1..Limit : EndsAt(n, Link, Stop, k)
       IN  [j \in 1..k |-> Visits(n, Link)[j]]

InboundStop(n, e) == InboundLink(n, e) = head[n]
OutboundStop(n, e) == OutboundLink(n, e) = head[n]

\* The visitor of a query appends to its answer each visited edge it takes.
Answer(walk, takes) ==
  LET upTo[k \in 0..Len(walk)] ==
        IF k = 0 THEN <<>>
        ELSE IF walk[k] \in takes THEN Append(upTo[k - 1], walk[k]) ELSE upTo[k - 1]
  IN  upTo[Len(walk)]

Inbound(n) ==
  Answer(Walk(n, InboundLink, InboundStop), {e \in DOMAIN rec : InboundTakes(n, e)})
Outbound(n) ==
  Answer(Walk(n, OutboundLink, OutboundStop), {e \in DOMAIN rec : OutboundTakes(n, e)})

InboundTerminates(n) == Terminates(n, InboundLink, InboundStop)
OutboundTerminates(n) == Terminates(n, OutboundLink, OutboundStop)
NeighborsTerminates(n) == Terminates(n, NeighborLink, NeighborStop)
===============================================================================
