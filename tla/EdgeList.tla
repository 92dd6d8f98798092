------------------------------- MODULE EdgeList -------------------------------
(***************************************************************************)
(* The native adjacency store of GQLite: upsetEdge and its helpers in      *)
(* src/StorageEngine/StorageEngine.cpp.                                    *)
(*                                                                         *)
(* A node map ("v:..." group) keeps for every node the id of one edge, the *)
(* node's first edge.  An edge map ("e:..." group) keeps for every edge a  *)
(* record of four edge ids.  The record of an edge s -> d is a member of   *)
(* two lists: src_prev and src_next belong to the list of s, dst_prev and  *)
(* dst_next to the list of d.                                              *)
(*                                                                         *)
(* The pair of its ends stands for the id of an edge: two bytes of header  *)
(* and the eight bytes of either node id, as they are in memory.  A record *)
(* is the four ids with a ',' between them, and every reader splits it at  *)
(* ',': a node id with a byte 0x2C (44, 300, 11264, ...) has its edges cut *)
(* into pieces.  So a record is modelled by what a reader sees of it, the  *)
(* sequence of the pieces between the commas.                              *)
(*                                                                         *)
(* Both ends of an edge live in one node group, the only way the code      *)
(* works (line 738 takes the group of the source for both).                *)
(***************************************************************************)
EXTENDS Integers, Sequences, FiniteSets

CONSTANTS
  Node,       (* node ids of the group                                     *)
  Edge,       (* the pairs <<source, destination>> that get linked         *)
  Commas(_),  (* how many bytes of a node id are 0x2C, the separator       *)
  Fragment,   (* a piece of an id that was cut at such a byte              *)
  None        (* the empty string getNodePrev and getNodeNext return for a *)
              (* node at neither end                                       *)

ASSUME EdgeAssumption == Edge \subseteq Node \X Node
ASSUME CommasAssumption == \A n \in Node : Commas(n) \in Nat
ASSUME NoneAssumption == None \notin Edge
ASSUME FragmentAssumption == Fragment \notin Edge

VARIABLES
  head,     (* the node map: node -> id of its first edge                  *)
  rec,      (* the edge map: edge id -> its record                         *)
  obj,      (* the caller's GEntityEdge objects: edge -> change status     *)
  aborted,  (* an assert of upsetEdge failed and the process is gone       *)
  early     (* history: an edge that was not stored was upset by an object *)
            (* that no longer says it is new                               *)

vars == <<head, rec, obj, aborted, early>>

Status == {"Latest", "PropertyChanged", "NoneChanged"}

\* The positions of the links in a record; the code counts from 0.
SRC_PREV_INDEX == 1
SRC_NEXT_INDEX == 2
DST_PREV_INDEX == 3
DST_NEXT_INDEX == 4

Src(e) == e[1]
Dst(e) == e[2]
Incident(n, e) == n = Src(e) \/ n = Dst(e)

NoEntries == [x \in {} |-> None]

\* A write of one key of a map, present or not.
Put(f, k, v) == [x \in DOMAIN f \cup {k} |-> IF x = k THEN v ELSE f[x]]

-------------------------------------------------------------------------------
(* Ids and records as strings.                                              *)

\* An id that survives the split of a record.
Whole(e) == e \in Edge => Commas(Src(e)) + Commas(Dst(e)) = 0

\* gql::split of one id.  A last empty piece, which split drops at the end of a
\* record, is left in: a cut id has two pieces, and only four are ever read.
Pieces(e) ==
  IF Whole(e) THEN <<e>>
  ELSE [i \in 1..(Commas(Src(e)) + Commas(Dst(e)) + 1) |-> Fragment]

\* The links l joined with ',' and split again: gql::merge and gql::split.
Record(l) ==
  Pieces(l[1]) \o Pieces(l[2]) \o Pieces(l[3]) \o Pieces(l[4]) \o SubSeq(l, 5, Len(l))

\* debugInfo: get_from_to of all four links, which to_edge_id refuses with its
\* assert when the length of the piece is not that of an id.
Readable(l) == \A i \in 1..4 : l[i] \in Edge
-------------------------------------------------------------------------------
(* The helpers of upsetEdge. r stands for the edge map, h for the node map. *)

GetNodePrev(r, n, e) ==
  IF e \notin DOMAIN r THEN e
  ELSE IF n = Src(e) THEN r[e][SRC_PREV_INDEX]
  ELSE IF n = Dst(e) THEN r[e][DST_PREV_INDEX] ELSE None

GetNodeNext(r, n, e) ==
  IF e \notin DOMAIN r THEN e
  ELSE IF n = Src(e) THEN r[e][SRC_NEXT_INDEX]
  ELSE IF n = Dst(e) THEN r[e][DST_NEXT_INDEX] ELSE None

\* lambdaSetNodeMap, for the source and then for the destination.
SetNodeMap(h, e) ==
  LET hs == IF Src(e) \in DOMAIN h THEN h ELSE Put(h, Src(e), e)
  IN  IF Dst(e) \in DOMAIN hs THEN hs ELSE Put(hs, Dst(e), e)

\* Faulty variant: the source's list used for both ends.
NewLinksOfSource(r, h, e) ==
  LET s == h[Src(e)]
      p == IF s = e THEN e ELSE GetNodePrev(r, Src(e), s)
      q == IF s = e THEN e ELSE GetNodeNext(r, Src(e), s)
  IN  Record(<<p, q, p, q>>)

\* The record written for a new edge, computed from the first edges of its ends.
NewLinks(r, h, e) ==
  LET s == h[Src(e)]
      d == h[Dst(e)]
  IN  Record(<<IF s = e THEN e ELSE GetNodePrev(r, Src(e), s),
               IF s = e THEN e ELSE GetNodeNext(r, Src(e), s),
               IF d = e THEN e ELSE GetNodePrev(r, Dst(e), d),
               IF d = e THEN e ELSE GetNodeNext(r, Dst(e), d)>>)

\* The two asserts of lambdaUpdateEdge: the node has a first edge, and that
\* edge has a record.
Connectable(r, h, n) == n \in DOMAIN h /\ h[n] \in DOMAIN r

\* Faulty variant: the link that grows is forgotten once the list has two edges.
ConnectWhenAlone(l, f, n, e) ==
  IF Src(f) = n /\ l[SRC_PREV_INDEX] = f
    THEN [l EXCEPT ![SRC_NEXT_INDEX] = e, ![SRC_PREV_INDEX] = e]
  ELSE IF Dst(f) = n /\ l[DST_NEXT_INDEX] = f
    THEN [l EXCEPT ![DST_PREV_INDEX] = e, ![DST_NEXT_INDEX] = e]
  ELSE l

\* The links l of n's first edge f once e is connected to it.  A source grows its
\* next link, a destination its prev link; the opposite link moves only while f
\* is alone in the list.
Connect(l, f, n, e) ==
  IF Src(f) = n
    THEN [l EXCEPT ![SRC_NEXT_INDEX] = e, ![SRC_PREV_INDEX] = IF @ = f THEN e ELSE @]
  ELSE IF Dst(f) = n
    THEN [l EXCEPT ![DST_PREV_INDEX] = e, ![DST_NEXT_INDEX] = IF @ = f THEN e ELSE @]
  ELSE l

\* lambdaUpdateEdge: the record of n's first edge is read, connected, written.
UpdateEdge(r, h, n, e) == Put(r, h[n], Record(Connect(r[h[n]], h[n], n, e)))

\* Faulty variant: the destination is not connected.
UpdateSourceEdge(r, h, e) == UpdateEdge(r, h, Src(e), e)

\* "update connect edge": the source first, then the destination.
UpdateEdges(r, h, e) == UpdateEdge(UpdateEdge(r, h, Src(e), e), h, Dst(e), e)

\* Faulty variant: the records are not printed and so not read back.
Connected(r, h, e) == Connectable(r, h, Src(e)) /\ Connectable(r, h, Dst(e))

\* No assert stops the two updates: neither their own, nor those of debugInfo,
\* which reads back what each of them wrote.
Updatable(r, h, e) ==
  /\ Connectable(r, h, Src(e))
  /\ Readable(UpdateEdge(r, h, Src(e), e)[h[Src(e)]])
  /\ Connectable(r, h, Dst(e))
  /\ Readable(UpdateEdges(r, h, e)[h[Dst(e)]])
-------------------------------------------------------------------------------
Init ==
  /\ head = NoEntries
  /\ rec = NoEntries
  /\ obj = NoEntries
  /\ aborted = FALSE
  /\ early = FALSE

\* new GEntityEdge(group, from, to): a second object for an edge that is
\* already stored is as new as the first.  The caller keeps one per edge.
Create(e) ==
  /\ ~aborted
  /\ obj' = Put(obj, e, "Latest")
  /\ UNCHANGED <<head, rec, aborted, early>>

\* setProperties: from now on the object does not say that its edge is new.
SetProperties(e) ==
  /\ ~aborted
  /\ e \in DOMAIN obj
  /\ obj' = Put(obj, e, "PropertyChanged")
  /\ UNCHANGED <<head, rec, aborted, early>>

\* Faulty variant: the edge is connected before its record is written.
UpsetConnectsFirst(e) ==
  LET new == obj[e] = "Latest"
      h == IF new THEN SetNodeMap(head, e) ELSE head
      ok == Updatable(rec, h, e)
      r == IF ok THEN UpdateEdges(rec, h, e) ELSE rec
  IN  /\ ~aborted
      /\ e \in DOMAIN obj
      /\ early' = (early \/ (~new /\ e \notin DOMAIN rec))
      /\ aborted' = ~ok
      /\ head' = IF ok THEN h ELSE head
      /\ rec' = IF ok /\ new THEN Put(r, e, NewLinks(r, h, e)) ELSE r
      /\ obj' = IF ok /\ new THEN Put(obj, e, "NoneChanged") ELSE obj

\* upsetEdge: only an object in status Latest writes a record of its own; every
\* object, new or old, is then connected to the first edges of its two ends.  A
\* failed assert ends the process, and the writes of its transaction with it.
Upset(e) ==
  LET new == obj[e] = "Latest"
      h == IF new THEN SetNodeMap(head, e) ELSE head
      r == IF new THEN Put(rec, e, NewLinks(rec, h, e)) ELSE rec
      ok == Updatable(r, h, e)
  IN  /\ ~aborted
      /\ e \in DOMAIN obj
      /\ early' = (early \/ (~new /\ e \notin DOMAIN rec))
      /\ aborted' = ~ok
      /\ head' = IF ok THEN h ELSE head
      /\ rec' = IF ok THEN UpdateEdges(r, h, e) ELSE rec
      /\ obj' = IF ok /\ new THEN Put(obj, e, "NoneChanged") ELSE obj

Next == \E e \in Edge : Create(e) \/ SetProperties(e) \/ Upset(e)

Spec == Init /\ [][Next]_vars

-------------------------------------------------------------------------------
\* What the maps and the objects hold (upsetEdge).
TypeOK ==
  /\ DOMAIN head \subseteq Node /\ head \in [DOMAIN head -> Edge]
  /\ DOMAIN rec \subseteq Edge
  /\ rec \in [DOMAIN rec -> Seq(Edge \cup {None, Fragment})]
  /\ DOMAIN obj \subseteq Edge /\ obj \in [DOMAIN obj -> Status]
  /\ aborted \in BOOLEAN
  /\ early \in BOOLEAN

\* No upset leaves a record that a reader would see in other pieces than it was
\* written: the first upset of an edge with a cut id ends the process, because
\* debugInfo reads back each record that names it (upsetEdge, to_edge_id).
RecordsWhole ==
  \A e \in DOMAIN rec :
    /\ Whole(e) /\ Len(rec[e]) = 4
    /\ \A i \in 1..4 : rec[e][i] \in Edge \cup {None} /\ Whole(rec[e][i])

\* The asserts of upsetEdge and of its helpers fail for two reasons only: an id
\* with the separator in it, or properties set before an edge was stored.
AbortsExplained == aborted => early \/ \E e \in DOMAIN obj : ~Whole(e)

\* Every first edge of a node is stored and ends at the node; and as long as no
\* edge was upset early, every link of a stored record is itself stored and ends
\* at the node whose list it is in: a walk over a node's list never meets an
\* edge of another node (the asserts at lines 101 and 856) nor a missing record.
StoredAt(r, n, e) == e \in DOMAIN r /\ Incident(n, e)

HeadsIncident(r, h) == \A n \in DOMAIN h : StoredAt(r, n, h[n])

LinksIncident(r) ==
  \A e \in DOMAIN r :
    /\ StoredAt(r, Src(e), r[e][SRC_PREV_INDEX]) /\ StoredAt(r, Src(e), r[e][SRC_NEXT_INDEX])
    /\ StoredAt(r, Dst(e), r[e][DST_PREV_INDEX]) /\ StoredAt(r, Dst(e), r[e][DST_NEXT_INDEX])

ListsStayAtTheirNode == HeadsIncident(rec, head) /\ (early \/ LinksIncident(rec))

-------------------------------------------------------------------------------
\* "assert(eid._len == id.size() - 2);" (to_edge_id, gutil.cpp:244): every id that
\* is read from a record has the length its header says.
IdsKeepTheirLength == aborted => early
===============================================================================
