-------------------------------- MODULE EdgeIds --------------------------------
(***************************************************************************)
(* The ids of edges and the patterns they are compared with: edge_id of    *)
(* gutil.h and gutil.cpp, GWalkVisitor of WalkVisitor.cpp and predictEdge  *)
(* of ScanPlan.cpp.  An end is a string or an integer; v is the bytes that *)
(* stand for it in the key, for an integer always IntSize of them.         *)
(***************************************************************************)
EXTENDS Integers, Sequences, SequencesExt

CONSTANTS
  FromLens,   (* the values of _from_len, 16 in the code                    *)
  Lens,       (* the values of _len, 256 in the code                        *)
  IntSize,    (* sizeof(uint64_t), 8 in the code                            *)
  Digit       (* the bytes that are digits                                  *)

ASSUME EdgeIdAssumption ==
  FromLens \in Nat \ {0} /\ Lens \in Nat \ {0} /\ IntSize \in Nat \ {0} /\ IntSize < FromLens

IntBytes(d) == [i \in 1 .. IntSize |-> d]

(* make_edge_id: the length of the start in its few bits, the sum of both  *)
(* in eight.  A sum too large writes past the memory that was taken, which *)
(* the rows of Scan do not do.                                             *)
FromLen(from) == Len(from.v) % FromLens
Overruns(from, to) == Len(to.v) + FromLen(from) >= Lens
MakeEdgeId(directed, from, to) ==
  [direction |-> directed, fromType |-> from.type, toType |-> to.type, fromLen |-> FromLen(from),
   value |-> SubSeq(from.v, 1, FromLen(from)) \o to.v]

(* get_from_to: the two parts, told apart by the length of the start.      *)
GetFrom(id) == [type |-> id.fromType, v |-> SubSeq(id.value, 1, id.fromLen)]
GetTo(id) == [type |-> id.toType, v |-> SubSeq(id.value, id.fromLen + 1, Len(id.value))]

(* GWalkVisitor: a walk is a list of nodes and arrows.  An arrow makes an  *)
(* edge with the node before it, a node completes the last edge.           *)
NoEnd == [none |-> TRUE]
Label(text) == [none |-> FALSE, text |-> IF text = <<"*">> THEN <<>> ELSE text]
MakeEdge(start, end, directed) == [start |-> start, end |-> end, direction |-> directed]
WalkStep(w, t) ==
  CASE t.tok = "arrow" /\ t.dir \in {"--", "->"} ->
         [w EXCEPT !.edges = Append(@, MakeEdge(w.node, NoEnd, t.dir = "->"))]
    [] t.tok = "arrow" /\ t.dir = "<-" ->
         [w EXCEPT !.edges = Append(@, MakeEdge(NoEnd, w.node, TRUE))]
    [] t.tok = "node" /\ w.edges = <<>> -> [w EXCEPT !.node = Label(t.text)]
    [] t.tok = "node" /\ w.edges # <<>> ->
         LET edge == Last(w.edges)
             full == IF edge.end.none THEN [edge EXCEPT !.end = Label(t.text)]
                     ELSE [edge EXCEPT !.start = Label(t.text)]
         IN [node |-> Label(t.text), edges |-> Append(Front(w.edges), full)]
WalkPattern(tokens) == FoldLeft(WalkStep, [node |-> NoEnd, edges |-> <<>>], tokens).edges

(* match_node and match_node_int: an empty label, and an empty string end, *)
(* go with everything; an integer is compared with the number the label    *)
(* begins with, 0 if it begins with none.                                  *)
MatchEnd(label, end) ==
  \/ label.text = <<>>
  \/ end.type = "str" /\ (end.v = <<>> \/ label.text = end.v)
  \/ end.type = "int" /\ end.v = IntBytes(IF Head(label.text) \in Digit THEN Head(label.text) ELSE "0")

MatchEnds(edge, from, to) == MatchEnd(edge.start, from) /\ MatchEnd(edge.end, to)

(* Faulty variant: a directed edge is also tried the other way.            *)
PredictEitherWay(id, edges) ==
  LET from == GetFrom(id)  to == GetTo(id)
      same == {i \in DOMAIN edges : edges[i].direction = id.direction}
      edge == edges[Min(same)]
  IN IF same = {} THEN "no"
     ELSE IF edge.start.none \/ edge.end.none THEN "undefined"
     ELSE IF MatchEnds(edge, from, to) \/ MatchEnds(edge, to, from) THEN "yes" ELSE "no"

(* predictEdge: the first edge of the pattern with the direction of the id *)
(* decides; without a direction the ends are also tried the other way.     *)
PredictEdge(id, edges) ==
  LET from == GetFrom(id)  to == GetTo(id)
      same == {i \in DOMAIN edges : edges[i].direction = id.direction}
      edge == edges[Min(same)]
  IN IF same = {} THEN "no"
     ELSE IF edge.start.none \/ edge.end.none THEN "undefined"
     ELSE IF MatchEnds(edge, from, to) \/ (~id.direction /\ MatchEnds(edge, to, from)) THEN "yes"
     ELSE "no"
=============================================================================
