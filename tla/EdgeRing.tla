------------------------------- MODULE EdgeRing -------------------------------
(***************************************************************************)
(* EdgeList and its queries with a history of what the application did with *)
(* its edges.  It is meant to make one GEntityEdge per edge, to store it,   *)
(* and afterwards to upset it again only to update it.  Nothing keeps it    *)
(* from setting the properties of an edge too early, from making a second   *)
(* object for a stored edge, or from an edge whose id holds the separator:  *)
(* the first two are remembered, the third ends the process.  The order in  *)
(* which edges were attached is remembered too, so that what the links      *)
(* should form can be stated.                                               *)
(***************************************************************************)
EXTENDS EdgeQueries

CONSTANT Updates   \* may an edge that is stored be upset again?

ASSUME UpdatesAssumption == Updates \in BOOLEAN

VARIABLES
  order,     (* history: node -> its edges, oldest first                   *)
  settled,   (* history: no edge has been upset again                      *)
  renewed    (* history: a second object was made for a stored edge        *)

rvars == <<vars, order, settled, renewed>>

RInit == Init /\ order = [n \in Node |-> <<>>] /\ settled = TRUE /\ renewed = FALSE

RCreate(e) ==
  /\ Create(e)
  /\ renewed' = (renewed \/ e \in DOMAIN rec)
  /\ UNCHANGED <<order, settled>>

Store(e) ==
  /\ e \in DOMAIN obj /\ e \notin DOMAIN rec
  /\ Upset(e)
  /\ order' = [n \in Node |-> IF e \in DOMAIN rec' /\ Incident(n, e)
                               THEN Append(order[n], e) ELSE order[n]]
  /\ UNCHANGED <<settled, renewed>>

Update(e) ==
  /\ Updates /\ e \in DOMAIN rec
  /\ Upset(e)
  /\ settled' = FALSE
  /\ UNCHANGED <<order, renewed>>

RSetProperties(e) == SetProperties(e) /\ UNCHANGED <<order, settled, renewed>>

RNext == \E e \in Edge : RCreate(e) \/ Store(e) \/ Update(e) \/ RSetProperties(e)

RSpec == RInit /\ [][RNext]_rvars

-------------------------------------------------------------------------------
\* The links of edge x in the list of n: the one that grows when an edge is
\* attached, which Inbound follows, and the other one.
GrowIn(r, n, x) == IF n = Src(x) THEN r[x][SRC_NEXT_INDEX] ELSE r[x][DST_PREV_INDEX]
OtherIn(r, n, x) == IF n = Src(x) THEN r[x][SRC_PREV_INDEX] ELSE r[x][DST_NEXT_INDEX]

\* Does n have the same role in both edges?
SameRole(n, x, y) == (Src(x) = n) <=> (Src(y) = n)

\* Each stored edge was stored by its only object, before anything else was done
\* with it.
Orderly == ~early /\ ~renewed

\* The ring that the growing links form while nothing is updated: the first edge
\* leads to the newest, the second back to the first, and every later edge to the
\* one attached before it -- but from the fourth on, an edge in which n has
\* another role than in its first edge skips the others and leads to the second.
\* The other link of the first edge stays at the second (upsetEdge).
RingAt(n) ==
  LET o == order[n]
  IN  o # <<>> =>
        /\ n \in DOMAIN head /\ head[n] = o[1]
        /\ GrowIn(rec, n, o[1]) = o[Len(o)]
        /\ OtherIn(rec, n, o[1]) = IF Len(o) = 1 THEN o[1] ELSE o[2]
        /\ \A k \in 2..Len(o) :
             GrowIn(rec, n, o[k]) = IF k <= 3 \/ SameRole(n, o[k], o[1])
                                      THEN o[k - 1] ELSE o[2]

RingShape == settled /\ Orderly => \A n \in Node : RingAt(n)
===============================================================================
