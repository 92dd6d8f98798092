-------------------------- MODULE EdgeAnswersProofs ---------------------------
(***************************************************************************)
(* Proofs about the edge store, for every set of nodes and edges, whatever  *)
(* bytes their ids have and in whatever order the calls come.               *)
(*   EdgeList     types, that no cut record is stored, why asserts fail, and *)
(*                that every pointer of the edge lists stays within the list *)
(*                of its node                                                *)
(*   EdgeRing     the ring the growing links form while nothing is updated   *)
(*   EdgeAnswers  what the queries answer, whatever the graph and the        *)
(*                updates, and that the lists refine AdjacencyRing           *)
(***************************************************************************)
EXTENDS EdgeAnswers, Recursions, TLAPS, FiniteSetTheorems, SequenceTheorems

USE DEF SRC_PREV_INDEX, SRC_NEXT_INDEX, DST_PREV_INDEX, DST_NEXT_INDEX

\* The edges whose ids survive a split, and the records made of such ids.
Uncut == {e \in Edge : Whole(e)}
Links == [1..4 -> Uncut \cup {None}]

\* A node map and an edge map of uncut ids.
HeadType(h) == DOMAIN h \subseteq Node /\ h \in [DOMAIN h -> Uncut]
RecType(r) == DOMAIN r \subseteq Uncut /\ r \in [DOMAIN r -> Links]

\* What any record is split into: four pieces or more.
Piece == Edge \cup {None, Fragment}
Splits == {l \in Seq(Piece) : Len(l) >= 4}

\* The ends of an edge are nodes.
LEMMA EndsAreNodes == \A e \in Edge : Src(e) \in Node /\ Dst(e) \in Node
BY EdgeAssumption DEF Src, Dst

-------------------------------------------------------------------------------
(* Records as strings. *)

\* An id that is not cut is its own only piece; a cut one begins with a fragment.
LEMMA PiecesOf ==
  ASSUME NEW x \in Piece
  PROVE  /\ Pieces(x) \in Seq(Piece) /\ Len(Pieces(x)) >= 1
         /\ Whole(x) => Pieces(x) = <<x>>
         /\ ~Whole(x) => Pieces(x)[1] = Fragment
<1>1. CASE Whole(x)
  BY <1>1 DEF Pieces
<1>2. CASE ~Whole(x)
  <2> DEFINE m == Commas(Src(x)) + Commas(Dst(x)) + 1
  <2>1. x \in Edge
    BY <1>2 DEF Whole
  <2>2. Commas(Src(x)) \in Nat /\ Commas(Dst(x)) \in Nat
    BY <2>1, EndsAreNodes, CommasAssumption
  <2>3. m \in Nat /\ m >= 1
    BY <2>2
  <2>4. Pieces(x) = [i \in 1..m |-> Fragment]
    BY <1>2 DEF Pieces
  <2> HIDE DEF m
  <2>5. [i \in 1..m |-> Fragment] \in Seq(Piece) /\ Len([i \in 1..m |-> Fragment]) = m
    BY <2>3 DEF Piece
  <2>6. QED
    BY <1>2, <2>3, <2>4, <2>5
<1>3. QED
  BY <1>1, <1>2

\* Two strings of pieces joined.
LEMMA ConcatPieces ==
  ASSUME NEW s \in Seq(Piece), NEW u \in Seq(Piece)
  PROVE  /\ s \o u \in Seq(Piece) /\ Len(s \o u) = Len(s) + Len(u)
         /\ \A i \in 1..Len(s) : (s \o u)[i] = s[i]
         /\ Len(u) >= 1 => (s \o u)[Len(s) + 1] = u[1]
<1>1. Len(s) \in Nat /\ Len(u) \in Nat
  OBVIOUS
<1>2. /\ s \o u \in Seq(Piece) /\ Len(s \o u) = Len(s) + Len(u)
      /\ \A i \in 1..(Len(s) + Len(u)) :
           (s \o u)[i] = IF i <= Len(s) THEN s[i] ELSE u[i - Len(s)]
  BY ConcatProperties
<1>3. QED
  BY <1>1, <1>2

\* A record that is written is read as four pieces or more, beginning with those
\* of its first link; and as long as the links before it are whole, a link is
\* read where it was written.
LEMMA RecordPieces ==
  ASSUME NEW l \in Splits
  PROVE  LET t == Record(l) IN
         /\ t \in Splits
         /\ t[1] = Pieces(l[1])[1]
         /\ Whole(l[1]) => t[2] = Pieces(l[2])[1]
         /\ Whole(l[1]) /\ Whole(l[2]) => t[3] = Pieces(l[3])[1]
         /\ Whole(l[1]) /\ Whole(l[2]) /\ Whole(l[3]) =>
              t[4] = Pieces(l[4])[1] /\ (Whole(l[4]) => Len(t) = Len(l))
<1> DEFINE a == Pieces(l[1])
           b == Pieces(l[2])
           c == Pieces(l[3])
           d == Pieces(l[4])
           z == SubSeq(l, 5, Len(l))
           ab == a \o b
           abc == ab \o c
           abcd == abc \o d
           t == abcd \o z
<1>1. l \in Seq(Piece) /\ Len(l) \in Nat /\ Len(l) >= 4 /\ \A i \in 1..Len(l) : l[i] \in Piece
  BY DEF Splits
<1>2. l[1] \in Piece /\ l[2] \in Piece /\ l[3] \in Piece /\ l[4] \in Piece
  BY <1>1
<1>3. /\ a \in Seq(Piece) /\ b \in Seq(Piece) /\ c \in Seq(Piece) /\ d \in Seq(Piece)
      /\ Len(a) >= 1 /\ Len(b) >= 1 /\ Len(c) >= 1 /\ Len(d) >= 1
      /\ Whole(l[1]) => a = <<l[1]>>
      /\ Whole(l[2]) => b = <<l[2]>>
      /\ Whole(l[3]) => c = <<l[3]>>
      /\ Whole(l[4]) => d = <<l[4]>>
  BY <1>2, PiecesOf
<1>4. /\ Whole(l[1]) => Len(a) = 1
      /\ Whole(l[2]) => Len(b) = 1
      /\ Whole(l[3]) => Len(c) = 1
      /\ Whole(l[4]) => Len(d) = 1
      /\ Len(a) \in Nat /\ Len(b) \in Nat /\ Len(c) \in Nat /\ Len(d) \in Nat
  BY <1>3
<1>5. z \in Seq(Piece) /\ Len(z) \in Nat /\ Len(z) = Len(l) - 4
  <2>1. \A i \in 5..Len(l) : l[i] \in Piece
    BY <1>1
  <2>2. /\ SubSeq(l, 5, Len(l)) \in Seq(Piece)
        /\ Len(SubSeq(l, 5, Len(l))) = IF 5 <= Len(l) THEN Len(l) - 5 + 1 ELSE 0
    BY <1>1, <2>1, SubSeqProperties
  <2>3. \A m \in Nat : m >= 4 =>
          (IF 5 <= m THEN m - 5 + 1 ELSE 0) = m - 4 /\ m - 4 \in Nat
    OBVIOUS
  <2>4. QED
    BY <1>1, <2>2, <2>3
<1>6. Record(l) = t
  BY DEF Record
<1> HIDE DEF a, b, c, d, z
<1>7. /\ ab \in Seq(Piece) /\ Len(ab) = Len(a) + Len(b)
      /\ \A i \in 1..Len(a) : ab[i] = a[i]
      /\ ab[Len(a) + 1] = b[1]
  BY <1>3, ConcatPieces
<1> HIDE DEF ab
<1>8. /\ abc \in Seq(Piece) /\ Len(abc) = Len(ab) + Len(c)
      /\ \A i \in 1..Len(ab) : abc[i] = ab[i]
      /\ abc[Len(ab) + 1] = c[1]
  BY <1>3, <1>7, ConcatPieces
<1> HIDE DEF abc
<1>9. /\ abcd \in Seq(Piece) /\ Len(abcd) = Len(abc) + Len(d)
      /\ \A i \in 1..Len(abc) : abcd[i] = abc[i]
      /\ abcd[Len(abc) + 1] = d[1]
  BY <1>3, <1>8, ConcatPieces
<1> HIDE DEF abcd
<1>10. /\ t \in Seq(Piece) /\ Len(t) = Len(abcd) + Len(z)
       /\ \A i \in 1..Len(abcd) : t[i] = abcd[i]
  BY <1>5, <1>9, ConcatPieces
<1> HIDE DEF t
<1>11. /\ Len(ab) \in Nat /\ Len(abc) \in Nat /\ Len(abcd) \in Nat
       /\ Len(ab) >= 2 /\ Len(abc) >= 3 /\ Len(abcd) >= 4
  BY <1>3, <1>4, <1>7, <1>8, <1>9
<1>12. t \in Splits /\ \A i \in 1..4 : t[i] = abcd[i]
  BY <1>5, <1>10, <1>11 DEF Splits
<1>13. \A i \in 1..3 : abcd[i] = abc[i]
  BY <1>9, <1>11
<1>14. \A i \in 1..2 : abc[i] = ab[i]
  BY <1>8, <1>11
<1>15. t[1] = a[1] /\ t[2] = ab[2]
  BY <1>3, <1>4, <1>7, <1>12, <1>13, <1>14
<1>16. ASSUME Whole(l[1])
       PROVE  t[2] = b[1] /\ Len(ab) = 1 + Len(b)
  <2>1. Len(a) = 1
    BY <1>4, <1>16
  <2>2. QED
    BY <1>7, <1>15, <2>1
<1>17. ASSUME Whole(l[1]), Whole(l[2])
       PROVE  t[3] = c[1] /\ Len(abc) = 2 + Len(c)
  <2>0. Len(b) = 1 /\ Len(ab) = 1 + Len(b)
    BY <1>4, <1>16, <1>17
  <2>1. Len(ab) = 2
    BY <2>0
  <2>2. abc[3] = c[1] /\ Len(abc) = 2 + Len(c)
    BY <1>8, <2>1
  <2>3. QED
    BY <1>12, <1>13, <2>2
<1>18. ASSUME Whole(l[1]), Whole(l[2]), Whole(l[3])
       PROVE  t[4] = d[1] /\ (Whole(l[4]) => Len(t) = Len(l))
  <2>0. Len(c) = 1 /\ Len(abc) = 2 + Len(c)
    BY <1>4, <1>17, <1>18
  <2>1. Len(abc) = 3
    BY <2>0
  <2>2. abcd[4] = d[1]
    BY <1>9, <2>1
  <2>3. ASSUME Whole(l[4])
        PROVE  Len(t) = Len(l)
    <3>1. Len(d) = 1
      BY <1>4, <2>3
    <3>2. QED
      BY <1>1, <1>5, <1>9, <1>10, <2>1, <3>1
  <2>4. t[4] = d[1]
    BY <1>12, <2>2
  <2>5. QED
    BY <2>3, <2>4
<1>19. QED
  BY <1>6, <1>12, <1>15, <1>16, <1>17, <1>18 DEF a, b, c, d

\* Four whole links are read as they were written.
LEMMA LinksAreSplits == Links \subseteq Splits /\ \A l \in Links : Len(l) = 4
<1> SUFFICES ASSUME NEW l \in Links
             PROVE  l \in Splits /\ Len(l) = 4
  OBVIOUS
<1>1. l \in [1..4 -> Piece]
  BY DEF Links, Uncut, Piece
<1>2. l \in Seq(Piece)
  <2>1. [1..4 -> Piece] \in {[1..n -> Piece] : n \in Nat}
    OBVIOUS
  <2>2. QED
    BY <1>1, <2>1, SeqDef
<1>3. DOMAIN l = 1..4 /\ DOMAIN l = 1..Len(l) /\ Len(l) \in Nat
  BY <1>1, <1>2, LenProperties
<1>4. Len(l) = 4 /\ Len(l) >= 4
  BY <1>3
<1>5. QED
  BY <1>2, <1>4 DEF Splits

LEMMA RecordWhole ==
  ASSUME NEW l \in Links
  PROVE  Record(l) = l
<1>1. l \in Splits /\ l \in Seq(Piece) /\ Len(l) = 4
  BY LinksAreSplits DEF Splits
<1>2. \A i \in 1..4 : l[i] \in Piece /\ Whole(l[i])
  BY NoneAssumption DEF Links, Uncut, Whole, Piece
<1>3. l[1] \in Piece /\ l[2] \in Piece /\ l[3] \in Piece /\ l[4] \in Piece
  BY <1>2
<1>4. Whole(l[1]) /\ Whole(l[2]) /\ Whole(l[3]) /\ Whole(l[4])
  <2>1. 1 \in 1..4 /\ 2 \in 1..4 /\ 3 \in 1..4 /\ 4 \in 1..4
    OBVIOUS
  <2>2. QED
    BY <1>2, <2>1
<1>5. /\ Pieces(l[1]) = <<l[1]>> /\ Pieces(l[2]) = <<l[2]>>
      /\ Pieces(l[3]) = <<l[3]>> /\ Pieces(l[4]) = <<l[4]>>
  BY <1>3, <1>4, PiecesOf
<1> DEFINE t == Record(l)
<1>6. /\ t \in Splits /\ Len(t) = Len(l)
      /\ t[1] = Pieces(l[1])[1] /\ t[2] = Pieces(l[2])[1]
      /\ t[3] = Pieces(l[3])[1] /\ t[4] = Pieces(l[4])[1]
  BY <1>1, <1>4, RecordPieces
<1> HIDE DEF t
<1>7. t[1] = l[1] /\ t[2] = l[2] /\ t[3] = l[3] /\ t[4] = l[4]
  BY <1>5, <1>6
<1>8. t \in Seq(Piece) /\ Len(t) = 4
  BY <1>1, <1>6 DEF Splits
<1>9. \A i \in 1..4 : t[i] = l[i]
  BY <1>7
<1>10. t = l
  BY <1>1, <1>8, <1>9, SeqEqual
<1>11. QED
  BY <1>10 DEF t

\* A record with a cut link cannot be read: the first of them is seen as a
\* fragment at its place.
LEMMA RecordCut ==
  ASSUME NEW l \in Splits, NEW i \in 1..4, ~Whole(l[i])
  PROVE  ~Readable(Record(l))
<1> SUFFICES ASSUME Readable(Record(l))
             PROVE  FALSE
  OBVIOUS
<1>1. \A j \in 1..4 : Record(l)[j] \in Edge
  BY DEF Readable
<1>2. \A j \in 1..4 : l[j] \in Piece
  BY DEF Splits
<1>3. \A j \in 1..4 : ~Whole(l[j]) => Pieces(l[j])[1] \notin Edge
  BY <1>2, PiecesOf, FragmentAssumption
<1>4. Whole(l[1])
  BY <1>1, <1>3, RecordPieces
<1>5. Whole(l[2])
  BY <1>1, <1>3, <1>4, RecordPieces
<1>6. Whole(l[3])
  BY <1>1, <1>3, <1>4, <1>5, RecordPieces
<1>7. Whole(l[4])
  BY <1>1, <1>3, <1>4, <1>5, <1>6, RecordPieces
<1>8. i = 1 \/ i = 2 \/ i = 3 \/ i = 4
  OBVIOUS
<1>9. QED
  BY <1>4, <1>5, <1>6, <1>7, <1>8

\* Connecting e puts it among the first four links of a first edge f of n.
LEMMA ConnectSplit ==
  ASSUME NEW l \in Splits, NEW f, NEW n, NEW e \in Edge, Incident(n, f)
  PROVE  /\ Connect(l, f, n, e) \in Splits
         /\ \E i \in 1..4 : Connect(l, f, n, e)[i] = e
<1>1. l \in Seq(Piece) /\ Len(l) \in Nat /\ Len(l) >= 4 /\ e \in Piece
      /\ \A i \in 1..4 : i \in 1..Len(l) /\ l[i] \in Piece
  BY DEF Splits, Piece
<1>2. ASSUME NEW i \in 1..4, NEW j \in 1..4, i # j, NEW x \in Piece
      PROVE  [l EXCEPT ![i] = e, ![j] = x] \in Splits /\ [l EXCEPT ![i] = e, ![j] = x][i] = e
  <2> DEFINE k == [l EXCEPT ![i] = e]
  <2>1. k \in Seq(Piece) /\ Len(k) = Len(l) /\ k[i] = e
    BY <1>1, <1>2, ExceptSeq
  <2>2. [l EXCEPT ![i] = e, ![j] = x] = [k EXCEPT ![j] = x]
    OBVIOUS
  <2> HIDE DEF k
  <2>3. /\ [k EXCEPT ![j] = x] \in Seq(Piece) /\ Len([k EXCEPT ![j] = x]) = Len(k)
        /\ \A m \in 1..Len(k) : [k EXCEPT ![j] = x][m] = IF m = j THEN x ELSE k[m]
    BY <1>1, <1>2, <2>1, ExceptSeq
  <2>4. QED
    BY <1>1, <1>2, <2>1, <2>2, <2>3 DEF Splits
<1>3. CASE Src(f) = n
  <2> DEFINE x == IF l[1] = f THEN e ELSE l[1]
  <2>1. x \in Piece
    BY <1>1
  <2>2. Connect(l, f, n, e) = [l EXCEPT ![2] = e, ![1] = x]
    BY <1>3 DEF Connect
  <2> HIDE DEF x
  <2>3. /\ [l EXCEPT ![2] = e, ![1] = x] \in Splits
        /\ [l EXCEPT ![2] = e, ![1] = x][2] = e
    <3>1. 2 \in 1..4 /\ 1 \in 1..4 /\ 2 # 1
      OBVIOUS
    <3>2. QED
      BY <1>2, <2>1, <3>1
  <2>4. QED
    BY <2>2, <2>3
<1>4. CASE Src(f) # n
  <2> DEFINE x == IF l[4] = f THEN e ELSE l[4]
  <2>1. x \in Piece
    BY <1>1
  <2>2. Connect(l, f, n, e) = [l EXCEPT ![3] = e, ![4] = x]
    BY <1>4 DEF Connect, Incident
  <2> HIDE DEF x
  <2>3. /\ [l EXCEPT ![3] = e, ![4] = x] \in Splits
        /\ [l EXCEPT ![3] = e, ![4] = x][3] = e
    <3>1. 3 \in 1..4 /\ 4 \in 1..4 /\ 3 # 4
      OBVIOUS
    <3>2. QED
      BY <1>2, <2>1, <3>1
  <2>4. QED
    BY <2>2, <2>3
<1>5. QED
  BY <1>3, <1>4

-------------------------------------------------------------------------------
(* Writes of uncut ids. *)

\* A write of the node map, and of the edge map, changes one key.
LEMMA PutHead ==
  ASSUME NEW h, HeadType(h), NEW n \in Node, NEW e \in Uncut
  PROVE  /\ HeadType(Put(h, n, e))
         /\ DOMAIN Put(h, n, e) = DOMAIN h \cup {n}
         /\ Put(h, n, e)[n] = e
         /\ \A m \in DOMAIN h : m # n => Put(h, n, e)[m] = h[m]
BY DEF Put, HeadType

LEMMA PutRec ==
  ASSUME NEW r, RecType(r), NEW e \in Uncut, NEW l \in Links
  PROVE  /\ RecType(Put(r, e, l))
         /\ DOMAIN Put(r, e, l) = DOMAIN r \cup {e}
         /\ Put(r, e, l)[e] = l
         /\ \A f \in DOMAIN r : f # e => Put(r, e, l)[f] = r[f]
BY DEF Put, RecType

\* lambdaSetNodeMap gives both ends a first edge: their old one, or the new edge.
LEMMA SetNodeMapHeads ==
  ASSUME NEW h, HeadType(h), NEW e \in Uncut
  PROVE  LET g == SetNodeMap(h, e) IN
         /\ HeadType(g)
         /\ DOMAIN g = DOMAIN h \cup {Src(e), Dst(e)}
         /\ \A n \in DOMAIN h : g[n] = h[n]
         /\ \A n \in DOMAIN g : n \notin DOMAIN h => g[n] = e
<1> DEFINE hs == IF Src(e) \in DOMAIN h THEN h ELSE Put(h, Src(e), e)
<1> HIDE DEF hs
<1>0. Src(e) \in Node /\ Dst(e) \in Node
  BY EndsAreNodes DEF Uncut
<1>1. /\ HeadType(hs) /\ DOMAIN hs = DOMAIN h \cup {Src(e)}
      /\ \A n \in DOMAIN h : hs[n] = h[n]
      /\ \A n \in DOMAIN hs : n \notin DOMAIN h => hs[n] = e
  <2>1. CASE Src(e) \in DOMAIN h
    BY <2>1 DEF hs
  <2>2. CASE Src(e) \notin DOMAIN h
    <3>1. hs = Put(h, Src(e), e)
      BY <2>2 DEF hs
    <3>2. /\ HeadType(Put(h, Src(e), e))
          /\ DOMAIN Put(h, Src(e), e) = DOMAIN h \cup {Src(e)}
          /\ Put(h, Src(e), e)[Src(e)] = e
          /\ \A m \in DOMAIN h : m # Src(e) => Put(h, Src(e), e)[m] = h[m]
      BY <1>0, PutHead
    <3>3. QED
      BY <2>2, <3>1, <3>2
  <2>3. QED
    BY <2>1, <2>2
<1>2. SetNodeMap(h, e) = IF Dst(e) \in DOMAIN hs THEN hs ELSE Put(hs, Dst(e), e)
  BY DEF SetNodeMap, hs
<1>3. CASE Dst(e) \in DOMAIN hs
  BY <1>1, <1>2, <1>3
<1>4. CASE Dst(e) \notin DOMAIN hs
  <2>1. SetNodeMap(h, e) = Put(hs, Dst(e), e)
    BY <1>2, <1>4
  <2>2. /\ HeadType(Put(hs, Dst(e), e))
        /\ DOMAIN Put(hs, Dst(e), e) = DOMAIN hs \cup {Dst(e)}
        /\ Put(hs, Dst(e), e)[Dst(e)] = e
        /\ \A m \in DOMAIN hs : m # Dst(e) => Put(hs, Dst(e), e)[m] = hs[m]
    BY <1>0, <1>1, PutHead
  <2>3. QED
    BY <1>1, <1>4, <2>1, <2>2
<1>5. QED
  BY <1>3, <1>4

\* The record of a new edge has links of the right type.
LEMMA NewLinksType ==
  ASSUME NEW h, HeadType(h), NEW r, RecType(r), NEW e \in Uncut,
         Src(e) \in DOMAIN h, Dst(e) \in DOMAIN h
  PROVE  LET s == h[Src(e)]
             d == h[Dst(e)]
             l == NewLinks(r, h, e)
         IN  /\ l \in Links
             /\ l[SRC_PREV_INDEX] = IF s = e THEN e ELSE GetNodePrev(r, Src(e), s)
             /\ l[SRC_NEXT_INDEX] = IF s = e THEN e ELSE GetNodeNext(r, Src(e), s)
             /\ l[DST_PREV_INDEX] = IF d = e THEN e ELSE GetNodePrev(r, Dst(e), d)
             /\ l[DST_NEXT_INDEX] = IF d = e THEN e ELSE GetNodeNext(r, Dst(e), d)
<1> DEFINE X == Uncut \cup {None}
           s == h[Src(e)]
           d == h[Dst(e)]
           l == <<IF s = e THEN e ELSE GetNodePrev(r, Src(e), s),
                  IF s = e THEN e ELSE GetNodeNext(r, Src(e), s),
                  IF d = e THEN e ELSE GetNodePrev(r, Dst(e), d),
                  IF d = e THEN e ELSE GetNodeNext(r, Dst(e), d)>>
<1>1. ASSUME NEW n, NEW f \in Uncut
      PROVE  GetNodePrev(r, n, f) \in X /\ GetNodeNext(r, n, f) \in X
  BY DEF RecType, Links, GetNodePrev, GetNodeNext
<1>2. s \in Uncut /\ d \in Uncut
  BY DEF HeadType
<1>3. NewLinks(r, h, e) = Record(l)
  BY DEF NewLinks
<1> HIDE DEF s, d
<1>4. l \in Links
  BY <1>1, <1>2 DEF Links
<1>5. Record(l) = l
  BY <1>4, RecordWhole
<1>6. QED
  BY <1>3, <1>4, <1>5 DEF s, d

\* Connecting an edge keeps the links links.
LEMMA ConnectType ==
  ASSUME NEW l \in Links, NEW f, NEW n, NEW e \in Uncut
  PROVE  Connect(l, f, n, e) \in Links
BY DEF Connect, Links

\* lambdaUpdateEdge writes one existing record.
LEMMA UpdateEdgeType ==
  ASSUME NEW h, HeadType(h), NEW r, RecType(r), NEW e \in Uncut, NEW n,
         Connectable(r, h, n)
  PROVE  /\ RecType(UpdateEdge(r, h, n, e)) /\ DOMAIN UpdateEdge(r, h, n, e) = DOMAIN r
         /\ UpdateEdge(r, h, n, e) = Put(r, h[n], Connect(r[h[n]], h[n], n, e))
<1> DEFINE f == h[n]
           l == Connect(r[f], f, n, e)
<1>1. f \in DOMAIN r /\ f \in Uncut /\ r[f] \in Links
  BY DEF RecType, Connectable
<1>2. l \in Links
  BY <1>1, ConnectType
<1>3. UpdateEdge(r, h, n, e) = Put(r, f, l)
  BY <1>2, RecordWhole DEF UpdateEdge
<1> HIDE DEF f, l
<1>4. RecType(Put(r, f, l)) /\ DOMAIN Put(r, f, l) = DOMAIN r \cup {f}
  BY <1>1, <1>2, PutRec
<1>5. QED
  BY <1>1, <1>3, <1>4 DEF f, l

LEMMA UpdateEdgesType ==
  ASSUME NEW h, HeadType(h), NEW r, RecType(r), NEW e \in Uncut,
         Connectable(r, h, Src(e)), Connectable(r, h, Dst(e))
  PROVE  RecType(UpdateEdges(r, h, e)) /\ DOMAIN UpdateEdges(r, h, e) = DOMAIN r
<1> DEFINE q == UpdateEdge(r, h, Src(e), e)
<1>1. RecType(q) /\ DOMAIN q = DOMAIN r
  BY UpdateEdgeType
<1>2. Connectable(q, h, Dst(e))
  BY <1>1 DEF Connectable
<1> HIDE DEF q
<1>3. RecType(UpdateEdge(q, h, Dst(e), e)) /\ DOMAIN UpdateEdge(q, h, Dst(e), e) = DOMAIN q
  BY <1>1, <1>2, UpdateEdgeType
<1>4. QED
  BY <1>1, <1>3 DEF UpdateEdges, q

-------------------------------------------------------------------------------
(* Types, and records without cuts. *)

\* The part of the inductive invariant that holds whatever the application does.
\* A record is only ever written of uncut ids; every first edge is at its node,
\* which is what makes debugInfo meet the new edge in the first record it prints.
BInv ==
  /\ HeadType(head) /\ RecType(rec)
  /\ HeadsIncident(rec, head)
  /\ \A e \in DOMAIN rec : Src(e) \in DOMAIN head /\ Dst(e) \in DOMAIN head
  /\ DOMAIN obj \subseteq Edge /\ obj \in [DOMAIN obj -> Status]
  /\ aborted \in BOOLEAN /\ early \in BOOLEAN

\* What upsetEdge works on: whether the object is new, the node map and the edge map
\* once it was stored.
New(e) == obj[e] = "Latest"
HeadsOf(e) == IF New(e) THEN SetNodeMap(head, e) ELSE head
RecsOf(e) == IF New(e) THEN Put(rec, e, NewLinks(rec, HeadsOf(e), e)) ELSE rec

LEMMA UpsetOf ==
  ASSUME NEW e \in Edge, Upset(e)
  PROVE  /\ ~aborted /\ e \in DOMAIN obj
         /\ early' = (early \/ (~New(e) /\ e \notin DOMAIN rec))
         /\ aborted' = ~Updatable(RecsOf(e), HeadsOf(e), e)
         /\ ~aborted' => /\ head' = HeadsOf(e)
                         /\ rec' = UpdateEdges(RecsOf(e), HeadsOf(e), e)
                         /\ obj' = IF New(e) THEN Put(obj, e, "NoneChanged") ELSE obj
         /\ aborted' => head' = head /\ rec' = rec /\ obj' = obj
BY DEF Upset, New, HeadsOf, RecsOf

\* An edge with a cut id is never stored: the record of the first edge of its
\* source names it after the first update, and debugInfo reads that record.
LEMMA CutStops ==
  ASSUME BInv, NEW e \in Edge, ~Whole(e)
  PROVE  ~Updatable(RecsOf(e), HeadsOf(e), e)
<1> SUFFICES ASSUME Updatable(RecsOf(e), HeadsOf(e), e)
             PROVE  FALSE
  OBVIOUS
<1> DEFINE h == HeadsOf(e)
           r == RecsOf(e)
           n == Src(e)
           f == h[n]
<1>1. /\ n \in DOMAIN h /\ f \in DOMAIN r
      /\ Readable(UpdateEdge(r, h, n, e)[f])
  BY DEF Updatable, Connectable
<1>2. e \notin DOMAIN rec
  BY DEF BInv, RecType, Uncut
<1>3. f = e \/ (f \in DOMAIN rec /\ r[f] = rec[f] /\ n \in DOMAIN head /\ f = head[n])
  <2>1. CASE New(e)
    <3>1. h = SetNodeMap(head, e)
      BY <2>1 DEF HeadsOf
    <3>2. DOMAIN r = DOMAIN rec \cup {e} /\ \A x \in DOMAIN rec : r[x] = rec[x]
      BY <1>2, <2>1 DEF RecsOf, Put
    <3>3. f = e \/ (n \in DOMAIN head /\ f = head[n])
      BY <3>1 DEF SetNodeMap, Put
    <3> HIDE DEF f, r
    <3>4. QED
      BY <1>1, <3>2, <3>3
  <2>2. CASE ~New(e)
    BY <1>1, <2>2 DEF HeadsOf, RecsOf
  <2>3. QED
    BY <2>1, <2>2
<1>4. Incident(n, f)
  <2>1. CASE f = e
    BY <2>1 DEF Incident
  <2>2. CASE f # e
    BY <1>3, <2>2 DEF BInv, HeadsIncident, StoredAt
  <2>3. QED
    BY <2>1, <2>2
<1>5. r[f] \in Splits
  <2>1. CASE f # e
    <3>1. rec[f] \in Links
      BY <1>3, <2>1 DEF BInv, RecType
    <3>2. QED
      BY <1>3, <2>1, <3>1, LinksAreSplits
  <2>2. CASE f = e
    <3>1. New(e) /\ r[e] = NewLinks(rec, h, e)
      BY <1>1, <1>2, <2>2 DEF RecsOf, Put
    <3> HIDE DEF h
    <3> DEFINE s == h[Src(e)]
               d == h[Dst(e)]
               l == <<IF s = e THEN e ELSE GetNodePrev(rec, Src(e), s),
                      IF s = e THEN e ELSE GetNodeNext(rec, Src(e), s),
                      IF d = e THEN e ELSE GetNodePrev(rec, Dst(e), d),
                      IF d = e THEN e ELSE GetNodeNext(rec, Dst(e), d)>>
    <3>2. NewLinks(rec, h, e) = Record(l)
      BY DEF NewLinks
    <3>3. ASSUME NEW m, NEW x \in Edge
          PROVE  GetNodePrev(rec, m, x) \in Piece /\ GetNodeNext(rec, m, x) \in Piece
      BY DEF BInv, RecType, Links, Uncut, Piece, GetNodePrev, GetNodeNext
    <3>4. s \in Edge /\ d \in Edge /\ e \in Piece
      <4>1. h = SetNodeMap(head, e)
        BY <3>1 DEF HeadsOf, h
      <4>2. HeadType(head)
        BY DEF BInv
      <4>3. /\ Src(e) \in DOMAIN h /\ (h[Src(e)] = e \/ h[Src(e)] \in Edge)
            /\ Dst(e) \in DOMAIN h /\ (h[Dst(e)] = e \/ h[Dst(e)] \in Edge)
        BY <4>1, <4>2 DEF SetNodeMap, Put, HeadType, Uncut
      <4>4. QED
        BY <4>3 DEF Piece
    <3> HIDE DEF s, d
    <3>5. l \in Seq(Piece) /\ Len(l) >= 4
      BY <3>3, <3>4
    <3> HIDE DEF l
    <3>6. l \in Splits
      BY <3>5 DEF Splits
    <3>7. Record(l) \in Splits
      BY <3>6, RecordPieces
    <3>8. r[e] \in Splits
      BY <3>1, <3>2, <3>7
    <3>9. QED
      BY <2>2, <3>8
  <2>3. QED
    BY <2>1, <2>2
<1> DEFINE c == Connect(r[f], f, n, e)
<1>6. UpdateEdge(r, h, n, e)[f] = Record(c)
  BY DEF UpdateEdge, Put
<1> HIDE DEF r, h, f, n
<1>7. c \in Splits /\ \E i \in 1..4 : c[i] = e
  BY <1>4, <1>5, ConnectSplit
<1> HIDE DEF c
<1>8. PICK i \in 1..4 : c[i] = e
  BY <1>7
<1>9. ~Readable(Record(c))
  BY <1>7, <1>8, RecordCut
<1>10. QED
  BY <1>1, <1>6, <1>9

\* The maps once a new record is written, for an edge with an uncut id.
LEMMA MapsOf ==
  ASSUME BInv, NEW e \in Uncut
  PROVE  /\ HeadType(HeadsOf(e)) /\ RecType(RecsOf(e))
         /\ DOMAIN head \subseteq DOMAIN HeadsOf(e)
         /\ HeadsIncident(RecsOf(e), HeadsOf(e))
         /\ New(e) => /\ DOMAIN HeadsOf(e) = DOMAIN head \cup {Src(e), Dst(e)}
                      /\ DOMAIN RecsOf(e) = DOMAIN rec \cup {e}
         /\ ~New(e) => HeadsOf(e) = head /\ RecsOf(e) = rec
<1>1. HeadType(head) /\ RecType(rec) /\ HeadsIncident(rec, head)
  BY DEF BInv
<1>2. CASE ~New(e)
  BY <1>1, <1>2 DEF HeadsOf, RecsOf
<1>3. CASE New(e)
  <2> DEFINE h == SetNodeMap(head, e)
             l == NewLinks(rec, h, e)
             r == Put(rec, e, l)
  <2>1. HeadsOf(e) = h /\ RecsOf(e) = r
    BY <1>3 DEF HeadsOf, RecsOf
  <2>2. /\ HeadType(h) /\ DOMAIN h = DOMAIN head \cup {Src(e), Dst(e)}
        /\ \A n \in DOMAIN head : h[n] = head[n]
        /\ \A n \in DOMAIN h : n \notin DOMAIN head => h[n] = e
    BY <1>1, SetNodeMapHeads
  <2> HIDE DEF h
  <2>3. l \in Links
    BY <1>1, <2>2, NewLinksType
  <2> HIDE DEF l
  <2>4. RecType(r) /\ DOMAIN r = DOMAIN rec \cup {e}
    BY <1>1, <2>3, PutRec
  <2> HIDE DEF r
  <2>5. HeadsIncident(r, h)
    BY <1>1, <2>2, <2>4 DEF HeadsIncident, StoredAt, Incident
  <2>6. QED
    BY <1>3, <2>1, <2>2, <2>4, <2>5
<1>4. QED
  BY <1>2, <1>3

\* An upset that ends has an uncut id, and writes what UpdateEdges says.
LEMMA UpsetEnds ==
  ASSUME BInv, NEW e \in Edge, Upset(e), ~aborted'
  PROVE  /\ e \in Uncut
         /\ head' = HeadsOf(e) /\ rec' = UpdateEdges(RecsOf(e), HeadsOf(e), e)
         /\ Connectable(RecsOf(e), HeadsOf(e), Src(e))
         /\ Connectable(RecsOf(e), HeadsOf(e), Dst(e))
<1>1. Updatable(RecsOf(e), HeadsOf(e), e)
  BY UpsetOf
<1>2. e \in Uncut
  BY <1>1, CutStops DEF Uncut
<1>3. QED
  BY <1>1, <1>2, UpsetOf DEF Updatable

\* upsetEdge keeps the base invariant.
LEMMA UpsetKeepsBInv ==
  ASSUME BInv, NEW e \in Edge, Upset(e)
  PROVE  BInv'
<1>1. aborted' \in BOOLEAN /\ early' \in BOOLEAN
  BY UpsetOf DEF BInv
<1>2. CASE aborted'
  BY <1>1, <1>2, UpsetOf DEF BInv
<1>3. CASE ~aborted'
  <2> DEFINE h == HeadsOf(e)
             r == RecsOf(e)
  <2>1. /\ e \in Uncut /\ head' = h /\ rec' = UpdateEdges(r, h, e)
        /\ Connectable(r, h, Src(e)) /\ Connectable(r, h, Dst(e))
    BY <1>3, UpsetEnds
  <2>2. /\ HeadType(h) /\ RecType(r) /\ HeadsIncident(r, h)
        /\ DOMAIN head \subseteq DOMAIN h
        /\ New(e) => DOMAIN r = DOMAIN rec \cup {e}
        /\ ~New(e) => r = rec
    BY <2>1, MapsOf
  <2> HIDE DEF h, r
  <2>3. RecType(UpdateEdges(r, h, e)) /\ DOMAIN UpdateEdges(r, h, e) = DOMAIN r
    BY <2>1, <2>2, UpdateEdgesType
  <2>4. HeadType(head') /\ RecType(rec') /\ DOMAIN rec' = DOMAIN r
    BY <2>1, <2>2, <2>3
  <2>5. HeadsIncident(rec', head')
    BY <2>1, <2>2, <2>4 DEF HeadsIncident, StoredAt
  <2>6. \A x \in DOMAIN r : x \in DOMAIN rec \/ x = e
    BY <2>2
  <2>7. \A x \in DOMAIN rec' : Src(x) \in DOMAIN head' /\ Dst(x) \in DOMAIN head'
    BY <2>1, <2>2, <2>4, <2>6 DEF BInv, Connectable
  <2>8. DOMAIN obj' \subseteq Edge /\ obj' \in [DOMAIN obj' -> Status]
    BY <1>3, UpsetOf DEF BInv, Status, Put
  <2>9. QED
    BY <1>1, <2>4, <2>5, <2>7, <2>8 DEF BInv
<1>4. QED
  BY <1>2, <1>3

LEMMA StepKeepsBInv ==
  ASSUME BInv, [Next]_vars
  PROVE  BInv'
<1>1. ASSUME NEW e \in Edge, Create(e)
      PROVE  BInv'
  BY <1>1 DEF Create, BInv, Put, Status
<1>2. ASSUME NEW e \in Edge, SetProperties(e)
      PROVE  BInv'
  BY <1>2 DEF SetProperties, BInv, Put, Status
<1>3. ASSUME NEW e \in Edge, Upset(e)
      PROVE  BInv'
  BY <1>3, UpsetKeepsBInv
<1>4. CASE UNCHANGED vars
  BY <1>4 DEF vars, BInv
<1>5. QED
  BY <1>1, <1>2, <1>3, <1>4 DEF Next

LEMMA InitBInv == Init => BInv
BY DEF Init, BInv, NoEntries, HeadType, RecType, HeadsIncident

LEMMA BInvInvariant == Spec => []BInv
BY InitBInv, StepKeepsBInv, PTL DEF Spec

\* The node map and the edge map only ever hold edge ids and records of links, the
\* objects one of the three statuses (TypeOK of upsetEdge).
THEOREM TypeCorrect == Spec => []TypeOK
<1>1. BInv => TypeOK
  <2> SUFFICES ASSUME BInv
               PROVE  TypeOK
    OBVIOUS
  <2>1. \A e \in DOMAIN rec : rec[e] \in Seq(Piece)
    BY LinksAreSplits DEF BInv, RecType, Splits
  <2>2. rec \in [DOMAIN rec -> Seq(Piece)]
    BY <2>1 DEF BInv, RecType
  <2>3. QED
    BY <2>2 DEF TypeOK, BInv, HeadType, RecType, Uncut, Piece
<1>2. QED
  BY <1>1, BInvInvariant, PTL

\* Whatever bytes the ids have, a stored record is read back as it was written: the
\* upset of an edge with a cut id ends the process before its transaction commits.
THEOREM NoCutStored == Spec => []RecordsWhole
<1>1. BInv => RecordsWhole
  <2> SUFFICES ASSUME BInv, NEW e \in DOMAIN rec
               PROVE  /\ Whole(e) /\ Len(rec[e]) = 4
                      /\ \A i \in 1..4 : rec[e][i] \in Edge \cup {None} /\ Whole(rec[e][i])
    BY DEF RecordsWhole
  <2>1. e \in Uncut /\ rec[e] \in Links
    BY DEF BInv, RecType
  <2>2. Len(rec[e]) = 4
    BY <2>1, LinksAreSplits
  <2>3. \A i \in 1..4 : rec[e][i] \in Uncut \/ rec[e][i] = None
    BY <2>1 DEF Links
  <2>4. Whole(None)
    BY NoneAssumption DEF Whole
  <2>5. QED
    BY <2>1, <2>2, <2>3, <2>4 DEF Uncut
<1>2. QED
  BY <1>1, BInvInvariant, PTL

-------------------------------------------------------------------------------
(* The lists stay at their node. *)

\* The inductive invariant while no edge was upset early.  The links of a new
\* record are read from the first edges of its ends, and a first edge is connected
\* without looking at where the new edge goes, so heads and links must be incident
\* together.
IInv == BInv /\ LinksIncident(rec)

\* The inductive invariant: the links stay at their node until an edge is upset that
\* is not stored although its object says so; and nothing else but a cut id stops
\* an upset.
EInv == BInv /\ (~early => IInv) /\ AbortsExplained

\* An upset that ends, of an edge that it stores or that is stored.
Done(e) == Upset(e) /\ ~aborted' /\ ~early'

\* A link read from a stored edge of n is a stored edge of n.
LEMMA LinkOfHead ==
  ASSUME NEW r, LinksIncident(r), NEW n, NEW f, StoredAt(r, n, f)
  PROVE  StoredAt(r, n, GetNodePrev(r, n, f)) /\ StoredAt(r, n, GetNodeNext(r, n, f))
BY DEF LinksIncident, StoredAt, Incident, GetNodePrev, GetNodeNext

\* Connecting e changes links of the list of n only, and only to e.
LEMMA ConnectFields ==
  ASSUME NEW l \in Links, NEW f, NEW n, NEW e
  PROVE  LET c == Connect(l, f, n, e) IN
         /\ c[1] = l[1] \/ (c[1] = e /\ n = Src(f))
         /\ c[2] = l[2] \/ (c[2] = e /\ n = Src(f))
         /\ c[3] = l[3] \/ (c[3] = e /\ n = Dst(f))
         /\ c[4] = l[4] \/ (c[4] = e /\ n = Dst(f))
BY DEF Connect, Links

\* lambdaUpdateEdge keeps heads and links incident.
LEMMA UpdateEdgeIncident ==
  ASSUME NEW h, HeadType(h), NEW r, RecType(r), HeadsIncident(r, h), LinksIncident(r),
         NEW n \in DOMAIN h, NEW e \in Uncut, StoredAt(r, n, e)
  PROVE  HeadsIncident(UpdateEdge(r, h, n, e), h) /\ LinksIncident(UpdateEdge(r, h, n, e))
<1> DEFINE q == UpdateEdge(r, h, n, e)
           f == h[n]
           c == Connect(r[f], f, n, e)
<1>1. f \in DOMAIN r /\ r[f] \in Links /\ Connectable(r, h, n)
  BY DEF HeadsIncident, StoredAt, RecType, Connectable
<1>2. DOMAIN q = DOMAIN r /\ q[f] = c /\ \A x \in DOMAIN r : x # f => q[x] = r[x]
  <2>1. q = Put(r, f, c)
    BY <1>1, UpdateEdgeType
  <2> HIDE DEF q, f, c
  <2>2. QED
    BY <1>1, <2>1 DEF Put
<1>3. /\ c[1] = r[f][1] \/ (c[1] = e /\ n = Src(f))
      /\ c[2] = r[f][2] \/ (c[2] = e /\ n = Src(f))
      /\ c[3] = r[f][3] \/ (c[3] = e /\ n = Dst(f))
      /\ c[4] = r[f][4] \/ (c[4] = e /\ n = Dst(f))
  BY <1>1, ConnectFields
<1> HIDE DEF q, f, c
<1>4. HeadsIncident(q, h)
  BY <1>2 DEF HeadsIncident, StoredAt
<1>5. LinksIncident(q)
  <2> SUFFICES ASSUME NEW x \in DOMAIN r
               PROVE  /\ StoredAt(r, Src(x), q[x][1])
                      /\ StoredAt(r, Src(x), q[x][2])
                      /\ StoredAt(r, Dst(x), q[x][3])
                      /\ StoredAt(r, Dst(x), q[x][4])
    BY <1>2 DEF LinksIncident, StoredAt
  <2>1. /\ StoredAt(r, Src(x), r[x][1]) /\ StoredAt(r, Src(x), r[x][2])
        /\ StoredAt(r, Dst(x), r[x][3]) /\ StoredAt(r, Dst(x), r[x][4])
    BY DEF LinksIncident
  <2>2. CASE x # f
    BY <1>2, <2>1, <2>2
  <2>3. CASE x = f
    BY <1>2, <1>3, <2>1, <2>3
  <2>4. QED
    BY <2>2, <2>3
<1>6. QED
  BY <1>4, <1>5 DEF q


\* The record written for a new edge and the others are incident.
LEMMA NewRecordIncident ==
  ASSUME IInv, NEW e \in Uncut, New(e)
  PROVE  LinksIncident(RecsOf(e))
<1> DEFINE h == HeadsOf(e)
           l == NewLinks(rec, h, e)
           r == RecsOf(e)
<1>0. HeadType(head) /\ RecType(rec) /\ HeadsIncident(rec, head) /\ LinksIncident(rec)
  BY DEF IInv, BInv
<1>1. /\ HeadType(h) /\ DOMAIN h = DOMAIN head \cup {Src(e), Dst(e)}
      /\ \A n \in DOMAIN head : h[n] = head[n]
      /\ \A n \in DOMAIN h : n \notin DOMAIN head => h[n] = e
  BY <1>0, SetNodeMapHeads DEF HeadsOf
<1> HIDE DEF h
<1>2. /\ l \in Links
      /\ l[1] = IF h[Src(e)] = e THEN e ELSE GetNodePrev(rec, Src(e), h[Src(e)])
      /\ l[2] = IF h[Src(e)] = e THEN e ELSE GetNodeNext(rec, Src(e), h[Src(e)])
      /\ l[3] = IF h[Dst(e)] = e THEN e ELSE GetNodePrev(rec, Dst(e), h[Dst(e)])
      /\ l[4] = IF h[Dst(e)] = e THEN e ELSE GetNodeNext(rec, Dst(e), h[Dst(e)])
  <2>1. Src(e) \in DOMAIN h /\ Dst(e) \in DOMAIN h
    BY <1>1
  <2>2. HeadType(h) /\ RecType(rec)
    BY <1>0, <1>1
  <2>3. \A g : HeadType(g) /\ Src(e) \in DOMAIN g /\ Dst(e) \in DOMAIN g =>
          LET k == NewLinks(rec, g, e) IN
          /\ k \in Links
          /\ k[1] = IF g[Src(e)] = e THEN e ELSE GetNodePrev(rec, Src(e), g[Src(e)])
          /\ k[2] = IF g[Src(e)] = e THEN e ELSE GetNodeNext(rec, Src(e), g[Src(e)])
          /\ k[3] = IF g[Dst(e)] = e THEN e ELSE GetNodePrev(rec, Dst(e), g[Dst(e)])
          /\ k[4] = IF g[Dst(e)] = e THEN e ELSE GetNodeNext(rec, Dst(e), g[Dst(e)])
    BY <2>2, NewLinksType
  <2>4. QED
    BY <2>1, <2>2, <2>3
<1> HIDE DEF l
<1>3. DOMAIN r = DOMAIN rec \cup {e} /\ r[e] = l
      /\ \A f \in DOMAIN rec : f # e => r[f] = rec[f]
  <2>1. r = Put(rec, e, l)
    BY DEF RecsOf, l, h
  <2>2. RecType(rec) /\ l \in Links
    BY <1>0, <1>2
  <2> HIDE DEF r
  <2>3. /\ DOMAIN Put(rec, e, l) = DOMAIN rec \cup {e} /\ Put(rec, e, l)[e] = l
        /\ \A f \in DOMAIN rec : f # e => Put(rec, e, l)[f] = rec[f]
    BY <2>2, PutRec
  <2>4. QED
    BY <2>1, <2>3
<1> HIDE DEF r
<1>4. \A n \in DOMAIN h : h[n] # e => StoredAt(rec, n, h[n])
  BY <1>0, <1>1 DEF HeadsIncident
<1>5. \A n, x : StoredAt(rec, n, x) => StoredAt(r, n, x)
  BY <1>3 DEF StoredAt
<1>7. /\ StoredAt(r, Src(e), l[1]) /\ StoredAt(r, Src(e), l[2])
      /\ StoredAt(r, Dst(e), l[3]) /\ StoredAt(r, Dst(e), l[4])
  <2>1. \A n : Incident(n, e) => StoredAt(r, n, e)
    BY <1>3 DEF StoredAt
  <2>2. ASSUME NEW n \in DOMAIN h, h[n] # e
        PROVE  /\ StoredAt(r, n, GetNodePrev(rec, n, h[n]))
               /\ StoredAt(r, n, GetNodeNext(rec, n, h[n]))
    BY <1>0, <1>4, <1>5, <2>2, LinkOfHead
  <2>3. Src(e) \in DOMAIN h /\ Dst(e) \in DOMAIN h
        /\ Incident(Src(e), e) /\ Incident(Dst(e), e)
    BY <1>1 DEF Incident
  <2>4. QED
    BY <1>2, <2>1, <2>2, <2>3
<1>8. LinksIncident(r)
  <2> SUFFICES ASSUME NEW x \in DOMAIN r
               PROVE  /\ StoredAt(r, Src(x), r[x][1]) /\ StoredAt(r, Src(x), r[x][2])
                      /\ StoredAt(r, Dst(x), r[x][3]) /\ StoredAt(r, Dst(x), r[x][4])
    BY DEF LinksIncident
  <2>1. CASE x = e
    BY <1>3, <1>7, <2>1
  <2>2. CASE x # e
    <3>1. x \in DOMAIN rec /\ r[x] = rec[x]
      BY <1>3, <2>2
    <3>2. /\ StoredAt(rec, Src(x), rec[x][1]) /\ StoredAt(rec, Src(x), rec[x][2])
          /\ StoredAt(rec, Dst(x), rec[x][3]) /\ StoredAt(rec, Dst(x), rec[x][4])
      BY <1>0, <3>1 DEF LinksIncident
    <3>3. QED
      BY <1>5, <3>1, <3>2
  <2>3. QED
    BY <2>1, <2>2
<1>9. QED
  BY <1>8 DEF r

\* The maps once a new record is written, when nothing is upset early.
LEMMA IncidentMaps ==
  ASSUME IInv, NEW e \in Uncut, Upset(e), ~early'
  PROVE  /\ HeadType(HeadsOf(e)) /\ RecType(RecsOf(e))
         /\ HeadsIncident(RecsOf(e), HeadsOf(e)) /\ LinksIncident(RecsOf(e))
         /\ Src(e) \in DOMAIN HeadsOf(e) /\ Dst(e) \in DOMAIN HeadsOf(e)
         /\ StoredAt(RecsOf(e), Src(e), e) /\ StoredAt(RecsOf(e), Dst(e), e)
<1>0. BInv /\ e \in Edge
  BY DEF IInv, Uncut
<1>1. New(e) \/ e \in DOMAIN rec
  BY <1>0, UpsetOf
<1>2. LinksIncident(RecsOf(e))
  <2>1. CASE New(e)
    BY <2>1, NewRecordIncident
  <2>2. CASE ~New(e)
    BY <1>0, <2>2, MapsOf DEF IInv
  <2>3. QED
    BY <2>1, <2>2
<1>3. e \in DOMAIN RecsOf(e) /\ Src(e) \in DOMAIN HeadsOf(e) /\ Dst(e) \in DOMAIN HeadsOf(e)
  BY <1>0, <1>1, MapsOf DEF BInv
<1>4. QED
  BY <1>0, <1>2, <1>3, MapsOf DEF StoredAt, Incident

\* A record whose links are stored edges can be read.
LEMMA IncidentReadable ==
  ASSUME NEW r, RecType(r), LinksIncident(r), NEW f \in DOMAIN r
  PROVE  Readable(r[f])
<1>1. /\ StoredAt(r, Src(f), r[f][1]) /\ StoredAt(r, Src(f), r[f][2])
      /\ StoredAt(r, Dst(f), r[f][3]) /\ StoredAt(r, Dst(f), r[f][4])
  BY DEF LinksIncident
<1>2. r[f][1] \in Edge /\ r[f][2] \in Edge /\ r[f][3] \in Edge /\ r[f][4] \in Edge
  BY <1>1 DEF StoredAt, RecType, Uncut
<1>3. \A i \in 1..4 : i = 1 \/ i = 2 \/ i = 3 \/ i = 4
  OBVIOUS
<1>4. QED
  BY <1>2, <1>3 DEF Readable

\* The two updates are not stopped, and keep heads and links incident.
LEMMA UpdatesIncident ==
  ASSUME NEW h, HeadType(h), NEW r, RecType(r), HeadsIncident(r, h), LinksIncident(r),
         NEW e \in Uncut, Src(e) \in DOMAIN h, Dst(e) \in DOMAIN h,
         StoredAt(r, Src(e), e), StoredAt(r, Dst(e), e)
  PROVE  LinksIncident(UpdateEdges(r, h, e)) /\ Updatable(r, h, e)
<1> DEFINE q == UpdateEdge(r, h, Src(e), e)
           t == UpdateEdge(q, h, Dst(e), e)
<1>1. Connectable(r, h, Src(e)) /\ Connectable(r, h, Dst(e))
  BY DEF Connectable, HeadsIncident, StoredAt
<1>2. /\ RecType(q) /\ DOMAIN q = DOMAIN r
      /\ HeadsIncident(q, h) /\ LinksIncident(q)
  BY <1>1, UpdateEdgeType, UpdateEdgeIncident
<1>3. UpdateEdges(r, h, e) = t
  BY DEF UpdateEdges
<1>4. Readable(q[h[Src(e)]])
  BY <1>1, <1>2, IncidentReadable DEF Connectable
<1>5. Connectable(q, h, Dst(e)) /\ StoredAt(q, Dst(e), e)
  BY <1>1, <1>2 DEF Connectable, StoredAt
<1>6. RecType(t) /\ DOMAIN t = DOMAIN r /\ LinksIncident(t)
  <2> HIDE DEF q
  <2>1. QED
    BY <1>2, <1>5, UpdateEdgeType, UpdateEdgeIncident
<1>7. Readable(t[h[Dst(e)]])
  BY <1>1, <1>6, IncidentReadable DEF Connectable
<1>8. QED
  BY <1>1, <1>3, <1>4, <1>6, <1>7 DEF Updatable

\* upsetEdge keeps the links at their nodes, and only a cut id stops it.
LEMMA UpsetKeepsLinks ==
  ASSUME IInv, NEW e \in Edge, Upset(e), ~early'
  PROVE  LinksIncident(rec') /\ (aborted' => ~Whole(e))
<1>0. BInv
  BY DEF IInv
<1>1. CASE ~Whole(e)
  <2>1. aborted'
    BY <1>0, <1>1, CutStops, UpsetOf
  <2>2. rec' = rec
    BY <2>1, UpsetOf
  <2>3. QED
    BY <1>1, <2>2 DEF IInv
<1>2. CASE Whole(e)
  <2>1. e \in Uncut
    BY <1>2 DEF Uncut
  <2>2. /\ LinksIncident(UpdateEdges(RecsOf(e), HeadsOf(e), e))
        /\ Updatable(RecsOf(e), HeadsOf(e), e)
    BY <2>1, IncidentMaps, UpdatesIncident
  <2>3. ~aborted' /\ rec' = UpdateEdges(RecsOf(e), HeadsOf(e), e)
    BY <2>2, UpsetOf
  <2>4. QED
    BY <2>2, <2>3
<1>3. QED
  BY <1>1, <1>2

\* Every upset that is not early keeps IInv; an early one is remembered.
LEMMA UpsetKeepsIInv ==
  ASSUME IInv, NEW e \in Edge, Upset(e), ~early'
  PROVE  IInv'
<1>1. BInv'
  BY UpsetKeepsBInv DEF IInv
<1>2. LinksIncident(rec')
  BY UpsetKeepsLinks
<1>3. QED
  BY <1>1, <1>2 DEF IInv

LEMMA UpsetKeepsEInv ==
  ASSUME EInv, NEW e \in Edge, Upset(e)
  PROVE  EInv'
<1>1. BInv'
  BY UpsetKeepsBInv DEF EInv
<1>2. CASE early'
  BY <1>1, <1>2 DEF EInv, AbortsExplained
<1>3. CASE ~early'
  <2>1. ~early
    BY <1>3, UpsetOf
  <2>2. IInv
    BY <2>1 DEF EInv
  <2>3. IInv' /\ (aborted' => ~Whole(e))
    BY <1>3, <2>2, UpsetKeepsIInv, UpsetKeepsLinks
  <2>4. e \in DOMAIN obj /\ (aborted' => obj' = obj)
    BY UpsetOf
  <2>5. AbortsExplained'
    BY <2>3, <2>4 DEF AbortsExplained, Whole
  <2>6. QED
    BY <1>1, <2>3, <2>5 DEF EInv
<1>4. QED
  BY <1>2, <1>3

LEMMA StepKeepsEInv ==
  ASSUME EInv, [Next]_vars
  PROVE  EInv'
<1>0. BInv'
  BY StepKeepsBInv DEF EInv
<1>1. ASSUME NEW e \in Edge, Create(e) \/ SetProperties(e)
      PROVE  EInv'
  <2>1. ~aborted' /\ UNCHANGED <<rec, early>>
    BY <1>1 DEF Create, SetProperties
  <2>2. QED
    BY <1>0, <2>1 DEF EInv, IInv, AbortsExplained
<1>2. ASSUME NEW e \in Edge, Upset(e)
      PROVE  EInv'
  BY <1>2, UpsetKeepsEInv
<1>3. CASE UNCHANGED vars
  BY <1>0, <1>3 DEF vars, EInv, IInv, AbortsExplained, Whole
<1>4. QED
  BY <1>1, <1>2, <1>3 DEF Next

LEMMA InitEInv == Init => EInv
BY InitBInv DEF Init, EInv, IInv, AbortsExplained, NoEntries, LinksIncident

LEMMA EInvInvariant == Spec => []EInv
BY InitEInv, StepKeepsEInv, PTL DEF Spec

\* A walk over the list of a node never leaves it: every first edge is a stored edge
\* of that node, and so is every link unless an edge was upset early.
THEOREM ListsStay == Spec => []ListsStayAtTheirNode
<1>1. EInv => ListsStayAtTheirNode
  BY DEF EInv, IInv, BInv, ListsStayAtTheirNode
<1>2. QED
  BY <1>1, EInvInvariant, PTL

\* An assert of upsetEdge or of its helpers fails only for an edge whose id holds the
\* separator, or once an edge was upset early.
THEOREM AssertsHold == Spec => []AbortsExplained
<1>1. EInv => AbortsExplained
  BY DEF EInv
<1>2. QED
  BY <1>1, EInvInvariant, PTL

-------------------------------------------------------------------------------
(* EdgeRing: the shape of the lists while no edge is upset again. *)

\* What the history remembers: edges that are stored at their node, each once, and
\* every node that has a first edge.
OrderOK ==
  /\ order \in [Node -> Seq(Edge)]
  /\ \A n \in Node : \A k \in 1..Len(order[n]) : StoredAt(rec, n, order[n][k])
  /\ \A n \in Node : \A i, j \in 1..Len(order[n]) : order[n][i] = order[n][j] => i = j
  /\ \A n \in Node : n \in DOMAIN head => order[n] # <<>>

\* The ring and what keeps it up.
RingInv == IInv /\ OrderOK /\ \A n \in Node : RingAt(n)

\* The inductive invariant: the ring stands until an edge is upset again, or
\* something is done out of order.
RIInv == EInv /\ (settled /\ Orderly => RingInv)

-------------------------------------------------------------------------------
(* What one lambdaUpdateEdge and one new record do to the links of a node. *)

\* lambdaUpdateEdge moves the growing link of m's first edge to e, and the other
\* link too if the edge was alone; no other link of any list changes.
LEMMA UpdateEdgeLinks ==
  ASSUME NEW h, HeadType(h), NEW r, RecType(r), NEW e \in Uncut, NEW m \in DOMAIN h,
         StoredAt(r, m, h[m])
  PROVE  LET q == UpdateEdge(r, h, m, e)
             f == h[m]
         IN  /\ DOMAIN q = DOMAIN r
             /\ GrowIn(q, m, f) = e
             /\ OtherIn(q, m, f) = IF OtherIn(r, m, f) = f THEN e ELSE OtherIn(r, m, f)
             /\ \A n : \A x \in DOMAIN r : Incident(n, x) /\ (n # m \/ x # f) =>
                  GrowIn(q, n, x) = GrowIn(r, n, x) /\ OtherIn(q, n, x) = OtherIn(r, n, x)
<1> DEFINE q == UpdateEdge(r, h, m, e)
           f == h[m]
           c == Connect(r[f], f, m, e)
<1>1. f \in DOMAIN r /\ r[f] \in Links /\ (m = Src(f) \/ m = Dst(f))
  BY DEF StoredAt, RecType, Incident
<1>2. DOMAIN q = DOMAIN r /\ q[f] = c /\ \A x \in DOMAIN r : x # f => q[x] = r[x]
  <2>1. q = Put(r, f, c)
    BY <1>1, UpdateEdgeType DEF Connectable
  <2> HIDE DEF q, f, c
  <2>2. QED
    BY <1>1, <2>1 DEF Put
<1> HIDE DEF q, f
<1>3. m = Src(f) =>
        /\ c[2] = e /\ c[1] = IF r[f][1] = f THEN e ELSE r[f][1]
        /\ c[4] = r[f][4] /\ c[3] = r[f][3]
  BY <1>1 DEF Connect, Links
<1>4. m # Src(f) =>
        /\ c[3] = e /\ c[4] = IF r[f][4] = f THEN e ELSE r[f][4]
        /\ c[2] = r[f][2] /\ c[1] = r[f][1]
  BY <1>1 DEF Connect, Links
<1> HIDE DEF c
<1>5. /\ GrowIn(q, m, f) = e
      /\ OtherIn(q, m, f) = IF OtherIn(r, m, f) = f THEN e ELSE OtherIn(r, m, f)
  BY <1>1, <1>2, <1>3, <1>4 DEF GrowIn, OtherIn
<1>6. ASSUME NEW n, NEW x \in DOMAIN r, Incident(n, x), n # m \/ x # f
      PROVE  GrowIn(q, n, x) = GrowIn(r, n, x) /\ OtherIn(q, n, x) = OtherIn(r, n, x)
  <2>1. CASE x # f
    BY <1>2, <2>1 DEF GrowIn, OtherIn
  <2>2. CASE x = f /\ n # m
    BY <1>1, <1>2, <1>3, <1>4, <1>6, <2>2 DEF GrowIn, OtherIn, Incident
  <2>3. QED
    BY <1>6, <2>1, <2>2
<1>7. QED
  BY <1>2, <1>5, <1>6 DEF q, f

\* The links of a new record at its end m: the growing link and the other link of
\* m's first edge f if m has the same role in both, the two exchanged if not.
LEMMA NewRecordLinks ==
  ASSUME NEW h, HeadType(h), NEW r, RecType(r), NEW e \in Uncut, e \notin DOMAIN r,
         Src(e) \in DOMAIN h, Dst(e) \in DOMAIN h,
         \A n \in DOMAIN h : h[n] # e => StoredAt(r, n, h[n])
  PROVE  LET p == Put(r, e, NewLinks(r, h, e)) IN
         /\ DOMAIN p = DOMAIN r \cup {e}
         /\ \A n : \A x \in DOMAIN r :
              GrowIn(p, n, x) = GrowIn(r, n, x) /\ OtherIn(p, n, x) = OtherIn(r, n, x)
         /\ \A m : Incident(m, e) =>
              /\ h[m] = e => GrowIn(p, m, e) = e /\ OtherIn(p, m, e) = e
              /\ h[m] # e =>
                   /\ GrowIn(p, m, e) = IF SameRole(m, e, h[m]) THEN GrowIn(r, m, h[m])
                                        ELSE OtherIn(r, m, h[m])
                   /\ OtherIn(p, m, e) = IF SameRole(m, e, h[m]) THEN OtherIn(r, m, h[m])
                                         ELSE GrowIn(r, m, h[m])
<1> DEFINE l == NewLinks(r, h, e)
           p == Put(r, e, l)
<1>1. DOMAIN p = DOMAIN r \cup {e} /\ p[e] = l /\ \A x \in DOMAIN r : p[x] = r[x]
  BY DEF Put
<1>2. /\ l[1] = IF h[Src(e)] = e THEN e ELSE GetNodePrev(r, Src(e), h[Src(e)])
      /\ l[2] = IF h[Src(e)] = e THEN e ELSE GetNodeNext(r, Src(e), h[Src(e)])
      /\ l[3] = IF h[Dst(e)] = e THEN e ELSE GetNodePrev(r, Dst(e), h[Dst(e)])
      /\ l[4] = IF h[Dst(e)] = e THEN e ELSE GetNodeNext(r, Dst(e), h[Dst(e)])
  BY NewLinksType
<1> HIDE DEF l, p
<1>3. ASSUME NEW m, Incident(m, e)
      PROVE  /\ h[m] = e => GrowIn(p, m, e) = e /\ OtherIn(p, m, e) = e
             /\ h[m] # e =>
                  /\ GrowIn(p, m, e) = IF SameRole(m, e, h[m]) THEN GrowIn(r, m, h[m])
                                       ELSE OtherIn(r, m, h[m])
                  /\ OtherIn(p, m, e) = IF SameRole(m, e, h[m]) THEN OtherIn(r, m, h[m])
                                        ELSE GrowIn(r, m, h[m])
  <2>1. CASE h[m] = e
    BY <1>1, <1>2, <1>3, <2>1 DEF GrowIn, OtherIn, Incident
  <2>2. CASE h[m] # e
    <3> DEFINE f == h[m]
    <3>1. f \in DOMAIN r /\ (m = Src(f) \/ m = Dst(f))
      BY <1>3, <2>2 DEF StoredAt, Incident
    <3> HIDE DEF f
    <3>2. /\ GetNodeNext(r, m, f) = IF m = Src(f) THEN r[f][2] ELSE r[f][4]
          /\ GetNodePrev(r, m, f) = IF m = Src(f) THEN r[f][1] ELSE r[f][3]
      BY <3>1 DEF GetNodeNext, GetNodePrev
    <3>3. GrowIn(p, m, e) = IF m = Src(e) THEN GetNodeNext(r, m, f) ELSE GetNodePrev(r, m, f)
      BY <1>1, <1>2, <1>3, <2>2 DEF GrowIn, Incident, f
    <3>4. OtherIn(p, m, e) = IF m = Src(e) THEN GetNodePrev(r, m, f) ELSE GetNodeNext(r, m, f)
      BY <1>1, <1>2, <1>3, <2>2 DEF OtherIn, Incident, f
    <3>5. QED
      BY <2>2, <3>2, <3>3, <3>4 DEF GrowIn, OtherIn, SameRole, f
  <2>3. QED
    BY <2>1, <2>2
<1>4. QED
  BY <1>1, <1>3 DEF GrowIn, OtherIn, p, l

\* "update connect edge": the growing link of the first edge of each end leads to
\* e, the other link too if that edge was alone; nothing else changes.
LEMMA UpdateEdgesLinks ==
  ASSUME NEW h, HeadType(h), NEW r, RecType(r), NEW e \in Uncut, e \in DOMAIN r,
         Src(e) \in DOMAIN h, Dst(e) \in DOMAIN h, HeadsIncident(r, h)
  PROVE  LET t == UpdateEdges(r, h, e) IN
         /\ DOMAIN t = DOMAIN r
         /\ \A n : \A x \in DOMAIN r : Incident(n, x) /\ (~Incident(n, e) \/ x # h[n]) =>
              GrowIn(t, n, x) = GrowIn(r, n, x) /\ OtherIn(t, n, x) = OtherIn(r, n, x)
         /\ \A n : Incident(n, e) =>
              /\ GrowIn(t, n, h[n]) = e
              /\ OtherIn(t, n, h[n]) = IF OtherIn(r, n, h[n]) = h[n] THEN e
                                       ELSE OtherIn(r, n, h[n])
<1> DEFINE q == UpdateEdge(r, h, Src(e), e)
           t == UpdateEdge(q, h, Dst(e), e)
<1>1. UpdateEdges(r, h, e) = t
  BY DEF UpdateEdges
<1>2. StoredAt(r, Src(e), h[Src(e)]) /\ StoredAt(r, Dst(e), h[Dst(e)])
  BY DEF HeadsIncident
<1>3. /\ DOMAIN q = DOMAIN r
      /\ GrowIn(q, Src(e), h[Src(e)]) = e
      /\ OtherIn(q, Src(e), h[Src(e)]) =
           IF OtherIn(r, Src(e), h[Src(e)]) = h[Src(e)] THEN e
           ELSE OtherIn(r, Src(e), h[Src(e)])
      /\ \A n : \A x \in DOMAIN r : Incident(n, x) /\ (n # Src(e) \/ x # h[Src(e)]) =>
           GrowIn(q, n, x) = GrowIn(r, n, x) /\ OtherIn(q, n, x) = OtherIn(r, n, x)
  BY <1>2, UpdateEdgeLinks
<1>4. RecType(q)
  BY <1>2, UpdateEdgeType DEF Connectable, StoredAt
<1>5. StoredAt(q, Dst(e), h[Dst(e)])
  BY <1>2, <1>3 DEF StoredAt
<1> HIDE DEF q
<1>6. /\ DOMAIN t = DOMAIN q
      /\ GrowIn(t, Dst(e), h[Dst(e)]) = e
      /\ OtherIn(t, Dst(e), h[Dst(e)]) =
           IF OtherIn(q, Dst(e), h[Dst(e)]) = h[Dst(e)] THEN e
           ELSE OtherIn(q, Dst(e), h[Dst(e)])
      /\ \A n : \A x \in DOMAIN q : Incident(n, x) /\ (n # Dst(e) \/ x # h[Dst(e)]) =>
           GrowIn(t, n, x) = GrowIn(q, n, x) /\ OtherIn(t, n, x) = OtherIn(q, n, x)
  BY <1>3, <1>4, <1>5, UpdateEdgeLinks
<1> HIDE DEF t
<1>7. ASSUME NEW n, NEW x \in DOMAIN r, Incident(n, x), ~Incident(n, e) \/ x # h[n]
       PROVE  GrowIn(t, n, x) = GrowIn(r, n, x) /\ OtherIn(t, n, x) = OtherIn(r, n, x)
  <2>1. (n # Src(e) \/ x # h[Src(e)]) /\ (n # Dst(e) \/ x # h[Dst(e)])
    BY <1>7 DEF Incident
  <2>2. GrowIn(q, n, x) = GrowIn(r, n, x) /\ OtherIn(q, n, x) = OtherIn(r, n, x)
    BY <1>3, <1>7, <2>1
  <2>3. QED
    BY <1>3, <1>6, <1>7, <2>1, <2>2
<1>8. ASSUME NEW n, Incident(n, e)
       PROVE  /\ GrowIn(t, n, h[n]) = e
              /\ OtherIn(t, n, h[n]) = IF OtherIn(r, n, h[n]) = h[n] THEN e
                                       ELSE OtherIn(r, n, h[n])
  <2>1. h[n] \in DOMAIN r /\ Incident(n, h[n])
    BY <1>2, <1>8 DEF Incident, StoredAt
  <2>2. CASE n = Src(e) /\ n # Dst(e)
    BY <1>3, <1>6, <2>1, <2>2
  <2>3. CASE n # Src(e) /\ n = Dst(e)
    BY <1>3, <1>6, <2>1, <2>3
  <2>4. CASE n = Src(e) /\ n = Dst(e)
    BY <1>3, <1>6, <2>4
  <2>5. QED
    BY <1>8, <2>2, <2>3, <2>4 DEF Incident
<1>9. QED
  BY <1>1, <1>3, <1>6, <1>7, <1>8

\* What upsetEdge writes for an edge that is not stored yet.
LEMMA StoreWrites ==
  ASSUME IInv, NEW e \in Edge, Done(e), e \notin DOMAIN rec
  PROVE  LET h == SetNodeMap(head, e)
             p == Put(rec, e, NewLinks(rec, h, e))
         IN  /\ e \in Uncut
             /\ head' = h /\ h = HeadsOf(e) /\ p = RecsOf(e)
             /\ rec' = UpdateEdges(p, h, e)
<1>1. BInv /\ Upset(e) /\ ~aborted' /\ ~early'
  BY DEF IInv, Done
<1>2. New(e)
  BY <1>1, UpsetOf
<1>3. /\ HeadsOf(e) = SetNodeMap(head, e)
      /\ RecsOf(e) = Put(rec, e, NewLinks(rec, HeadsOf(e), e))
  BY <1>2 DEF HeadsOf, RecsOf
<1>4. e \in Uncut /\ head' = HeadsOf(e) /\ rec' = UpdateEdges(RecsOf(e), HeadsOf(e), e)
  BY <1>1, UpsetEnds
<1>5. QED
  BY <1>3, <1>4

\* The links of every list after an edge was stored, in terms of those before.
LEMMA StoreLinks ==
  ASSUME IInv, NEW e \in Edge, Done(e), e \notin DOMAIN rec
  PROVE  /\ DOMAIN rec' = DOMAIN rec \cup {e}
         /\ \A n : \A x \in DOMAIN rec :
              Incident(n, x) /\ (~Incident(n, e) \/ x # head'[n]) =>
                /\ GrowIn(rec', n, x) = GrowIn(rec, n, x)
                /\ OtherIn(rec', n, x) = OtherIn(rec, n, x)
         /\ \A n : Incident(n, e) =>
              LET f == head'[n] IN
              /\ f = e => GrowIn(rec', n, e) = e /\ OtherIn(rec', n, e) = e
              /\ f # e =>
                   /\ GrowIn(rec', n, f) = e
                   /\ OtherIn(rec', n, f) = IF OtherIn(rec, n, f) = f THEN e
                                            ELSE OtherIn(rec, n, f)
                   /\ GrowIn(rec', n, e) = IF SameRole(n, e, f) THEN GrowIn(rec, n, f)
                                           ELSE OtherIn(rec, n, f)
                   /\ OtherIn(rec', n, e) = IF SameRole(n, e, f) THEN OtherIn(rec, n, f)
                                            ELSE GrowIn(rec, n, f)
<1> DEFINE h == SetNodeMap(head, e)
           p == Put(rec, e, NewLinks(rec, h, e))
           t == UpdateEdges(p, h, e)
<1>1. e \in Uncut /\ head' = h /\ rec' = t /\ h = HeadsOf(e) /\ p = RecsOf(e)
  BY StoreWrites
<1>2. HeadType(head) /\ RecType(rec)
  BY DEF IInv, BInv
<1>3. /\ HeadType(h) /\ Src(e) \in DOMAIN h /\ Dst(e) \in DOMAIN h
      /\ \A n \in DOMAIN h : h[n] # e => n \in DOMAIN head /\ h[n] = head[n]
  BY <1>1, <1>2, SetNodeMapHeads
<1>4. \A n \in DOMAIN h : h[n] # e => StoredAt(rec, n, h[n])
  BY <1>3 DEF IInv, BInv, HeadsIncident
<1>5. HeadsIncident(p, h) /\ RecType(p)
  BY <1>1, MapsOf DEF IInv
<1> HIDE DEF h
<1>8. /\ DOMAIN p = DOMAIN rec \cup {e}
      /\ \A n : \A x \in DOMAIN rec :
           GrowIn(p, n, x) = GrowIn(rec, n, x) /\ OtherIn(p, n, x) = OtherIn(rec, n, x)
      /\ \A m : Incident(m, e) =>
           /\ h[m] = e => GrowIn(p, m, e) = e /\ OtherIn(p, m, e) = e
           /\ h[m] # e =>
                /\ GrowIn(p, m, e) = IF SameRole(m, e, h[m]) THEN GrowIn(rec, m, h[m])
                                     ELSE OtherIn(rec, m, h[m])
                /\ OtherIn(p, m, e) = IF SameRole(m, e, h[m]) THEN OtherIn(rec, m, h[m])
                                      ELSE GrowIn(rec, m, h[m])
  <2>1. e \in Uncut
    BY <1>1
  <2> HIDE DEF p
  <2>2. p = Put(rec, e, NewLinks(rec, h, e))
    BY DEF p
  <2>3. QED
    BY <1>2, <1>3, <1>4, <2>1, <2>2, NewRecordLinks
<1> HIDE DEF p
<1>9. /\ DOMAIN t = DOMAIN p
      /\ \A n : \A x \in DOMAIN p : Incident(n, x) /\ (~Incident(n, e) \/ x # h[n]) =>
           GrowIn(t, n, x) = GrowIn(p, n, x) /\ OtherIn(t, n, x) = OtherIn(p, n, x)
      /\ \A n : Incident(n, e) =>
           /\ GrowIn(t, n, h[n]) = e
           /\ OtherIn(t, n, h[n]) = IF OtherIn(p, n, h[n]) = h[n] THEN e
                                    ELSE OtherIn(p, n, h[n])
  BY <1>1, <1>3, <1>5, <1>8, UpdateEdgesLinks
<1> HIDE DEF t
<1>10. \A n : \A x \in DOMAIN rec : Incident(n, x) /\ (~Incident(n, e) \/ x # h[n]) =>
         GrowIn(t, n, x) = GrowIn(rec, n, x) /\ OtherIn(t, n, x) = OtherIn(rec, n, x)
  BY <1>8, <1>9
<1>11. ASSUME NEW n, Incident(n, e), h[n] = e
       PROVE  GrowIn(t, n, e) = e /\ OtherIn(t, n, e) = e
  BY <1>8, <1>9, <1>11
<1>12. ASSUME NEW n, Incident(n, e), h[n] # e
       PROVE  /\ GrowIn(t, n, h[n]) = e
              /\ OtherIn(t, n, h[n]) = IF OtherIn(rec, n, h[n]) = h[n] THEN e
                                       ELSE OtherIn(rec, n, h[n])
              /\ GrowIn(t, n, e) = IF SameRole(n, e, h[n]) THEN GrowIn(rec, n, h[n])
                                   ELSE OtherIn(rec, n, h[n])
              /\ OtherIn(t, n, e) = IF SameRole(n, e, h[n]) THEN OtherIn(rec, n, h[n])
                                    ELSE GrowIn(rec, n, h[n])
  <2>1. h[n] \in DOMAIN rec
    BY <1>3, <1>4, <1>12 DEF Incident, StoredAt
  <2>2. OtherIn(p, n, h[n]) = OtherIn(rec, n, h[n])
    BY <1>8, <2>1
  <2>3. GrowIn(t, n, e) = GrowIn(p, n, e) /\ OtherIn(t, n, e) = OtherIn(p, n, e)
    BY <1>8, <1>9, <1>12
  <2>4. QED
    BY <1>8, <1>9, <1>12, <2>2, <2>3
<1>13. QED
  BY <1>1, <1>8, <1>9, <1>10, <1>11, <1>12

-------------------------------------------------------------------------------
(* The ring of one node while an edge is stored. *)

\* The heads after an edge was stored.
LEMMA StoreHeads ==
  ASSUME IInv, NEW e \in Edge, Done(e), e \notin DOMAIN rec
  PROVE  /\ DOMAIN head' = DOMAIN head \cup {Src(e), Dst(e)}
         /\ \A n \in DOMAIN head : head'[n] = head[n]
         /\ \A n \in DOMAIN head' : n \notin DOMAIN head => head'[n] = e
<1>1. HeadType(head)
  BY DEF IInv, BInv
<1>2. e \in Uncut /\ head' = SetNodeMap(head, e)
  BY StoreWrites
<1>3. QED
  BY <1>1, <1>2, SetNodeMapHeads

\* The history after an edge was stored.
LEMMA StoreOrder ==
  ASSUME OrderOK, IInv, NEW e \in Edge, Store(e), Done(e)
  PROVE  OrderOK'
<1>1. /\ order \in [Node -> Seq(Edge)]
      /\ order' = [n \in Node |-> IF Incident(n, e) THEN Append(order[n], e) ELSE order[n]]
  <2>1. e \in DOMAIN rec'
    BY StoreLinks DEF Store
  <2>2. QED
    BY <2>1 DEF OrderOK, Store
<1>2. e \notin DOMAIN rec /\ DOMAIN rec' = DOMAIN rec \cup {e}
  BY StoreLinks DEF Store
<1>3. /\ DOMAIN head' = DOMAIN head \cup {Src(e), Dst(e)}
  BY <1>2, StoreHeads DEF Store
<1>4. \A n \in Node : \A k \in 1..Len(order[n]) : StoredAt(rec, n, order[n][k])
  BY DEF OrderOK
<1>5. ASSUME NEW n \in Node
      PROVE  /\ order'[n] \in Seq(Edge)
             /\ \A k \in 1..Len(order'[n]) : StoredAt(rec', n, order'[n][k])
             /\ \A i, j \in 1..Len(order'[n]) : order'[n][i] = order'[n][j] => i = j
             /\ n \in DOMAIN head' => order'[n] # <<>>
  <2> DEFINE o == order[n]
             z == order'[n]
  <2>1. o \in Seq(Edge)
    BY <1>1
  <2>2. \A i, j \in 1..Len(o) : o[i] = o[j] => i = j
    BY DEF OrderOK
  <2>3. CASE Incident(n, e)
    <3>1. z = Append(o, e)
      BY <1>1, <2>3
    <3> HIDE DEF z, o
    <3>2. /\ z \in Seq(Edge) /\ Len(z) = Len(o) + 1 /\ Len(o) \in Nat
          /\ z[Len(z)] = e /\ \A k \in 1..Len(o) : z[k] = o[k]
      BY <2>1, <3>1
    <3>3. \A k \in 1..Len(z) : k = Len(z) \/ k \in 1..Len(o)
      BY <3>2
    <3>4. \A k \in 1..Len(o) : StoredAt(rec, n, o[k]) /\ o[k] # e
      BY <1>2, <1>4 DEF StoredAt, o
    <3>5. \A k \in 1..Len(z) : StoredAt(rec', n, z[k])
      BY <1>2, <2>3, <3>2, <3>3, <3>4 DEF StoredAt
    <3>6. \A i, j \in 1..Len(z) : z[i] = z[j] => i = j
      BY <2>2, <3>2, <3>3, <3>4 DEF o
    <3>7. z # <<>>
      BY <3>2
    <3>8. QED
      BY <3>2, <3>5, <3>6, <3>7 DEF z
  <2>4. CASE ~Incident(n, e)
    <3>1. z = o
      BY <1>1, <2>4
    <3>2. \A k \in 1..Len(o) : StoredAt(rec', n, o[k])
      BY <1>2, <1>4 DEF StoredAt
    <3>3. n \in DOMAIN head' => n \in DOMAIN head
      BY <1>3, <2>4 DEF Incident
    <3>4. QED
      BY <2>1, <2>2, <3>1, <3>2, <3>3 DEF OrderOK
  <2>5. QED
    BY <2>3, <2>4
<1>6. order' \in [Node -> Seq(Edge)]
  BY <1>1, <1>5
<1>7. QED
  BY <1>5, <1>6 DEF OrderOK

\* The ring after an edge was stored.
LEMMA StoreRing ==
  ASSUME RingInv, NEW e \in Edge, Store(e), Done(e), NEW n \in Node
  PROVE  RingAt(n)'
<1> DEFINE o == order[n]
           z == order'[n]
<1>1. IInv /\ OrderOK /\ RingAt(n) /\ e \notin DOMAIN rec
  BY DEF RingInv, Store
<1>2. /\ o \in Seq(Edge)
      /\ z = IF Incident(n, e) THEN Append(o, e) ELSE o
  <2>1. e \in DOMAIN rec'
    BY <1>1, StoreLinks
  <2>2. QED
    BY <2>1 DEF RingInv, OrderOK, Store
<1>3. \A k \in 1..Len(o) : o[k] \in DOMAIN rec /\ Incident(n, o[k]) /\ o[k] # e
  BY <1>1 DEF OrderOK, StoredAt
<1>4. \A i, j \in 1..Len(o) : o[i] = o[j] => i = j
  BY <1>1 DEF OrderOK
<1>5. /\ n \in DOMAIN head => o # <<>>
      /\ DOMAIN head' = DOMAIN head \cup {Src(e), Dst(e)}
      /\ n \in DOMAIN head => head'[n] = head[n]
      /\ n \in DOMAIN head' /\ n \notin DOMAIN head => head'[n] = e
  BY <1>1, StoreHeads DEF OrderOK
<1>6. o # <<>> =>
        /\ n \in DOMAIN head /\ head[n] = o[1]
        /\ GrowIn(rec, n, o[1]) = o[Len(o)]
        /\ OtherIn(rec, n, o[1]) = IF Len(o) = 1 THEN o[1] ELSE o[2]
        /\ \A k \in 2..Len(o) :
             GrowIn(rec, n, o[k]) = IF k <= 3 \/ SameRole(n, o[k], o[1])
                                      THEN o[k - 1] ELSE o[2]
  BY <1>1 DEF RingAt
<1>7. \A x \in DOMAIN rec : Incident(n, x) /\ (~Incident(n, e) \/ x # head'[n]) =>
        GrowIn(rec', n, x) = GrowIn(rec, n, x) /\ OtherIn(rec', n, x) = OtherIn(rec, n, x)
  BY <1>1, StoreLinks
<1>8. Incident(n, e) =>
        LET f == head'[n] IN
        /\ f = e => GrowIn(rec', n, e) = e /\ OtherIn(rec', n, e) = e
        /\ f # e =>
             /\ GrowIn(rec', n, f) = e
             /\ OtherIn(rec', n, f) = IF OtherIn(rec, n, f) = f THEN e ELSE OtherIn(rec, n, f)
             /\ GrowIn(rec', n, e) = IF SameRole(n, e, f) THEN GrowIn(rec, n, f)
                                     ELSE OtherIn(rec, n, f)
  BY <1>1, StoreLinks
<1> SUFFICES z # <<>> =>
        /\ n \in DOMAIN head' /\ head'[n] = z[1]
        /\ GrowIn(rec', n, z[1]) = z[Len(z)]
        /\ OtherIn(rec', n, z[1]) = IF Len(z) = 1 THEN z[1] ELSE z[2]
        /\ \A k \in 2..Len(z) :
             GrowIn(rec', n, z[k]) = IF k <= 3 \/ SameRole(n, z[k], z[1])
                                      THEN z[k - 1] ELSE z[2]
  BY DEF RingAt
<1> HIDE DEF o, z
<1>9. CASE ~Incident(n, e)
  <2>1. SUFFICES ASSUME o # <<>>
        PROVE  /\ n \in DOMAIN head' /\ head'[n] = o[1]
               /\ GrowIn(rec', n, o[1]) = o[Len(o)]
               /\ OtherIn(rec', n, o[1]) = IF Len(o) = 1 THEN o[1] ELSE o[2]
               /\ \A k \in 2..Len(o) :
                    GrowIn(rec', n, o[k]) = IF k <= 3 \/ SameRole(n, o[k], o[1])
                                             THEN o[k - 1] ELSE o[2]
    BY <1>2, <1>9
  <2>2. Len(o) \in Nat /\ Len(o) >= 1
    BY <1>2, <2>1
  <2>3. \A k \in 1..Len(o) : /\ GrowIn(rec', n, o[k]) = GrowIn(rec, n, o[k])
                             /\ OtherIn(rec', n, o[k]) = OtherIn(rec, n, o[k])
    BY <1>3, <1>7, <1>9
  <2>4. QED
    BY <1>5, <1>6, <2>1, <2>2, <2>3
<1>10. CASE Incident(n, e) /\ o = <<>>
  <2>1. z = <<e>> /\ Len(z) = 1 /\ z[1] = e
    BY <1>2, <1>10
  <2>2. n \in DOMAIN head' /\ head'[n] = e
    BY <1>5, <1>6, <1>10 DEF Incident, RingInv, IInv
  <2>3. QED
    BY <1>8, <1>10, <2>1, <2>2
<1>11. CASE Incident(n, e) /\ o # <<>>
  <2> DEFINE f == o[1]
  <2>0. Len(o) \in Nat /\ Len(o) >= 1
    BY <1>2, <1>11
  <2>1. /\ Len(o) \in Nat /\ Len(o) >= 1 /\ Len(z) = Len(o) + 1
        /\ z[Len(z)] = e /\ \A k \in 1..Len(o) : z[k] = o[k]
    BY <1>2, <1>11
  <2>2. n \in DOMAIN head' /\ head'[n] = f /\ z[1] = f /\ f # e
    BY <1>3, <1>5, <1>6, <1>11, <2>1
  <2>3. GrowIn(rec', n, f) = e
    BY <1>8, <1>11, <2>2
  <2>4. OtherIn(rec', n, f) = z[2]
    <3>1. OtherIn(rec', n, f) = IF OtherIn(rec, n, f) = f THEN e ELSE OtherIn(rec, n, f)
      BY <1>8, <1>11, <2>2
    <3>2. CASE Len(o) = 1
      BY <1>6, <1>11, <2>1, <3>1, <3>2
    <3>3. CASE Len(o) # 1
      <4>1. 2 \in 1..Len(o) /\ 1 \in 1..Len(o)
        <5>1. \A m \in Nat : m >= 1 /\ m # 1 => 2 \in 1..m /\ 1 \in 1..m
          OBVIOUS
        <5>2. QED
          BY <2>0, <3>3, <5>1
      <4>2. o[2] # f /\ z[2] = o[2]
        BY <1>4, <2>1, <4>1
      <4>3. QED
        BY <1>6, <1>11, <3>1, <3>3, <4>2
    <3>4. QED
      BY <3>2, <3>3
  <2>5. ASSUME NEW k \in 2..Len(o)
        PROVE  GrowIn(rec', n, z[k]) = IF k <= 3 \/ SameRole(n, z[k], z[1])
                                        THEN z[k - 1] ELSE z[2]
    <3>1. k \in 1..Len(o) /\ k - 1 \in 1..Len(o) /\ k # 1 /\ 1 \in 1..Len(o) /\ 2 \in 1..Len(o)
      BY <2>1, <2>5
    <3>2. o[k] # f
      BY <1>4, <3>1
    <3>3. GrowIn(rec', n, o[k]) = GrowIn(rec, n, o[k])
      BY <1>3, <1>7, <2>2, <3>1, <3>2
    <3>4. QED
      BY <1>6, <1>11, <2>1, <2>5, <3>1, <3>3
  <2>6. GrowIn(rec', n, e) = IF Len(z) <= 3 \/ SameRole(n, e, z[1])
                              THEN z[Len(z) - 1] ELSE z[2]
    <3>1. GrowIn(rec', n, e) = IF SameRole(n, e, f) THEN GrowIn(rec, n, f)
                                ELSE OtherIn(rec, n, f)
      BY <1>8, <1>11, <2>2
    <3>2. GrowIn(rec, n, f) = o[Len(o)] /\ z[Len(z) - 1] = o[Len(o)]
      BY <1>6, <1>11, <2>1
    <3>3. OtherIn(rec, n, f) = IF Len(o) = 1 THEN o[1] ELSE o[2]
      BY <1>6, <1>11
    <3>4. CASE Len(o) = 1
      BY <2>1, <2>2, <3>1, <3>2, <3>3, <3>4
    <3>5. CASE Len(o) = 2
      BY <2>1, <2>2, <3>1, <3>2, <3>3, <3>5
    <3>6. CASE Len(o) > 2
      BY <2>1, <2>2, <3>1, <3>2, <3>3, <3>6
    <3>7. \A m \in Nat : m >= 1 => m = 1 \/ m = 2 \/ m > 2
      OBVIOUS
    <3>8. QED
      BY <2>0, <3>4, <3>5, <3>6, <3>7
  <2>7. \A k \in 2..Len(z) : k \in 2..Len(o) \/ k = Len(z)
    BY <2>1
  <2>8. QED
    BY <2>1, <2>2, <2>3, <2>4, <2>5, <2>6, <2>7
<1>12. QED
  BY <1>9, <1>10, <1>11

-------------------------------------------------------------------------------
\* An upset that stops leaves the store and the history alone.
LEMMA StopKeeps ==
  ASSUME BInv, order \in [Node -> Seq(Edge)], NEW e \in Edge, Store(e), aborted'
  PROVE  UNCHANGED <<head, rec, obj, order, settled>>
<1>1. UNCHANGED <<head, rec, obj, settled>> /\ e \notin DOMAIN rec
  BY UpsetOf DEF Store
<1>2. order' = [n \in Node |-> order[n]]
  BY <1>1 DEF Store
<1>3. QED
  BY <1>1, <1>2

\* Once something was done out of order, the history says so for good.
LEMMA OrderlyStays ==
  ASSUME [RNext]_rvars, Orderly'
  PROVE  Orderly
<1>1. early => early'
  <2>1. \A e \in Edge : Upset(e) => (early => early')
    BY UpsetOf
  <2>2. UNCHANGED early \/ \E e \in Edge : Upset(e)
    BY DEF RNext, rvars, vars, RCreate, Create, RSetProperties, SetProperties, Store, Update
  <2>3. QED
    BY <2>1, <2>2
<1>2. renewed => renewed'
  BY DEF RNext, rvars, RCreate, RSetProperties, Store, Update
<1>3. QED
  BY <1>1, <1>2 DEF Orderly

\* Every step of the history keeps the inductive invariant.
LEMMA StepKeepsRIInv ==
  ASSUME RIInv, [RNext]_rvars
  PROVE  RIInv'
<1>1. [Next]_vars
  BY DEF RNext, rvars, RCreate, Store, Update, RSetProperties, Next
<1>o. Orderly' => Orderly
  BY OrderlyStays
<1>2. EInv' /\ (~early' => IInv')
  <2>1. EInv'
    BY <1>1, StepKeepsEInv DEF RIInv
  <2>2. QED
    BY <2>1 DEF EInv
<1>3. CASE UNCHANGED <<head, rec, order, settled>>
  BY <1>2, <1>3, <1>o DEF RIInv, RingInv, OrderOK, RingAt, Orderly
<1>4. ASSUME NEW e \in Edge, RCreate(e) \/ RSetProperties(e)
      PROVE  RIInv'
  BY <1>3, <1>4 DEF RCreate, RSetProperties, Create, SetProperties
<1>5. ASSUME NEW e \in Edge, Store(e)
      PROVE  RIInv'
  <2>1. settled' = settled /\ Upset(e)
    BY <1>5 DEF Store
  <2>2. CASE settled /\ Orderly'
    <3>0. Orderly
      BY <1>o, <2>2
    <3>1. RingInv /\ BInv
      BY <2>2, <3>0 DEF RIInv, EInv
    <3>2. CASE aborted'
      <4>1. order \in [Node -> Seq(Edge)]
        BY <3>1 DEF RingInv, OrderOK
      <4>2. UNCHANGED <<head, rec, order, settled>>
        BY <1>5, <3>1, <3>2, <4>1, StopKeeps
      <4>3. QED
        BY <1>3, <4>2
    <3>3. CASE ~aborted'
      <4>1. Done(e)
        BY <2>1, <2>2, <3>3 DEF Done, Orderly
      <4>2. OrderOK'
        BY <1>5, <3>1, <4>1, StoreOrder DEF RingInv
      <4>3. \A n \in Node : RingAt(n)'
        BY <1>5, <3>1, <4>1, StoreRing
      <4>4. QED
        BY <1>2, <2>2, <4>2, <4>3 DEF RIInv, RingInv, Orderly
    <3>4. QED
      BY <3>2, <3>3
  <2>3. QED
    BY <1>2, <2>1, <2>2 DEF RIInv
<1>6. ASSUME NEW e \in Edge, Update(e)
      PROVE  RIInv'
  BY <1>2, <1>6 DEF Update, RIInv
<1>7. CASE UNCHANGED rvars
  BY <1>3, <1>7 DEF rvars, vars
<1>8. QED
  BY <1>4, <1>5, <1>6, <1>7 DEF RNext

\* The growing links of every node form the ring RingShape describes, whatever
\* the graph and the ids, as long as each edge is stored by its only
\* object before anything else is done with it, and not upset again.
THEOREM RingShapeHolds == RSpec => []RingShape
<1>1. RInit => RIInv
  BY InitEInv DEF RInit, Init, NoEntries, RIInv, EInv, Orderly, RingInv, OrderOK, RingAt
<1>2. RIInv /\ [RNext]_rvars => RIInv'
  BY StepKeepsRIInv
<1>3. RIInv => RingShape
  BY DEF RIInv, RingInv, RingShape
<1>4. QED
  BY <1>1, <1>2, <1>3, PTL DEF RSpec

-------------------------------------------------------------------------------
(* Walks over the positions of a list. *)

\* No two of the first len elements of o are the same.
OneEach(o, len) == \A i, j \in 1..len : o[i] = o[j] => i = j

\* The edges of o at the first c positions of a trail.
Along(o, g, c) == [k \in 1..c |-> o[g[k]]]

\* Each of the len positions leads to one of them, all but the first to an earlier
\* one.  A trail of M positions starts at 1 and goes where they lead.  It is back
\* after c positions if the c-th leads to 1 and no position was met twice.
Leads(p, len) == p \in [1..len -> 1..len] /\ \A k \in 2..len : p[k] < k
Trail(g, p, len, M) == /\ g \in [1..M -> 1..len] /\ g[1] = 1
                       /\ \A k \in 2..M : g[k] = p[g[k - 1]]
BackAfter(c, g, p, len) == /\ c \in 1..len /\ p[g[c]] = 1
                           /\ \A j \in 1..(c - 1) : p[g[j]] # 1
                           /\ \A i, j \in 1..c : g[i] = g[j] => i = j

\* A trail is back within len steps.
LEMMA Descent ==
  ASSUME NEW len, NEW p, NEW M, NEW g, len \in Nat, M \in Nat, len <= M, len >= 1,
         Leads(p, len), Trail(g, p, len, M)
  PROVE  \E c : BackAfter(c, g, p, len)
<1> /\ len \in Nat /\ M \in Nat /\ len <= M /\ len >= 1 /\ p \in [1..len -> 1..len]
    /\ g \in [1..M -> 1..len] /\ g[1] = 1 /\ \A k \in 2..M : g[k] = p[g[k - 1]]
    /\ \A k \in 2..len : p[k] < k
  BY DEF Leads, Trail
<1> DEFINE Away(k) == \A j \in 1..(k - 1) : p[g[j]] # 1
           Falls(k) == /\ g[k] \in 2..(len - k + 2)
                       /\ \A j \in 2..(k - 1) : g[k] < g[j]
           Bad == {k \in 2..len : Away(k) /\ ~Falls(k)}
<1>0. \A k \in 1..M : g[k] \in 1..len
  OBVIOUS
<1>1. Bad = {}
  <2> SUFFICES ASSUME Bad # {}
               PROVE  FALSE
    OBVIOUS
  <2>1. Bad \in SUBSET Nat
    OBVIOUS
  <2>2. PICK k \in Bad : \A i \in Bad : k <= i
    <3> HIDE DEF Bad
    <3>1. QED
      BY <2>1, Least
  <2>3. k \in 2..len /\ Away(k) /\ ~Falls(k)
    OBVIOUS
  <2>4. /\ k - 1 \in 1..(k - 1) /\ k - 1 \in 1..M /\ k \in 1..M /\ k \in 2..M
        /\ g[k] = p[g[k - 1]] /\ g[k] # 1
    <3>1. k - 1 \in 1..(k - 1) /\ k - 1 \in 1..M /\ k \in 1..M /\ k \in 2..M
      BY <2>3
    <3>2. g[k] = p[g[k - 1]]
      BY <3>1
    <3>3. QED
      BY <2>3, <3>1, <3>2
  <2>5. g[k] \in 2..len /\ g[k - 1] \in 1..len
    <3>1. g[k] \in 1..len /\ g[k - 1] \in 1..len
      BY <2>4
    <3>2. QED
      BY <2>4, <3>1
  <2>6. CASE k = 2
    BY <2>3, <2>5, <2>6
  <2>7. CASE k # 2
    <3>1. k - 1 \in 2..len /\ k - 1 < k
      BY <2>3, <2>7
    <3>2. Away(k - 1)
      <4>1. \A j \in 1..(k - 1 - 1) : j \in 1..(k - 1)
        BY <2>3
      <4>2. QED
        BY <2>3, <4>1
    <3>3. k - 1 \notin Bad
      <4>1. ~(k <= k - 1)
        BY <2>3
      <4> HIDE DEF Bad
      <4>2. QED
        BY <2>2, <4>1
    <3>4. Falls(k - 1)
      <4> HIDE DEF Away, Falls
      <4>1. QED
        BY <3>1, <3>2, <3>3
    <3>5. g[k - 1] \in 2..(len - k + 3) /\ g[k - 1] \in 2..len
      BY <2>3, <2>5, <3>4
    <3>6. g[k] < g[k - 1]
      BY <2>4, <3>5
    <3>7. g[k] \in 2..(len - k + 2)
      BY <2>3, <2>5, <3>5, <3>6
    <3>8. ASSUME NEW j \in 2..(k - 1)
          PROVE  g[k] < g[j]
      <4>1. j = k - 1 \/ j \in 2..(k - 2)
        BY <2>3
      <4>2. j \in 2..(k - 2) => g[k - 1] < g[j]
        BY <2>3, <3>4
      <4>3. j \in 1..M
        BY <2>3
      <4>4. g[j] \in 1..len
        BY <1>0, <4>3
      <4> DEFINE x == g[k]
                 y == g[k - 1]
                 z == g[j]
      <4>5. x \in Int /\ y \in Int /\ z \in Int /\ x < y
        BY <2>5, <3>6, <4>4
      <4>6. CASE j = k - 1
        BY <3>6, <4>6
      <4>7. CASE j # k - 1
        <5>1. y < z
          BY <4>1, <4>2, <4>7
        <5> HIDE DEF x, y, z
        <5>2. x < z
          BY <4>5, <5>1
        <5>3. QED
          BY <5>2 DEF x, z
      <4>8. QED
        BY <4>6, <4>7
    <3>9. QED
      BY <2>3, <3>7, <3>8
  <2>8. QED
    BY <2>6, <2>7
<1>2. \A k \in 2..len : Away(k) => Falls(k)
  BY <1>1
<1> HIDE DEF Bad
<1> DEFINE Back == {k \in 1..len : p[g[k]] = 1}
<1>3. Back # {}
  <2> SUFFICES ASSUME Back = {}
               PROVE  FALSE
    OBVIOUS
  <2>1. \A k \in 1..len : p[g[k]] # 1
    OBVIOUS
  <2>2. CASE len = 1
    BY <2>1, <2>2
  <2>3. CASE len # 1
    <3>1. len \in 2..len /\ len \in 1..len
      BY <2>3
    <3>2. Away(len)
      BY <2>1
    <3>3. Falls(len)
      BY <1>2, <3>1, <3>2
    <3>4. g[len] = 2
      BY <3>1, <3>3
    <3>5. p[2] = 1
      BY <3>1
    <3>6. QED
      BY <2>1, <3>1, <3>4, <3>5
  <2>4. QED
    BY <2>2, <2>3
<1>4. PICK c \in 1..len : p[g[c]] = 1 /\ \A k \in Back : c <= k
  <2>1. Back \in SUBSET Nat
    OBVIOUS
  <2>2. \A k \in Back : k \in 1..len /\ p[g[k]] = 1
    OBVIOUS
  <2> HIDE DEF Back
  <2>3. QED
    BY <1>3, <2>1, <2>2, Least
<1>5. p[g[c]] = 1 /\ c \in Nat /\ c <= M /\ c <= len
  BY <1>4
<1>6. \A j \in 1..(c - 1) : p[g[j]] # 1
  <2> TAKE j \in 1..(c - 1)
  <2>1. j \in 1..len /\ ~(c <= j)
    BY <1>5
  <2>2. QED
    BY <1>4, <2>1
<1> HIDE DEF Back
<1>7. \A k \in 2..c : Falls(k)
  <2> TAKE k \in 2..c
  <2>1. k \in 2..len
    BY <1>5
  <2>2. \A j \in 1..(k - 1) : j \in 1..(c - 1)
    BY <1>5
  <2>3. Away(k)
    BY <1>6, <2>2
  <2> HIDE DEF Away, Falls
  <2>4. QED
    BY <1>2, <2>1, <2>3
<1>8. ASSUME NEW i \in Nat, NEW j \in Nat, 1 <= i, i < j, j <= c
      PROVE  g[i] # g[j]
  <2>1. j \in 2..c /\ i \in 1..M /\ j \in 1..M
    BY <1>5, <1>8
  <2>2. Falls(j)
    BY <1>7, <2>1
  <2>3. g[i] \in Int /\ g[j] \in Int /\ g[j] >= 2
    BY <1>0, <2>1, <2>2
  <2>4. CASE i = 1
    BY <2>3, <2>4
  <2>5. CASE i # 1
    <3>1. i \in 2..(j - 1)
      BY <1>8, <2>5
    <3>2. g[j] < g[i]
      BY <2>2, <3>1
    <3>3. \A x, y \in Int : x < y => y # x
      OBVIOUS
    <3>4. QED
      BY <2>3, <3>2, <3>3
  <2>6. QED
    BY <2>4, <2>5
<1>9. \A i, j \in 1..c : g[i] = g[j] => i = j
  <2>1. \A i, j \in 1..c : /\ i \in Nat /\ j \in Nat /\ 1 <= i /\ 1 <= j /\ i <= c /\ j <= c
                           /\ i < j \/ j < i \/ i = j
    BY <1>5
  <2>2. QED
    BY <1>8, <2>1
<1>10. QED
  BY <1>4, <1>5, <1>6, <1>9 DEF BackAfter

-------------------------------------------------------------------------------
(* The answer a query collects, and the walk it makes.                       *)

\* The visitor collects exactly the edges of the walk that it takes, and each
\* once if the walk meets each once.
LEMMA AnswerOf ==
  ASSUME NEW S, NEW w \in Seq(S), NEW takes
  PROVE  /\ Answer(w, takes) \in Seq(S)
         /\ ToSet(Answer(w, takes)) = ToSet(w) \cap takes
         /\ IsInjective(w) => IsInjective(Answer(w, takes))
<1> DEFINE P(h) == h = [k \in 0..Len(w) |->
                          IF k = 0 THEN <<>>
                          ELSE IF w[k] \in takes THEN Append(h[k - 1], w[k]) ELSE h[k - 1]]
           f == [x \in (1..Len(w)) \X Seq(S) |->
                   IF w[x[1]] \in takes THEN Append(x[2], w[x[1]]) ELSE x[2]]
           u == CHOOSE h : P(h)
<1>1. Len(w) \in Nat /\ (\A k \in 1..Len(w) : w[k] \in S) /\ DOMAIN w = 1..Len(w)
  OBVIOUS
<1>2. \E h : P(h)
  <2>1. <<>> \in Seq(S) /\ f \in Steps(Seq(S), Len(w))
    BY <1>1 DEF Steps
  <2> HIDE DEF f
  <2>2. PICK g : IsRun(g, Seq(S), <<>>, Len(w), f)
    BY <1>1, <2>1, Recursion
  <2>3. ASSUME NEW k \in 1..Len(w)
        PROVE  g[k] = IF w[k] \in takes THEN Append(g[k - 1], w[k]) ELSE g[k - 1]
    <3>1. g[k - 1] \in Seq(S)
      BY <1>1, <2>2 DEF IsRun
    <3>2. f[<<k, g[k - 1]>>] = IF w[k] \in takes THEN Append(g[k - 1], w[k]) ELSE g[k - 1]
      BY <3>1 DEF f
    <3>3. QED
      BY <2>2, <3>2 DEF IsRun
  <2>4. \A k \in 0..Len(w) : k = 0 \/ k \in 1..Len(w)
    BY <1>1
  <2>5. P(g)
    BY <1>1, <2>2, <2>3, <2>4 DEF IsRun
  <2>6. QED
    BY <2>5
<1>3. Answer(w, takes) = u[Len(w)]
  BY DEF Answer
<1>4. P(u)
  <2> HIDE DEF P
  <2>1. QED
    BY <1>2
<1> HIDE DEF u
<1>5. u[0] = <<>> /\ \A k \in 1..Len(w) :
        u[k] = IF w[k] \in takes THEN Append(u[k - 1], w[k]) ELSE u[k - 1]
  <2>1. /\ 0 \in 0..Len(w)
        /\ \A k \in 1..Len(w) : k \in 0..Len(w) /\ k # 0
    BY <1>1
  <2>2. \A k \in 0..Len(w) : u[k] = IF k = 0 THEN <<>>
           ELSE IF w[k] \in takes THEN Append(u[k - 1], w[k]) ELSE u[k - 1]
    BY <1>4, Zenon
  <2> HIDE DEF P
  <2>3. QED
    BY <2>1, <2>2, Zenon
<1> HIDE DEF P
<1> DEFINE Seen(k) == {w[i] : i \in 1..k}
           Good(k) == /\ u[k] \in Seq(S)
                      /\ ToSet(u[k]) = Seen(k) \cap takes
                      /\ IsInjective(w) => IsInjective(u[k])
           T == {k \in 0..Len(w) : Good(k)}
<1>6. 0 \in T
  <2>1. Seen(0) = {} /\ u[0] = <<>>
    BY <1>5
  <2>2. Good(0)
    BY <2>1 DEF ToSet, IsInjective
  <2> HIDE DEF Good
  <2>3. QED
    BY <1>1, <2>2
<1>7. ASSUME NEW m \in 0..(Len(w) - 1), m \in T
      PROVE  m + 1 \in T
  <2>1. /\ m \in Nat /\ m + 1 \in 1..Len(w) /\ m + 1 \in 0..Len(w) /\ m + 1 - 1 = m
        /\ \A i \in 1..m : i \in 1..Len(w)
    BY <1>1
  <2>2. Good(m)
    BY <1>7
  <2>3. u[m + 1] = IF w[m + 1] \in takes THEN Append(u[m], w[m + 1]) ELSE u[m]
    BY <1>5, <2>1
  <2>4. Seen(m + 1) = Seen(m) \cup {w[m + 1]}
    <3>1. \A i : i \in 1..(m + 1) <=> i \in 1..m \/ i = m + 1
      BY <2>1
    <3>2. QED
      BY <3>1
  <2>5. CASE w[m + 1] \in takes
    <3> DEFINE s == u[m]
               x == w[m + 1]
               z == Append(s, x)
    <3>1. s \in Seq(S) /\ x \in S /\ u[m + 1] = z
      BY <1>1, <2>1, <2>2, <2>3, <2>5
    <3>2. ToSet(s) = Seen(m) \cap takes /\ (IsInjective(w) => IsInjective(s))
      BY <2>2
    <3>3. IsInjective(w) => x \notin ToSet(s)
      <4>1. IsInjective(w) => x \notin Seen(m)
        <5>1. \A i \in 1..m : i # m + 1
          BY <2>1
        <5>2. QED
          BY <1>1, <2>1, <5>1 DEF IsInjective
      <4>2. QED
        BY <3>2, <4>1
    <3> HIDE DEF s, x, Seen, Good
    <3>4. /\ z \in Seq(S) /\ DOMAIN z = 1..(Len(s) + 1) /\ DOMAIN s = 1..Len(s)
          /\ Len(s) \in Nat /\ z[Len(s) + 1] = x /\ \A i \in 1..Len(s) : z[i] = s[i]
      BY <3>1
    <3> HIDE DEF z
    <3>5. \A i \in DOMAIN z : i = Len(s) + 1 \/ i \in DOMAIN s
      BY <3>4
    <3>6. \A i \in DOMAIN s : i \in DOMAIN z /\ i # Len(s) + 1
      BY <3>4
    <3>7. Len(s) + 1 \in DOMAIN z
      BY <3>4
    <3>8. ToSet(z) = ToSet(s) \cup {x}
      BY <3>4, <3>5, <3>6, <3>7 DEF ToSet
    <3>9. IsInjective(w) => IsInjective(z)
      BY <3>2, <3>3, <3>4, <3>5 DEF IsInjective, ToSet
    <3>10. Seen(m + 1) \cap takes = (Seen(m) \cap takes) \cup {x}
      BY <2>4, <2>5 DEF x
    <3>11. Good(m + 1)
      BY <3>1, <3>2, <3>4, <3>8, <3>9, <3>10 DEF Good
    <3>12. QED
      BY <2>1, <3>11
  <2>6. CASE w[m + 1] \notin takes
    <3>1. u[m + 1] = u[m]
      BY <2>3, <2>6
    <3>2. Seen(m + 1) \cap takes = Seen(m) \cap takes
      BY <2>4, <2>6
    <3> HIDE DEF Seen
    <3>3. Good(m + 1)
      BY <2>2, <3>1, <3>2
    <3> HIDE DEF Good
    <3>4. QED
      BY <2>1, <3>3
  <2>7. QED
    BY <2>5, <2>6
<1>8. Good(Len(w))
  <2> HIDE DEF Good
  <2>1. \A m \in 0..(Len(w) - 1) : m \in T => m + 1 \in T
    BY <1>7
  <2>2. T = {k \in 0..Len(w) : Good(k)}
    OBVIOUS
  <2> HIDE DEF T
  <2>3. 0..Len(w) \subseteq T
    BY <1>1, <1>6, <2>1, UpTo
  <2>4. Len(w) \in 0..Len(w)
    BY <1>1
  <2>5. QED
    BY <2>2, <2>3, <2>4
<1>9. Seen(Len(w)) = ToSet(w)
  BY <1>1 DEF ToSet
<1>10. QED
  BY <1>3, <1>8, <1>9

\* The positions a walk meets, from position 1.
LEMMA Positions ==
  ASSUME NEW len, NEW p, NEW M, len \in Nat, len >= 1, M \in Nat, M >= 1, Leads(p, len)
  PROVE  \E g : Trail(g, p, len, M)
<1> len \in Nat /\ len >= 1 /\ M \in Nat /\ M >= 1 /\ p \in [1..len -> 1..len]
  BY DEF Leads
<1> DEFINE f == [x \in (1..(M - 1)) \X (1..len) |-> p[x[2]]]
<1>1. 1 \in 1..len /\ M - 1 \in Nat /\ f \in Steps(1..len, M - 1)
  BY DEF Steps
<1> HIDE DEF f
<1>2. PICK h : IsRun(h, 1..len, 1, M - 1, f)
  BY <1>1, Recursion
<1> DEFINE g == [k \in 1..M |-> h[k - 1]]
<1>3. \A k \in 1..M : k - 1 \in 0..(M - 1)
  OBVIOUS
<1>4. g \in [1..M -> 1..len] /\ g[1] = 1
  <2>1. \A k \in 1..M : h[k - 1] \in 1..len
    BY <1>2, <1>3 DEF IsRun
  <2>2. g \in [1..M -> 1..len]
    BY <2>1
  <2>3. 1 \in 1..M /\ 1 - 1 = 0
    OBVIOUS
  <2>4. QED
    BY <1>2, <2>2, <2>3 DEF IsRun
<1>5. ASSUME NEW k \in 2..M
      PROVE  g[k] = p[g[k - 1]]
  <2>1. k \in 1..M /\ k - 1 \in 1..M /\ k - 1 \in 1..(M - 1) /\ k - 1 - 1 \in 0..(M - 1)
    OBVIOUS
  <2>2. h[k - 1 - 1] \in 1..len
    BY <1>2, <2>1 DEF IsRun
  <2>3. h[k - 1] = p[h[k - 1 - 1]]
    BY <1>2, <2>1, <2>2 DEF IsRun, f
  <2>4. QED
    BY <2>1, <2>3
<1>6. QED
  BY <1>4, <1>5 DEF Trail

\* Edges of which each is found where the link of the one before it leads.
LEMMA Follow ==
  ASSUME NEW len, NEW p, NEW M, NEW g, len \in Nat, M \in Nat, M >= 1,
         Leads(p, len), Trail(g, p, len, M), NEW o, NEW v, v[1] = o[1],
         \A k \in 2..M : \A i \in 1..len : v[k - 1] = o[i] => v[k] = o[p[i]]
  PROVE  \A k \in 1..M : v[k] = o[g[k]]
<1> /\ len \in Nat /\ M \in Nat /\ M >= 1 /\ p \in [1..len -> 1..len]
    /\ g \in [1..M -> 1..len] /\ g[1] = 1 /\ \A k \in 2..M : g[k] = p[g[k - 1]]
    /\ v[1] = o[1]
  BY DEF Leads, Trail
<1> DEFINE T == {k \in 0..(M - 1) : v[k + 1] = o[g[k + 1]]}
<1>1. 0 \in T
  OBVIOUS
<1>2. ASSUME NEW m \in 0..(M - 1 - 1), m \in T
      PROVE  m + 1 \in T
  <2> DEFINE j == m + 1
             k == m + 1 + 1
  <2>1. j \in 0..(M - 1) /\ k \in 2..M /\ k - 1 = j /\ j \in 1..M
    <3>1. \A x \in Nat : \A y \in 0..(x - 1 - 1) :
             /\ y + 1 \in 0..(x - 1) /\ y + 1 + 1 \in 2..x
             /\ (y + 1 + 1) - 1 = y + 1 /\ y + 1 \in 1..x
      OBVIOUS
    <3>2. QED
      BY <3>1, Zenon
  <2>2. v[j] = o[g[j]] /\ g[j] \in 1..len
    BY <1>2, <2>1
  <2> HIDE DEF j, k
  <2>3. g[k] = p[g[j]]
    BY <2>1
  <2>4. v[k] = o[p[g[j]]]
    BY <2>1, <2>2
  <2>5. j + 1 = k /\ j = m + 1
    BY DEF j, k
  <2>6. QED
    BY <2>1, <2>3, <2>4, <2>5
<1>3. M - 1 \in Nat /\ \A k \in 1..M : k - 1 \in 0..(M - 1) /\ k - 1 + 1 = k
  OBVIOUS
<1>4. \A k \in T : v[k + 1] = o[g[k + 1]]
  OBVIOUS
<1> HIDE DEF T
<1>5. 0..(M - 1) \subseteq T
  BY <1>1, <1>2, <1>3, UpTo
<1>6. QED
  BY <1>3, <1>4, <1>5

\* The growing links of the first len edges of o, as positions.
InboundLeads(n, o, p, len) == \A k \in 1..len : InboundLink(n, o[k]) = o[p[k]]

\* A query that follows the growing links of a list on which every link leads to
\* an earlier position, but for the first: it ends, and visits each edge once.
LEMMA InboundWalk ==
  ASSUME IsFiniteSet(Edge), NEW n, n \in DOMAIN head,
         NEW len, len \in Nat, len >= 1, len <= Cardinality(Edge),
         NEW o, OneEach(o, len), head[n] = o[1],
         NEW p, Leads(p, len), InboundLeads(n, o, p, len)
  PROVE  \E g, c : /\ Trail(g, p, len, Limit) /\ BackAfter(c, g, p, len)
                    /\ InboundTerminates(n)
                    /\ Walk(n, InboundLink, InboundStop) = Along(o, g, c)
<1>1. Limit \in Nat /\ Limit >= 1 /\ len <= Limit
  BY FS_CardinalityType DEF Limit
<1>a. PICK g : Trail(g, p, len, Limit)
  BY <1>1, Positions
<1>b. PICK c : BackAfter(c, g, p, len)
  BY <1>1, <1>a, Descent
<1>2. /\ g \in [1..Limit -> 1..len] /\ g[1] = 1 /\ \A k \in 2..Limit : g[k] = p[g[k - 1]]
      /\ p \in [1..len -> 1..len]
  BY <1>a DEF Trail, Leads
<1>l. /\ \A k \in 1..len : InboundLink(n, o[k]) = o[p[k]]
      /\ \A i, j \in 1..len : o[i] = o[j] => i = j
  BY DEF InboundLeads, OneEach
<1>3. /\ c \in 1..len /\ p[g[c]] = 1
      /\ \A j \in 1..(c - 1) : p[g[j]] # 1
      /\ \A i, j \in 1..c : g[i] = g[j] => i = j
  BY <1>b DEF BackAfter
<1> DEFINE P(h) == h = [k \in 1..Limit |-> IF k = 1 THEN head[n] ELSE InboundLink(n, h[k - 1])]
           v == CHOOSE h : P(h)
<1>4. \A k \in 1..Limit : k = 1 \/ (k \in 2..Limit /\ k - 1 \in 1..Limit)
  BY <1>1
<1>5. \E h : P(h)
  <2> DEFINE h == [k \in 1..Limit |-> o[g[k]]]
  <2>1. ASSUME NEW k \in 1..Limit
        PROVE  h[k] = IF k = 1 THEN head[n] ELSE InboundLink(n, h[k - 1])
    <3>1. CASE k = 1
      BY <1>2, <3>1
    <3>2. CASE k # 1
      <4>1. k \in 2..Limit /\ k - 1 \in 1..Limit
        BY <1>4, <3>2
      <4>2. g[k] = p[g[k - 1]] /\ g[k - 1] \in 1..len
        BY <1>2, <4>1
      <4>3. h[k - 1] = o[g[k - 1]] /\ h[k] = o[g[k]]
        BY <4>1
      <4>4. QED
        BY <1>l, <3>2, <4>2, <4>3
    <3>3. QED
      BY <3>1, <3>2
  <2>2. P(h)
    BY <2>1
  <2>3. QED
    BY <2>2
<1>6. Visits(n, InboundLink) = v
  BY DEF Visits
<1>7. P(v)
  <2> HIDE DEF P
  <2>1. QED
    BY <1>5
<1> HIDE DEF v
<1>8. \A k \in 1..Limit : v[k] = IF k = 1 THEN head[n] ELSE InboundLink(n, v[k - 1])
  BY <1>7, Zenon
<1> HIDE DEF P
<1>9. 1 \in 1..Limit /\ \A k \in 2..Limit : k \in 1..Limit /\ k # 1
  BY <1>1
<1>10. v[1] = o[1] /\ \A k \in 2..Limit : \A i \in 1..len : v[k - 1] = o[i] => v[k] = o[p[i]]
  BY <1>l, <1>8, <1>9
<1>11. \A k \in 1..Limit : v[k] = o[g[k]]
  BY <1>1, <1>a, <1>10, Follow
<1>12. ASSUME NEW k \in 1..Limit
       PROVE  InboundStop(n, v[k]) <=> p[g[k]] = 1
  <2>1. g[k] \in 1..len /\ v[k] = o[g[k]]
    BY <1>2, <1>11
  <2>2. InboundStop(n, v[k]) <=> o[p[g[k]]] = o[1]
    BY <1>l, <2>1 DEF InboundStop
  <2>3. p[g[k]] \in 1..len /\ 1 \in 1..len
    BY <1>2, <2>1
  <2>4. QED
    BY <1>l, <2>2, <2>3
<1> DEFINE Ends(k) == EndsAt(n, InboundLink, InboundStop, k)
<1>13. ASSUME NEW k \in 1..Limit
       PROVE  Ends(k) <=> p[g[k]] = 1 /\ \A j \in 1..(k - 1) : p[g[j]] # 1
  <2>1. Ends(k) <=> InboundStop(n, v[k]) /\ \A j \in 1..(k - 1) : ~InboundStop(n, v[j])
    BY <1>6 DEF EndsAt
  <2>2. \A j \in 1..(k - 1) : j \in 1..Limit
    BY <1>1
  <2> HIDE DEF Ends
  <2>3. QED
    BY <1>12, <2>1, <2>2
<1>14. c \in 1..Limit
  BY <1>1, <1>3
<1>15. ASSUME NEW k \in 1..Limit
       PROVE  Ends(k) <=> k = c
  <2>1. k = c \/ k \in 1..(c - 1) \/ c \in 1..(k - 1)
    BY <1>14
  <2> HIDE DEF Ends
  <2>2. QED
    BY <1>3, <1>13, <1>14, <2>1
<1>16. InboundTerminates(n)
  BY <1>14, <1>15 DEF InboundTerminates, Terminates
<1>17. Walk(n, InboundLink, InboundStop) = Along(o, g, c)
  <2> DEFINE K == CHOOSE k \in 1..Limit : Ends(k)
  <2>1. K = c
    <3> HIDE DEF Ends
    <3>1. QED
      BY <1>14, <1>15
  <2>2. Walk(n, InboundLink, InboundStop) = [j \in 1..K |-> v[j]]
    BY <1>6 DEF Walk
  <2> HIDE DEF K
  <2>3. \A k \in 1..c : k \in 1..Limit
    BY <1>1, <1>14
  <2>4. QED
    BY <1>11, <2>1, <2>2, <2>3 DEF Along
<1>18. QED
  BY <1>a, <1>b, <1>16, <1>17

\* The other links of the first len edges of o, as positions.
OutboundLeads(n, o, p, len) == \A k \in 1..len : OutboundLink(n, o[k]) = o[p[k]]

\* A query that follows the other links of a list on which every link leads to
\* an earlier position, but for the first: it ends, and visits each edge once.
LEMMA OutboundWalk ==
  ASSUME IsFiniteSet(Edge), NEW n, n \in DOMAIN head,
         NEW len, len \in Nat, len >= 1, len <= Cardinality(Edge),
         NEW o, OneEach(o, len), head[n] = o[1],
         NEW p, Leads(p, len), OutboundLeads(n, o, p, len)
  PROVE  \E g, c : /\ Trail(g, p, len, Limit) /\ BackAfter(c, g, p, len)
                    /\ OutboundTerminates(n)
                    /\ Walk(n, OutboundLink, OutboundStop) = Along(o, g, c)
<1>1. Limit \in Nat /\ Limit >= 1 /\ len <= Limit
  BY FS_CardinalityType DEF Limit
<1>a. PICK g : Trail(g, p, len, Limit)
  BY <1>1, Positions
<1>b. PICK c : BackAfter(c, g, p, len)
  BY <1>1, <1>a, Descent
<1>2. /\ g \in [1..Limit -> 1..len] /\ g[1] = 1 /\ \A k \in 2..Limit : g[k] = p[g[k - 1]]
      /\ p \in [1..len -> 1..len]
  BY <1>a DEF Trail, Leads
<1>l. /\ \A k \in 1..len : OutboundLink(n, o[k]) = o[p[k]]
      /\ \A i, j \in 1..len : o[i] = o[j] => i = j
  BY DEF OutboundLeads, OneEach
<1>3. /\ c \in 1..len /\ p[g[c]] = 1
      /\ \A j \in 1..(c - 1) : p[g[j]] # 1
      /\ \A i, j \in 1..c : g[i] = g[j] => i = j
  BY <1>b DEF BackAfter
<1> DEFINE P(h) == h = [k \in 1..Limit |-> IF k = 1 THEN head[n] ELSE OutboundLink(n, h[k - 1])]
           v == CHOOSE h : P(h)
<1>4. \A k \in 1..Limit : k = 1 \/ (k \in 2..Limit /\ k - 1 \in 1..Limit)
  BY <1>1
<1>5. \E h : P(h)
  <2> DEFINE h == [k \in 1..Limit |-> o[g[k]]]
  <2>1. ASSUME NEW k \in 1..Limit
        PROVE  h[k] = IF k = 1 THEN head[n] ELSE OutboundLink(n, h[k - 1])
    <3>1. CASE k = 1
      BY <1>2, <3>1
    <3>2. CASE k # 1
      <4>1. k \in 2..Limit /\ k - 1 \in 1..Limit
        BY <1>4, <3>2
      <4>2. g[k] = p[g[k - 1]] /\ g[k - 1] \in 1..len
        BY <1>2, <4>1
      <4>3. h[k - 1] = o[g[k - 1]] /\ h[k] = o[g[k]]
        BY <4>1
      <4>4. QED
        BY <1>l, <3>2, <4>2, <4>3
    <3>3. QED
      BY <3>1, <3>2
  <2>2. P(h)
    BY <2>1
  <2>3. QED
    BY <2>2
<1>6. Visits(n, OutboundLink) = v
  BY DEF Visits
<1>7. P(v)
  <2> HIDE DEF P
  <2>1. QED
    BY <1>5
<1> HIDE DEF v
<1>8. \A k \in 1..Limit : v[k] = IF k = 1 THEN head[n] ELSE OutboundLink(n, v[k - 1])
  BY <1>7, Zenon
<1> HIDE DEF P
<1>9. 1 \in 1..Limit /\ \A k \in 2..Limit : k \in 1..Limit /\ k # 1
  BY <1>1
<1>10. v[1] = o[1] /\ \A k \in 2..Limit : \A i \in 1..len : v[k - 1] = o[i] => v[k] = o[p[i]]
  BY <1>l, <1>8, <1>9
<1>11. \A k \in 1..Limit : v[k] = o[g[k]]
  BY <1>1, <1>a, <1>10, Follow
<1>12. ASSUME NEW k \in 1..Limit
       PROVE  OutboundStop(n, v[k]) <=> p[g[k]] = 1
  <2>1. g[k] \in 1..len /\ v[k] = o[g[k]]
    BY <1>2, <1>11
  <2>2. OutboundStop(n, v[k]) <=> o[p[g[k]]] = o[1]
    BY <1>l, <2>1 DEF OutboundStop
  <2>3. p[g[k]] \in 1..len /\ 1 \in 1..len
    BY <1>2, <2>1
  <2>4. QED
    BY <1>l, <2>2, <2>3
<1> DEFINE Ends(k) == EndsAt(n, OutboundLink, OutboundStop, k)
<1>13. ASSUME NEW k \in 1..Limit
       PROVE  Ends(k) <=> p[g[k]] = 1 /\ \A j \in 1..(k - 1) : p[g[j]] # 1
  <2>1. Ends(k) <=> OutboundStop(n, v[k]) /\ \A j \in 1..(k - 1) : ~OutboundStop(n, v[j])
    BY <1>6 DEF EndsAt
  <2>2. \A j \in 1..(k - 1) : j \in 1..Limit
    BY <1>1
  <2> HIDE DEF Ends
  <2>3. QED
    BY <1>12, <2>1, <2>2
<1>14. c \in 1..Limit
  BY <1>1, <1>3
<1>15. ASSUME NEW k \in 1..Limit
       PROVE  Ends(k) <=> k = c
  <2>1. k = c \/ k \in 1..(c - 1) \/ c \in 1..(k - 1)
    BY <1>14
  <2> HIDE DEF Ends
  <2>2. QED
    BY <1>3, <1>13, <1>14, <2>1
<1>16. OutboundTerminates(n)
  BY <1>14, <1>15 DEF OutboundTerminates, Terminates
<1>17. Walk(n, OutboundLink, OutboundStop) = Along(o, g, c)
  <2> DEFINE K == CHOOSE k \in 1..Limit : Ends(k)
  <2>1. K = c
    <3> HIDE DEF Ends
    <3>1. QED
      BY <1>14, <1>15
  <2>2. Walk(n, OutboundLink, OutboundStop) = [j \in 1..K |-> v[j]]
    BY <1>6 DEF Walk
  <2> HIDE DEF K
  <2>3. \A k \in 1..c : k \in 1..Limit
    BY <1>1, <1>14
  <2>4. QED
    BY <1>11, <2>1, <2>2, <2>3 DEF Along
<1>18. QED
  BY <1>a, <1>b, <1>16, <1>17

-------------------------------------------------------------------------------
(* EdgeAnswers: what is left of the ring when edges are upset again.         *)

\* The links of the list o of node n.  An update moves only the growing link of
\* the first edge; every later edge still leads to an older one, and the other
\* links still join the first two.
LinksOf(r, n, o) ==
  /\ \E j \in 1..Len(o) : GrowIn(r, n, o[1]) = o[j]
  /\ OtherIn(r, n, o[1]) = IF Len(o) = 1 THEN o[1] ELSE o[2]
  /\ Len(o) >= 2 => OtherIn(r, n, o[2]) = o[1]
  /\ \A k \in 2..Len(o) : \E j \in 1..(k - 1) : GrowIn(r, n, o[k]) = o[j]

ListAt(n) == order[n] # <<>> => /\ n \in DOMAIN head /\ head[n] = order[n][1]
                                /\ LinksOf(rec, n, order[n])

\* Every stored edge is in the history of both its ends.
InOrder == \A e \in DOMAIN rec : \A n \in Node :
             Incident(n, e) => \E k \in 1..Len(order[n]) : order[n][k] = e

\* A stored edge has an object, which is not new: it is stored once only.
StoredOnce == \A e \in DOMAIN rec : e \in DOMAIN obj /\ obj[e] # "Latest"

\* What the queries rely on while nothing was done out of order.
LInv == /\ IInv /\ OrderOK /\ InOrder /\ StoredOnce /\ \A n \in Node : ListAt(n)
        /\ settled => RingInv

\* The inductive invariant of the queries.
AInv == RIInv /\ (Orderly => LInv)

\* A list keeps its links when none of its edges is changed.
LEMMA SameLinks ==
  ASSUME NEW r, NEW q, NEW n, NEW o \in Seq(Edge), o # <<>>, LinksOf(r, n, o),
         \A k \in 1..Len(o) : /\ GrowIn(q, n, o[k]) = GrowIn(r, n, o[k])
                              /\ OtherIn(q, n, o[k]) = OtherIn(r, n, o[k])
  PROVE  LinksOf(q, n, o)
<1>1. Len(o) \in Nat /\ Len(o) >= 1
  OBVIOUS
<1>2. 1 \in 1..Len(o) /\ (Len(o) >= 2 => 2 \in 1..Len(o)) /\ \A k \in 2..Len(o) : k \in 1..Len(o)
  BY <1>1
<1>3. QED
  BY <1>2 DEF LinksOf

\* A list after a new edge was connected to its first one (upsetEdge).
LEMMA GrownLinks ==
  ASSUME NEW r, NEW q, NEW n, NEW o \in Seq(Edge), o # <<>>, LinksOf(r, n, o), NEW e \in Edge,
         \A i, j \in 1..Len(o) : o[i] = o[j] => i = j,
         \A k \in 2..Len(o) : /\ GrowIn(q, n, o[k]) = GrowIn(r, n, o[k])
                              /\ OtherIn(q, n, o[k]) = OtherIn(r, n, o[k]),
         GrowIn(q, n, o[1]) = e,
         OtherIn(q, n, o[1]) = IF OtherIn(r, n, o[1]) = o[1] THEN e ELSE OtherIn(r, n, o[1]),
         GrowIn(q, n, e) = IF SameRole(n, e, o[1]) THEN GrowIn(r, n, o[1])
                           ELSE OtherIn(r, n, o[1]),
         OtherIn(q, n, e) = IF SameRole(n, e, o[1]) THEN OtherIn(r, n, o[1])
                            ELSE GrowIn(r, n, o[1])
  PROVE  LinksOf(q, n, Append(o, e))
<1> DEFINE z == Append(o, e)
           len == Len(o)
<1>1. /\ len \in Nat /\ len >= 1 /\ Len(z) = len + 1
      /\ z[len + 1] = e /\ \A k \in 1..len : z[k] = o[k]
  OBVIOUS
<1>2. /\ \E j \in 1..len : GrowIn(r, n, o[1]) = o[j]
      /\ OtherIn(r, n, o[1]) = IF len = 1 THEN o[1] ELSE o[2]
      /\ len >= 2 => OtherIn(r, n, o[2]) = o[1]
      /\ \A k \in 2..len : \E j \in 1..(k - 1) : GrowIn(r, n, o[k]) = o[j]
  BY DEF LinksOf
<1>3. \A i, j \in 1..len : o[i] = o[j] => i = j
  OBVIOUS
<1> HIDE DEF z, len
<1>4. /\ 1 \in 1..len /\ (len # 1 => 2 \in 1..len /\ 2 \in 2..len)
      /\ \A k \in 2..len : k \in 1..len /\ \A j \in 1..(k - 1) : j \in 1..len
      /\ \A k \in 2..(len + 1) : k \in 2..len \/ k = len + 1
      /\ len + 1 \in 1..(len + 1) /\ (len + 1) - 1 = len
  BY <1>1
<1>5. z[1] = o[1] /\ (len # 1 => z[2] = o[2] /\ o[2] # o[1]) /\ (len = 1 => z[2] = e)
  BY <1>1, <1>3, <1>4
<1>6. \E j \in 1..(len + 1) : GrowIn(q, n, z[1]) = z[j]
  BY <1>1, <1>4, <1>5
<1>7. OtherIn(q, n, z[1]) = z[2]
  BY <1>2, <1>5
<1>8. OtherIn(q, n, z[2]) = z[1]
  <2>1. CASE len = 1
    <3>1. OtherIn(r, n, o[1]) = o[1] /\ GrowIn(r, n, o[1]) = o[1]
      <4>1. \A j \in 1..len : j = 1
        BY <2>1
      <4>2. QED
        BY <1>2, <2>1, <4>1
    <3>2. QED
      BY <1>5, <2>1, <3>1
  <2>2. CASE len # 1
    <3>1. len >= 2
      BY <1>1, <2>2
    <3>2. QED
      BY <1>2, <1>4, <1>5, <2>2, <3>1 DEF len
  <2>3. QED
    BY <2>1, <2>2
<1>9. ASSUME NEW k \in 2..len
      PROVE  \E j \in 1..(k - 1) : GrowIn(q, n, z[k]) = z[j]
  <2>1. PICK j \in 1..(k - 1) : GrowIn(r, n, o[k]) = o[j]
    BY <1>2
  <2>2. z[k] = o[k] /\ z[j] = o[j]
    BY <1>1, <1>4
  <2>3. GrowIn(q, n, o[k]) = GrowIn(r, n, o[k])
    BY DEF len
  <2>4. QED
    BY <2>1, <2>2, <2>3
<1>10. \E j \in 1..len : GrowIn(q, n, e) = z[j]
  <2>1. CASE SameRole(n, e, o[1])
    BY <1>1, <1>2, <2>1
  <2>2. CASE ~SameRole(n, e, o[1])
    <3>1. GrowIn(q, n, e) = z[IF len = 1 THEN 1 ELSE 2]
      BY <1>2, <1>5, <2>2
    <3>2. QED
      BY <1>4, <3>1
  <2>3. QED
    BY <2>1, <2>2
<1>11. \A k \in 2..(len + 1) : \E j \in 1..(k - 1) : GrowIn(q, n, z[k]) = z[j]
  BY <1>1, <1>4, <1>9, <1>10
<1>12. len + 1 # 1
  BY <1>1
<1>13. QED
  BY <1>1, <1>6, <1>7, <1>8, <1>11, <1>12 DEF LinksOf, z

\* A list after one of its edges was connected to the first one again.
LEMMA UpdatedLinks ==
  ASSUME NEW r, NEW q, NEW n, NEW o \in Seq(Edge), o # <<>>, LinksOf(r, n, o),
         NEW i \in 1..Len(o), \A k, j \in 1..Len(o) : o[k] = o[j] => k = j,
         \A k \in 2..Len(o) : /\ GrowIn(q, n, o[k]) = GrowIn(r, n, o[k])
                              /\ OtherIn(q, n, o[k]) = OtherIn(r, n, o[k]),
         GrowIn(q, n, o[1]) = o[i],
         OtherIn(q, n, o[1]) = IF OtherIn(r, n, o[1]) = o[1] THEN o[i] ELSE OtherIn(r, n, o[1])
  PROVE  LinksOf(q, n, o)
<1>1. Len(o) \in Nat /\ Len(o) >= 1
  OBVIOUS
<1>2. OtherIn(q, n, o[1]) = IF Len(o) = 1 THEN o[1] ELSE o[2]
  <2>1. CASE Len(o) = 1
    BY <2>1 DEF LinksOf
  <2>2. CASE Len(o) # 1
    <3>0. \A m \in Nat : m >= 1 /\ m # 1 => 1 \in 1..m /\ 2 \in 1..m
      OBVIOUS
    <3>1. 1 \in 1..Len(o) /\ 2 \in 1..Len(o)
      BY <1>1, <2>2, <3>0
    <3>2. o[2] # o[1]
      BY <3>1
    <3>3. QED
      BY <2>2, <3>2 DEF LinksOf
  <2>3. QED
    BY <2>1, <2>2
<1>3. Len(o) >= 2 => 2 \in 2..Len(o)
  BY <1>1
<1>4. QED
  BY <1>2, <1>3 DEF LinksOf

\* What upsetEdge writes for an edge that is stored already.
LEMMA UpdateWrites ==
  ASSUME IInv, StoredOnce, NEW e \in Edge, Upset(e), e \in DOMAIN rec, ~early'
  PROVE  /\ head' = head /\ obj' = obj /\ DOMAIN rec' = DOMAIN rec
         /\ \A n : \A x \in DOMAIN rec : Incident(n, x) /\ (~Incident(n, e) \/ x # head[n]) =>
              /\ GrowIn(rec', n, x) = GrowIn(rec, n, x)
              /\ OtherIn(rec', n, x) = OtherIn(rec, n, x)
         /\ \A n : Incident(n, e) =>
              /\ GrowIn(rec', n, head[n]) = e
              /\ OtherIn(rec', n, head[n]) = IF OtherIn(rec, n, head[n]) = head[n] THEN e
                                             ELSE OtherIn(rec, n, head[n])
<1>1. ~New(e)
  BY DEF StoredOnce, New
<1>2. HeadsOf(e) = head /\ RecsOf(e) = rec
  BY <1>1 DEF HeadsOf, RecsOf
<1>3. /\ HeadType(head) /\ RecType(rec) /\ HeadsIncident(rec, head) /\ BInv
      /\ Src(e) \in DOMAIN head /\ Dst(e) \in DOMAIN head
  BY DEF IInv, BInv
<1>4. e \in Uncut /\ Whole(e)
  BY <1>3 DEF RecType, Uncut
<1>5. ~aborted'
  BY <1>4, UpsetKeepsLinks
<1>6. head' = head /\ obj' = obj /\ rec' = UpdateEdges(rec, head, e)
  BY <1>1, <1>2, <1>5, UpsetOf
<1>7. LET t == UpdateEdges(rec, head, e) IN
      /\ DOMAIN t = DOMAIN rec
      /\ \A n : \A x \in DOMAIN rec : Incident(n, x) /\ (~Incident(n, e) \/ x # head[n]) =>
           GrowIn(t, n, x) = GrowIn(rec, n, x) /\ OtherIn(t, n, x) = OtherIn(rec, n, x)
      /\ \A n : Incident(n, e) =>
           /\ GrowIn(t, n, head[n]) = e
           /\ OtherIn(t, n, head[n]) = IF OtherIn(rec, n, head[n]) = head[n] THEN e
                                       ELSE OtherIn(rec, n, head[n])
  BY <1>3, <1>4, UpdateEdgesLinks
<1>8. QED
  BY <1>6, <1>7

\* The history of a node in the steps below: its edges are stored, at the node,
\* and each is there once.
LEMMA OrderFacts ==
  ASSUME OrderOK, NEW n \in Node
  PROVE  /\ order[n] \in Seq(Edge) /\ Len(order[n]) \in Nat
         /\ \A k \in 1..Len(order[n]) : order[n][k] \in DOMAIN rec /\ Incident(n, order[n][k])
         /\ \A i, j \in 1..Len(order[n]) : order[n][i] = order[n][j] => i = j
         /\ n \in DOMAIN head => order[n] # <<>>
         /\ order[n] # <<>> => Len(order[n]) >= 1
<1>1. order[n] \in Seq(Edge)
  BY DEF OrderOK
<1>2. \A k \in 1..Len(order[n]) : StoredAt(rec, n, order[n][k])
  BY DEF OrderOK
<1>3. \A i, j \in 1..Len(order[n]) : order[n][i] = order[n][j] => i = j
  BY DEF OrderOK
<1>4. n \in DOMAIN head => order[n] # <<>>
  BY DEF OrderOK
<1>5. \A s \in Seq(Edge) : Len(s) \in Nat /\ (s # <<>> => Len(s) >= 1)
  OBVIOUS
<1>6. QED
  BY <1>1, <1>2, <1>3, <1>4, <1>5 DEF StoredAt

\* The list of a node after an edge was stored.
LEMMA StoreListAt ==
  ASSUME IInv, OrderOK, NEW e \in Edge, Store(e), Done(e), NEW n \in Node, ListAt(n)
  PROVE  ListAt(n)'
<1> DEFINE o == order[n]
           z == order'[n]
<1>1. Done(e) /\ e \notin DOMAIN rec
  BY DEF Store
<1>2. z = IF Incident(n, e) THEN Append(o, e) ELSE o
  <2>1. e \in DOMAIN rec'
    BY <1>1, StoreLinks
  <2>2. QED
    BY <2>1 DEF OrderOK, Store
<1>3. /\ o \in Seq(Edge) /\ Len(o) \in Nat
      /\ \A k \in 1..Len(o) : o[k] \in DOMAIN rec /\ Incident(n, o[k])
      /\ \A i, j \in 1..Len(o) : o[i] = o[j] => i = j
      /\ n \in DOMAIN head => o # <<>>
      /\ o # <<>> => Len(o) >= 1
  BY OrderFacts
<1>4. /\ DOMAIN head' = DOMAIN head \cup {Src(e), Dst(e)}
      /\ n \in DOMAIN head => head'[n] = head[n]
      /\ n \in DOMAIN head' /\ n \notin DOMAIN head => head'[n] = e
  BY <1>1, StoreHeads
<1>5. o # <<>> => n \in DOMAIN head /\ head[n] = o[1] /\ LinksOf(rec, n, o)
  BY DEF ListAt
<1>6. /\ \A x \in DOMAIN rec : Incident(n, x) /\ (~Incident(n, e) \/ x # head'[n]) =>
           GrowIn(rec', n, x) = GrowIn(rec, n, x) /\ OtherIn(rec', n, x) = OtherIn(rec, n, x)
      /\ Incident(n, e) =>
           LET f == head'[n] IN
           /\ f = e => GrowIn(rec', n, e) = e /\ OtherIn(rec', n, e) = e
           /\ f # e =>
                /\ GrowIn(rec', n, f) = e
                /\ OtherIn(rec', n, f) = IF OtherIn(rec, n, f) = f THEN e ELSE OtherIn(rec, n, f)
                /\ GrowIn(rec', n, e) = IF SameRole(n, e, f) THEN GrowIn(rec, n, f)
                                        ELSE OtherIn(rec, n, f)
                /\ OtherIn(rec', n, e) = IF SameRole(n, e, f) THEN OtherIn(rec, n, f)
                                         ELSE GrowIn(rec, n, f)
  <2>1. \A x \in DOMAIN rec : Incident(n, x) /\ (~Incident(n, e) \/ x # head'[n]) =>
          GrowIn(rec', n, x) = GrowIn(rec, n, x) /\ OtherIn(rec', n, x) = OtherIn(rec, n, x)
    BY <1>1, StoreLinks
  <2> DEFINE Led(m) == LET f == head'[m] IN
               /\ f = e => GrowIn(rec', m, e) = e /\ OtherIn(rec', m, e) = e
               /\ f # e =>
                    /\ GrowIn(rec', m, f) = e
                    /\ OtherIn(rec', m, f) = IF OtherIn(rec, m, f) = f THEN e
                                             ELSE OtherIn(rec, m, f)
                    /\ GrowIn(rec', m, e) = IF SameRole(m, e, f) THEN GrowIn(rec, m, f)
                                            ELSE OtherIn(rec, m, f)
                    /\ OtherIn(rec', m, e) = IF SameRole(m, e, f) THEN OtherIn(rec, m, f)
                                             ELSE GrowIn(rec, m, f)
  <2>2. \A m : Incident(m, e) => Led(m)
    BY <1>1, StoreLinks
  <2> HIDE DEF Led
  <2>3. Incident(n, e) => Led(n)
    BY <2>2
  <2> QED BY <2>1, <2>3 DEF Led
<1> SUFFICES ASSUME z # <<>>
             PROVE  n \in DOMAIN head' /\ head'[n] = z[1] /\ LinksOf(rec', n, z)
  BY DEF ListAt
<1> HIDE DEF o, z
<1>7. CASE ~Incident(n, e)
  <2>1. \A k \in 1..Len(o) : /\ GrowIn(rec', n, o[k]) = GrowIn(rec, n, o[k])
                             /\ OtherIn(rec', n, o[k]) = OtherIn(rec, n, o[k])
    BY <1>3, <1>6, <1>7
  <2>2. z = o
    BY <1>2, <1>7
  <2>3. LinksOf(rec', n, o)
    BY <1>3, <1>5, <2>1, <2>2, SameLinks
  <2>4. QED
    BY <1>4, <1>5, <2>2, <2>3
<1>8. CASE Incident(n, e) /\ o = <<>>
  <2>1. z = <<e>> /\ Len(z) = 1 /\ z[1] = e
    BY <1>2, <1>8
  <2>2. n \in DOMAIN head' /\ n \notin DOMAIN head
    BY <1>3, <1>4, <1>8 DEF Incident
  <2>3. GrowIn(rec', n, e) = e /\ OtherIn(rec', n, e) = e
    BY <1>4, <1>6, <1>8, <2>2
  <2>4. LinksOf(rec', n, z)
    BY <2>1, <2>3 DEF LinksOf
  <2>5. QED
    BY <1>4, <2>1, <2>2, <2>4
<1>9. CASE Incident(n, e) /\ o # <<>>
  <2>1. /\ 1 \in 1..Len(o) /\ \A k \in 2..Len(o) : k \in 1..Len(o) /\ k # 1
    BY <1>3, <1>9
  <2>2. n \in DOMAIN head' /\ head'[n] = o[1] /\ o[1] # e
    BY <1>1, <1>3, <1>4, <1>5, <1>9, <2>1
  <2>3. \A k \in 2..Len(o) : /\ GrowIn(rec', n, o[k]) = GrowIn(rec, n, o[k])
                             /\ OtherIn(rec', n, o[k]) = OtherIn(rec, n, o[k])
    <3>1. \A k \in 2..Len(o) : o[k] # o[1] /\ o[k] \in DOMAIN rec /\ Incident(n, o[k])
      BY <1>3, <2>1
    <3>2. QED
      BY <1>6, <2>2, <3>1
  <2>4. /\ GrowIn(rec', n, o[1]) = e
        /\ OtherIn(rec', n, o[1]) = IF OtherIn(rec, n, o[1]) = o[1] THEN e
                                    ELSE OtherIn(rec, n, o[1])
        /\ GrowIn(rec', n, e) = IF SameRole(n, e, o[1]) THEN GrowIn(rec, n, o[1])
                                ELSE OtherIn(rec, n, o[1])
        /\ OtherIn(rec', n, e) = IF SameRole(n, e, o[1]) THEN OtherIn(rec, n, o[1])
                                 ELSE GrowIn(rec, n, o[1])
    BY <1>6, <1>9, <2>2
  <2>5. LinksOf(rec', n, Append(o, e))
    BY <1>3, <1>5, <1>9, <2>3, <2>4, GrownLinks
  <2>6. z = Append(o, e) /\ z[1] = o[1]
    BY <1>2, <1>3, <1>9
  <2>7. QED
    BY <2>2, <2>5, <2>6
<1>10. QED
  BY <1>7, <1>8, <1>9

\* The list of a node after an edge was updated.
LEMMA UpdateListAt ==
  ASSUME IInv, OrderOK, StoredOnce, InOrder, NEW e \in Edge, Update(e), ~early',
         NEW n \in Node, ListAt(n)
  PROVE  ListAt(n)'
<1> DEFINE o == order[n]
<1>1. Upset(e) /\ e \in DOMAIN rec /\ order' = order
  BY DEF Update
<1>2. /\ o \in Seq(Edge) /\ Len(o) \in Nat
      /\ \A k \in 1..Len(o) : o[k] \in DOMAIN rec /\ Incident(n, o[k])
      /\ \A i, j \in 1..Len(o) : o[i] = o[j] => i = j
      /\ o # <<>> => Len(o) >= 1
  BY OrderFacts
<1>3. o # <<>> => n \in DOMAIN head /\ head[n] = o[1] /\ LinksOf(rec, n, o)
  BY DEF ListAt
<1>4. /\ head' = head
      /\ \A x \in DOMAIN rec : Incident(n, x) /\ (~Incident(n, e) \/ x # head[n]) =>
           GrowIn(rec', n, x) = GrowIn(rec, n, x) /\ OtherIn(rec', n, x) = OtherIn(rec, n, x)
      /\ Incident(n, e) =>
           /\ GrowIn(rec', n, head[n]) = e
           /\ OtherIn(rec', n, head[n]) = IF OtherIn(rec, n, head[n]) = head[n] THEN e
                                          ELSE OtherIn(rec, n, head[n])
  BY <1>1, UpdateWrites
<1>5. Incident(n, e) => \E k \in 1..Len(o) : o[k] = e
  BY <1>1 DEF InOrder
<1> SUFFICES ASSUME o # <<>>
             PROVE  n \in DOMAIN head' /\ head'[n] = o[1] /\ LinksOf(rec', n, o)
  BY <1>1 DEF ListAt
<1> HIDE DEF o
<1>6. CASE ~Incident(n, e)
  <2>1. \A k \in 1..Len(o) : /\ GrowIn(rec', n, o[k]) = GrowIn(rec, n, o[k])
                             /\ OtherIn(rec', n, o[k]) = OtherIn(rec, n, o[k])
    BY <1>2, <1>4, <1>6
  <2>2. QED
    BY <1>2, <1>3, <1>4, <2>1, SameLinks
<1>7. CASE Incident(n, e)
  <2>1. PICK i \in 1..Len(o) : o[i] = e
    BY <1>5, <1>7
  <2>2. 1 \in 1..Len(o) /\ \A k \in 2..Len(o) : k \in 1..Len(o) /\ k # 1
    BY <1>2
  <2>3. \A k \in 2..Len(o) : o[k] # o[1] /\ o[k] \in DOMAIN rec /\ Incident(n, o[k])
    BY <1>2, <2>2
  <2>4. \A k \in 2..Len(o) : /\ GrowIn(rec', n, o[k]) = GrowIn(rec, n, o[k])
                             /\ OtherIn(rec', n, o[k]) = OtherIn(rec, n, o[k])
    BY <1>3, <1>4, <2>3
  <2>5. /\ GrowIn(rec', n, o[1]) = o[i]
        /\ OtherIn(rec', n, o[1]) = IF OtherIn(rec, n, o[1]) = o[1] THEN o[i]
                                    ELSE OtherIn(rec, n, o[1])
    BY <1>3, <1>4, <1>7, <2>1
  <2>6. LinksOf(rec', n, o)
    BY <1>2, <1>3, <2>4, <2>5, UpdatedLinks
  <2>7. QED
    BY <1>3, <1>4, <2>6
<1>8. QED
  BY <1>6, <1>7

\* What the queries rely on is kept while nothing is done out of order.
LEMMA StepKeepsLInv ==
  ASSUME RIInv, LInv, [RNext]_rvars, Orderly'
  PROVE  LInv'
<1>1. ~early' /\ IInv' /\ (settled' => RingInv')
  <2>1. RIInv'
    BY StepKeepsRIInv
  <2>2. QED
    BY <2>1 DEF RIInv, EInv, Orderly
<1>2. IInv /\ OrderOK /\ InOrder /\ StoredOnce /\ \A n \in Node : ListAt(n)
  BY DEF LInv
<1>3. CASE UNCHANGED <<head, rec, order>>
  <2>1. OrderOK' /\ InOrder' /\ \A n \in Node : ListAt(n)'
    BY <1>2, <1>3 DEF OrderOK, InOrder, ListAt
  <2>2. StoredOnce'
    <3>1. ASSUME NEW e \in Edge, RCreate(e)
          PROVE  StoredOnce'
      BY <1>2, <3>1 DEF RCreate, Create, StoredOnce, Put, Orderly
    <3>2. ASSUME NEW e \in Edge, RSetProperties(e)
          PROVE  StoredOnce'
      BY <1>2, <3>2 DEF RSetProperties, SetProperties, StoredOnce, Put
    <3>3. ASSUME NEW e \in Edge, Store(e)
          PROVE  StoredOnce'
      BY <1>2, <1>3, <3>3, UpsetOf DEF Store, StoredOnce, Put
    <3>4. ASSUME NEW e \in Edge, Update(e)
          PROVE  StoredOnce'
      BY <1>1, <1>2, <1>3, <3>4, UpdateWrites DEF Update, StoredOnce
    <3>5. CASE UNCHANGED rvars
      BY <1>2, <3>5 DEF rvars, vars, StoredOnce
    <3>6. QED
      BY <3>1, <3>2, <3>3, <3>4, <3>5 DEF RNext
  <2>3. QED
    BY <1>1, <2>1, <2>2 DEF LInv
<1>4. ASSUME NEW e \in Edge, RCreate(e) \/ RSetProperties(e)
      PROVE  LInv'
  BY <1>3, <1>4 DEF RCreate, RSetProperties, Create, SetProperties
<1>5. ASSUME NEW e \in Edge, Store(e)
      PROVE  LInv'
  <2>0. CASE aborted'
    BY <1>2, <1>3, <1>5, <2>0, StopKeeps DEF IInv, OrderOK
  <2> SUFFICES ASSUME ~aborted'
               PROVE  LInv'
    BY <2>0
  <2>d. Done(e)
    BY <1>5 DEF Done, Store, Orderly
  <2>1. OrderOK' /\ \A n \in Node : ListAt(n)'
    BY <1>2, <1>5, <2>d, StoreOrder, StoreListAt
  <2>2. Upset(e) /\ e \notin DOMAIN rec /\ DOMAIN rec' = DOMAIN rec \cup {e}
    BY <1>2, <1>5, <2>d, StoreLinks DEF Store
  <2>3. StoredOnce'
    <3>1. New(e) /\ e \in DOMAIN obj
      BY <1>1, <2>2, UpsetOf
    <3>2. obj' = Put(obj, e, "NoneChanged")
      BY <2>2, <3>1, UpsetOf
    <3>3. QED
      BY <1>2, <2>2, <3>1, <3>2 DEF StoredOnce, Put
  <2>4. ASSUME NEW n \in Node, NEW x \in DOMAIN rec', Incident(n, x)
        PROVE  \E k \in 1..Len(order'[n]) : order'[n][k] = x
    <3>1. /\ order[n] \in Seq(Edge)
          /\ order'[n] = IF Incident(n, e) THEN Append(order[n], e) ELSE order[n]
      BY <1>2, <1>5, <2>2 DEF OrderOK, Store
    <3>2. \A s \in Seq(Edge) : /\ Len(Append(s, e)) = Len(s) + 1 /\ Len(s) \in Nat
                               /\ Append(s, e)[Len(s) + 1] = e
                               /\ \A k \in 1..Len(s) : Append(s, e)[k] = s[k]
      OBVIOUS
    <3>3. x = e \/ \E k \in 1..Len(order[n]) : order[n][k] = x
      BY <1>2, <2>2, <2>4 DEF InOrder
    <3>4. CASE Incident(n, e)
      <4> DEFINE s == order[n]
                 z == order'[n]
      <4>1. /\ Len(z) = Len(s) + 1 /\ Len(s) \in Nat /\ z[Len(s) + 1] = e
            /\ \A k \in 1..Len(s) : z[k] = s[k]
        BY <3>1, <3>2, <3>4
      <4>2. x = e \/ \E k \in 1..Len(s) : s[k] = x
        BY <3>3
      <4> HIDE DEF s, z
      <4>3. Len(s) + 1 \in 1..Len(z) /\ \A k \in 1..Len(s) : k \in 1..Len(z)
        BY <4>1
      <4>4. \E k \in 1..Len(z) : z[k] = x
        BY <4>1, <4>2, <4>3
      <4>5. QED
        BY <4>4 DEF z
    <3>5. CASE ~Incident(n, e)
      BY <2>4, <3>1, <3>3, <3>5
    <3>6. QED
      BY <3>4, <3>5
  <2>5. InOrder'
    BY <2>4 DEF InOrder
  <2>6. QED
    BY <1>1, <2>1, <2>3, <2>5 DEF LInv
<1>6. ASSUME NEW e \in Edge, Update(e)
      PROVE  LInv'
  <2>1. \A n \in Node : ListAt(n)'
    BY <1>1, <1>2, <1>6, UpdateListAt
  <2>2. /\ order' = order /\ head' = head /\ obj' = obj /\ DOMAIN rec' = DOMAIN rec
    BY <1>1, <1>2, <1>6, UpdateWrites DEF Update
  <2>3. OrderOK' /\ InOrder' /\ StoredOnce'
    BY <1>2, <2>2 DEF OrderOK, InOrder, StoredOnce, StoredAt
  <2>4. QED
    BY <1>1, <2>1, <2>3 DEF LInv
<1>7. CASE UNCHANGED rvars
  BY <1>3, <1>7 DEF rvars, vars
<1>8. QED
  BY <1>4, <1>5, <1>6, <1>7 DEF RNext

\* Every step keeps the inductive invariant of the queries.
LEMMA StepKeepsAInv ==
  ASSUME AInv, [RNext]_rvars
  PROVE  AInv'
<1>1. RIInv'
  BY StepKeepsRIInv DEF AInv
<1>2. Orderly' => LInv'
  BY OrderlyStays, StepKeepsLInv DEF AInv
<1>3. QED
  BY <1>1, <1>2 DEF AInv

LEMMA InitAInv == RInit => AInv
BY InitEInv DEF RInit, Init, NoEntries, AInv, LInv, RIInv, EInv, Orderly, RingInv, OrderOK, RingAt,
                InOrder, StoredOnce, ListAt

LEMMA AInvInvariant == RSpec => []AInv
<1>1. AInv /\ [RNext]_rvars => AInv'
  BY StepKeepsAInv
<1>2. QED
  BY <1>1, InitAInv, PTL DEF RSpec

-------------------------------------------------------------------------------
(* The walks of the two queries over a list of LInv. *)

\* A node has at most as many edges as there are.
LEMMA OrderFits ==
  ASSUME OrderOK, IsFiniteSet(Edge), NEW n \in Node
  PROVE  Len(order[n]) <= Cardinality(Edge)
<1> DEFINE o == order[n]
<1>1. o \in Seq(Edge) /\ Len(o) \in Nat /\ \A i, j \in 1..Len(o) : o[i] = o[j] => i = j
  BY OrderFacts
<1> HIDE DEF o
<1>2. o \in [1..Len(o) -> Edge]
  BY <1>1
<1>3. o \in Injection(1..Len(o), Edge)
  BY <1>1, <1>2 DEF Injection, IsInjective
<1>4. Cardinality(1..Len(o)) <= Cardinality(Edge)
  BY <1>3, FS_Injection
<1>5. Cardinality(1..Len(o)) = Len(o)
  <2>1. Cardinality(1..Len(o)) = IF 1 > Len(o) THEN 0 ELSE Len(o) - 1 + 1
    BY <1>1, FS_Interval
  <2>2. QED
    BY <1>1, <2>1
<1>6. QED
  BY <1>4, <1>5 DEF o

\* A node without a first edge is not walked at all.
LEMMA NoWalk ==
  ASSUME NEW n, n \notin DOMAIN head
  PROVE  /\ InboundTerminates(n) /\ Walk(n, InboundLink, InboundStop) = <<>>
         /\ OutboundTerminates(n) /\ Walk(n, OutboundLink, OutboundStop) = <<>>
BY DEF InboundTerminates, OutboundTerminates, Terminates, Walk

\* What a walk over positions of a list answers.
LEMMA TrailWalk ==
  ASSUME NEW o, o \in Seq(Edge), NEW len, len \in Nat, len <= Len(o), OneEach(o, Len(o)),
         NEW p, NEW M, M \in Nat, len <= M, NEW g, NEW c,
         Trail(g, p, len, M), BackAfter(c, g, p, len)
  PROVE  /\ Along(o, g, c) \in Seq(Edge) /\ IsInjective(Along(o, g, c))
         /\ ToSet(Along(o, g, c)) \subseteq ToSet(o)
<1> DEFINE w == [k \in 1..c |-> o[g[k]]]
<1>1. /\ c \in 1..len /\ g \in [1..M -> 1..len]
      /\ \A i, j \in 1..c : g[i] = g[j] => i = j
      /\ \A i, j \in 1..Len(o) : o[i] = o[j] => i = j
  BY DEF Trail, BackAfter, OneEach
<1>2. Len(o) \in Nat /\ DOMAIN o = 1..Len(o) /\ \A k \in 1..Len(o) : o[k] \in Edge
  OBVIOUS
<1>3. \A k \in 1..c : k \in 1..M
  BY <1>1
<1>4. \A k \in 1..len : k \in 1..Len(o)
  BY <1>2
<1>5. \A k \in 1..c : g[k] \in 1..Len(o)
  BY <1>1, <1>3, <1>4
<1>6. c \in Nat
  BY <1>1
<1>7. w \in Seq(Edge) /\ DOMAIN w = 1..c
  <2>1. \A k \in 1..c : o[g[k]] \in Edge
    BY <1>2, <1>5
  <2>2. QED
    BY <1>6, <2>1
<1>8. IsInjective(w)
  BY <1>1, <1>5 DEF IsInjective
<1>9. ToSet(w) \subseteq ToSet(o)
  BY <1>2, <1>5 DEF ToSet
<1>10. QED
  BY <1>7, <1>8, <1>9 DEF Along

\* getVertexInbound ends, and visits edges of the node, each once.
LEMMA InboundList ==
  ASSUME LInv, IsFiniteSet(Edge), NEW n \in Node
  PROVE  LET w == Walk(n, InboundLink, InboundStop) IN
         /\ InboundTerminates(n)
         /\ w \in Seq(Edge) /\ IsInjective(w) /\ ToSet(w) \subseteq ToSet(order[n])
<1>1. CASE n \notin DOMAIN head
  <2>1. <<>> \in Seq(Edge) /\ IsInjective(<<>>) /\ ToSet(<<>>) = {}
    BY DEF IsInjective, ToSet
  <2>2. QED
    BY <1>1, <2>1, NoWalk
<1>2. CASE n \in DOMAIN head
  <2> DEFINE o == order[n]
             p == [k \in 1..Len(o) |-> CHOOSE j \in 1..Len(o) : GrowIn(rec, n, o[k]) = o[j]]
  <2>1. OrderOK /\ ListAt(n)
    BY DEF LInv
  <2>2. /\ o \in Seq(Edge) /\ Len(o) \in Nat /\ Len(o) >= 1 /\ o # <<>>
        /\ \A i, j \in 1..Len(o) : o[i] = o[j] => i = j
    BY <1>2, <2>1, OrderFacts
  <2>3. head[n] = o[1] /\ LinksOf(rec, n, o)
    BY <2>1, <2>2 DEF ListAt
  <2>4. Len(o) <= Cardinality(Edge)
    BY <2>1, OrderFits
  <2> HIDE DEF o
  <2>5. \A k \in 1..Len(o) : \E j \in 1..Len(o) :
           GrowIn(rec, n, o[k]) = o[j] /\ (k # 1 => j < k)
    <3>1. \A k \in 1..Len(o) : k = 1 \/ (k \in 2..Len(o) /\ \A j \in 1..(k - 1) :
             j \in 1..Len(o) /\ j < k)
      BY <2>2
    <3>2. QED
      BY <2>3, <3>1 DEF LinksOf
  <2>6. \A k \in 1..Len(o) : p[k] \in 1..Len(o) /\ GrowIn(rec, n, o[k]) = o[p[k]]
    BY <2>5
  <2>7. \A k \in 1..Len(o) : k # 1 => p[k] < k
    <3> TAKE k \in 1..Len(o)
    <3>1. PICK j \in 1..Len(o) : GrowIn(rec, n, o[k]) = o[j] /\ (k # 1 => j < k)
      BY <2>5
    <3> HIDE DEF p
    <3>2. p[k] = j
      BY <2>2, <2>6, <3>1
    <3>3. QED
      BY <3>1, <3>2
  <2>8. Leads(p, Len(o))
    <3>1. p \in [1..Len(o) -> 1..Len(o)]
      BY <2>6
    <3>2. \A k \in 2..Len(o) : k \in 1..Len(o) /\ k # 1
      BY <2>2
    <3> HIDE DEF p
    <3>3. QED
      BY <2>7, <3>1, <3>2 DEF Leads
  <2> HIDE DEF p
  <2>9. InboundLeads(n, o, p, Len(o)) /\ OneEach(o, Len(o))
    BY <2>2, <2>6 DEF InboundLeads, InboundLink, GrowIn, OneEach
  <2>10. PICK g, c : /\ Trail(g, p, Len(o), Limit) /\ BackAfter(c, g, p, Len(o))
                     /\ InboundTerminates(n)
                     /\ Walk(n, InboundLink, InboundStop) = Along(o, g, c)
    BY <1>2, <2>2, <2>3, <2>4, <2>8, <2>9, InboundWalk
  <2>11. Limit \in Nat /\ Len(o) <= Limit /\ Len(o) <= Len(o)
    BY <2>2, <2>4, FS_CardinalityType DEF Limit
  <2>12. /\ Along(o, g, c) \in Seq(Edge) /\ IsInjective(Along(o, g, c))
         /\ ToSet(Along(o, g, c)) \subseteq ToSet(o)
    BY <2>2, <2>9, <2>10, <2>11, TrailWalk
  <2>13. QED
    BY <2>10, <2>12 DEF o
<1>3. QED
  BY <1>1, <1>2

\* getVertexOutbound ends, and visits the first two edges of the node.
LEMMA OutboundList ==
  ASSUME LInv, IsFiniteSet(Edge), NEW n \in Node
  PROVE  LET w == Walk(n, OutboundLink, OutboundStop) IN
         /\ OutboundTerminates(n)
         /\ w \in Seq(Edge) /\ IsInjective(w) /\ ToSet(w) \subseteq ToSet(order[n])
         /\ Len(order[n]) <= 2 => ToSet(w) = ToSet(order[n])
<1>0. OrderOK /\ ListAt(n) /\ Len(order[n]) <= Cardinality(Edge)
  BY OrderFits DEF LInv
<1>1. CASE n \notin DOMAIN head
  <2>1. <<>> \in Seq(Edge) /\ IsInjective(<<>>) /\ ToSet(<<>>) = {}
    BY DEF IsInjective, ToSet
  <2>2. order[n] = <<>>
    BY <1>0, <1>1 DEF ListAt
  <2>3. QED
    BY <1>1, <2>1, <2>2, NoWalk
<1>2. CASE n \in DOMAIN head
  <2> DEFINE o == order[n]
             len == IF Len(o) = 1 THEN 1 ELSE 2
             p == [k \in 1..len |-> IF len = 1 THEN 1 ELSE 3 - k]
  <2>1. /\ o \in Seq(Edge) /\ Len(o) \in Nat /\ Len(o) >= 1 /\ o # <<>>
        /\ \A i, j \in 1..Len(o) : o[i] = o[j] => i = j
    BY <1>0, <1>2, OrderFacts
  <2>2. head[n] = o[1] /\ LinksOf(rec, n, o)
    BY <1>0, <2>1 DEF ListAt
  <2>3. Len(o) <= Cardinality(Edge)
    BY <1>0
  <2> HIDE DEF o
  <2>4. /\ len \in Nat /\ len >= 1 /\ len <= Len(o) /\ (len = 1 \/ len = 2)
        /\ len # 1 => Len(o) >= 2 /\ Len(o) # 1
        /\ len = 1 => Len(o) = 1
    <3>1. CASE Len(o) = 1
      <4>1. len = 1
        BY <3>1
      <4> HIDE DEF len
      <4>2. QED
        BY <2>1, <3>1, <4>1
    <3>2. CASE Len(o) # 1
      <4>1. len = 2
        BY <3>2
      <4> HIDE DEF len
      <4>2. \A m \in Nat : m >= 1 /\ m # 1 => m >= 2
        OBVIOUS
      <4>3. Len(o) >= 2
        BY <2>1, <3>2, <4>2
      <4>4. QED
        BY <2>1, <3>2, <4>1, <4>3
    <3>3. QED
      BY <3>1, <3>2
  <2>5. Cardinality(Edge) \in Nat
    BY FS_CardinalityType
  <2>6. len <= Cardinality(Edge)
    BY <2>1, <2>3, <2>4, <2>5
  <2>7. p \in [1..len -> 1..len] /\ (len = 1 => p[1] = 1) /\ (len = 2 => p[1] = 2 /\ p[2] = 1)
    BY <2>4
  <2>8. (len = 1 => 1..len = {1}) /\ (len = 2 => 1..len = {1, 2} /\ 2..len = {2}) /\ 2..1 = {}
    BY <2>4
  <2> HIDE DEF p, len
  <2>9. Leads(p, len)
    BY <2>4, <2>7, <2>8 DEF Leads
  <2>10. /\ OneEach(o, Len(o))
         /\ OneEach(o, len)
    BY <2>1, <2>4 DEF OneEach
  <2>11. OutboundLeads(n, o, p, len)
    <3>1. \A x : OutboundLink(n, x) = OtherIn(rec, n, x)
      BY DEF OutboundLink, OtherIn
    <3>2. CASE len = 1
      BY <2>2, <2>4, <2>7, <2>8, <3>1, <3>2 DEF OutboundLeads, LinksOf
    <3>3. CASE len = 2
      BY <2>2, <2>4, <2>7, <2>8, <3>1, <3>3 DEF OutboundLeads, LinksOf
    <3>4. QED
      BY <2>4, <3>2, <3>3
  <2>12. PICK g, c : /\ Trail(g, p, len, Limit) /\ BackAfter(c, g, p, len)
                     /\ OutboundTerminates(n)
                     /\ Walk(n, OutboundLink, OutboundStop) = Along(o, g, c)
    BY <1>2, <2>2, <2>4, <2>6, <2>9, <2>10, <2>11, OutboundWalk
  <2>13. Limit \in Nat /\ len <= Limit
    BY <2>4, <2>5, <2>6 DEF Limit
  <2>14. /\ Along(o, g, c) \in Seq(Edge) /\ IsInjective(Along(o, g, c))
         /\ ToSet(Along(o, g, c)) \subseteq ToSet(o)
    BY <2>1, <2>4, <2>10, <2>12, <2>13, TrailWalk
  <2>15. ASSUME Len(o) <= 2
         PROVE  ToSet(o) \subseteq ToSet(Along(o, g, c))
    <3>1. /\ c \in 1..len /\ p[g[c]] = 1 /\ g[1] = 1
          /\ g \in [1..Limit -> 1..len] /\ \A k \in 2..Limit : g[k] = p[g[k - 1]]
      BY <2>12 DEF Trail, BackAfter
    <3>2. CASE len = 1
      <4>1. Len(o) = 1 /\ c = 1
        BY <2>4, <2>8, <3>1, <3>2
      <4>2. DOMAIN o = {1} /\ DOMAIN Along(o, g, c) = {1} /\ Along(o, g, c)[1] = o[1]
        BY <2>1, <3>1, <4>1 DEF Along
      <4>3. QED
        BY <4>2 DEF ToSet
    <3>3. CASE len = 2
      <4>0. \A m \in Nat : m >= 2 /\ m <= 2 => m = 2
        OBVIOUS
      <4>1. Len(o) = 2
        <5>1. Len(o) \in Nat /\ Len(o) >= 2 /\ Len(o) <= 2
          BY <2>1, <2>4, <2>15, <3>3
        <5>2. QED
          BY <4>0, <5>1
      <4>2. c = 2
        BY <2>7, <2>8, <3>1, <3>3
      <4>3. 2 \in 2..Limit /\ 2 - 1 = 1
        BY <2>13, <3>3
      <4>4. g[2] = 2
        BY <2>7, <3>1, <3>3, <4>3
      <4>5. /\ DOMAIN o = {1, 2} /\ DOMAIN Along(o, g, c) = {1, 2}
            /\ Along(o, g, c)[1] = o[1] /\ Along(o, g, c)[2] = o[2]
        BY <2>1, <3>1, <4>1, <4>2, <4>4 DEF Along
      <4>6. QED
        BY <4>5 DEF ToSet
    <3>4. QED
      BY <2>4, <3>2, <3>3
  <2>16. QED
    BY <2>12, <2>14, <2>15 DEF o
<1>3. QED
  BY <1>1, <1>2

\* The walk over a ring: the first edge, then the others, the newest first.
RingOf(o) == IF o = <<>> THEN <<>>
             ELSE [k \in 1..Len(o) |-> IF k = 1 THEN o[1] ELSE o[Len(o) - k + 2]]

RingLeads(p, len) == p = [k \in 1..len |-> IF k = 1 THEN len ELSE k - 1]
GoesRound(g, c, len) ==
  c = len /\ \A k \in 1..len : g[k] = IF k = 1 THEN 1 ELSE len - k + 2

\* On a ring each position but the first leads to the one before it, the first to
\* the last, and a trail meets them all.
LEMMA RingTrail ==
  ASSUME NEW len, len \in Nat, len >= 1, NEW p, RingLeads(p, len),
         NEW M, M \in Nat, len <= M, NEW g, Trail(g, p, len, M), NEW c, BackAfter(c, g, p, len)
  PROVE  GoesRound(g, c, len)
<1> p = [k \in 1..len |-> IF k = 1 THEN len ELSE k - 1]
  BY DEF RingLeads
<1>1. /\ g \in [1..M -> 1..len] /\ g[1] = 1 /\ \A k \in 2..M : g[k] = p[g[k - 1]]
      /\ c \in 1..len /\ p[g[c]] = 1
  BY DEF Trail, BackAfter
<1> DEFINE T == {m \in 0..(len - 1) : g[m + 1] = IF m = 0 THEN 1 ELSE len - m + 1}
<1>2. 0 \in T
  BY <1>1
<1>3. ASSUME NEW m \in 0..((len - 1) - 1), m \in T
      PROVE  m + 1 \in T
  <2> DEFINE k == m + 2
  <2>1. m \in Nat /\ k \in 2..M /\ k - 1 = m + 1 /\ m + 1 \in 0..(len - 1) /\ m + 1 # 0
    OBVIOUS
  <2>2. g[k] = p[g[m + 1]]
    BY <1>1, <2>1
  <2>3. g[k] = len - (m + 1) + 1
    <3>1. CASE m = 0
      <4>1. g[m + 1] = 1 /\ 1 \in 1..len
        BY <1>1, <3>1
      <4>2. p[1] = len
        BY <4>1
      <4>3. QED
        BY <2>2, <3>1, <4>1, <4>2
    <3>2. CASE m # 0
      <4>1. g[m + 1] = len - m + 1
        BY <1>3, <3>2
      <4>2. len - m + 1 \in 1..len /\ len - m + 1 # 1
        BY <2>1, <3>2
      <4>3. p[len - m + 1] = (len - m + 1) - 1
        BY <4>2
      <4>4. QED
        BY <2>1, <2>2, <4>1, <4>3
    <3>3. QED
      BY <3>1, <3>2
  <2>4. k = (m + 1) + 1
    BY <2>1
  <2>5. QED
    BY <2>1, <2>3, <2>4
<1>4. len - 1 \in Nat
  OBVIOUS
<1>5. \A m \in T : g[m + 1] = IF m = 0 THEN 1 ELSE len - m + 1
  OBVIOUS
<1> HIDE DEF T
<1>6. 0..(len - 1) \subseteq T
  BY <1>2, <1>3, <1>4, UpTo
<1>7. \A k \in 1..len : g[k] = IF k = 1 THEN 1 ELSE len - k + 2
  <2> TAKE k \in 1..len
  <2>1. k - 1 \in 0..(len - 1) /\ (k - 1) + 1 = k /\ len - (k - 1) + 1 = len - k + 2
        /\ (k - 1 = 0 <=> k = 1)
    OBVIOUS
  <2>2. QED
    BY <1>5, <1>6, <2>1
<1>8. c = len
  <2>1. CASE c = 1
    BY <1>1, <2>1
  <2>2. CASE c # 1
    <3>1. g[c] = len - c + 2
      BY <1>1, <1>7, <2>2
    <3>2. len - c + 2 \in 1..len /\ len - c + 2 # 1
      BY <1>1, <2>2
    <3>3. \A k \in 1..len : k # 1 => p[k] = k - 1
      OBVIOUS
    <3>4. p[g[c]] = g[c] - 1 /\ g[c] # 1 /\ g[c] \in 1..len
      BY <3>1, <3>2, <3>3
    <3>5. g[c] = 2
      <4>1. \A m \in 1..len : m - 1 = 1 => m = 2
        OBVIOUS
      <4>2. QED
        BY <1>1, <3>4, <4>1
    <3>6. \A m \in 1..len : len - m + 2 = 2 => m = len
      OBVIOUS
    <3>7. QED
      BY <1>1, <3>1, <3>5, <3>6
  <2>3. QED
    BY <2>1, <2>2
<1>9. QED
  BY <1>7, <1>8 DEF GoesRound

\* While the growing links form a ring, getVertexInbound goes round it once.
LEMMA RingWalk ==
  ASSUME LInv, settled, IsFiniteSet(Edge), NEW n \in Node, OneRole(n)
  PROVE  WalkOf(n) = RingOf(order[n])
<1>0. OrderOK /\ ListAt(n) /\ Len(order[n]) <= Cardinality(Edge) /\ RingAt(n)
  BY OrderFits DEF LInv, RingInv
<1>1. CASE n \notin DOMAIN head
  <2>1. order[n] = <<>>
    BY <1>0, <1>1 DEF ListAt
  <2>2. QED
    BY <1>1, <2>1, NoWalk DEF WalkOf, RingOf
<1>2. CASE n \in DOMAIN head
  <2> DEFINE o == order[n]
             len == Len(o)
             p == [k \in 1..len |-> IF k = 1 THEN len ELSE k - 1]
  <2>1. /\ o \in Seq(Edge) /\ len \in Nat /\ len >= 1 /\ o # <<>>
        /\ \A i, j \in 1..len : o[i] = o[j] => i = j
    BY <1>0, <1>2, OrderFacts
  <2>2. /\ head[n] = o[1] /\ GrowIn(rec, n, o[1]) = o[len]
        /\ \A k \in 2..len : GrowIn(rec, n, o[k]) = IF k <= 3 \/ SameRole(n, o[k], o[1])
                                                      THEN o[k - 1] ELSE o[2]
    BY <1>0, <2>1 DEF RingAt
  <2>3. len <= Cardinality(Edge)
    BY <1>0
  <2>4. \A k \in 4..len : SameRole(n, o[k], o[1])
    BY DEF OneRole
  <2> HIDE DEF o, len
  <2>5. /\ \A k \in 2..len : k <= 3 \/ k \in 4..len
        /\ \A k \in 1..len : k = 1 \/ k \in 2..len
        /\ \A k \in 2..len : k # 1 /\ k \in 1..len /\ k - 1 \in 1..len /\ k - 1 < k
        /\ 1 \in 1..len /\ len \in 1..len
    BY <2>1
  <2>6. \A k \in 2..len : GrowIn(rec, n, o[k]) = o[k - 1]
    BY <2>2, <2>4, <2>5
  <2>7. p[1] = len /\ \A k \in 2..len : p[k] = k - 1
    BY <2>5
  <2>8. p \in [1..len -> 1..len]
    BY <2>5
  <2>9. RingLeads(p, len)
    BY DEF RingLeads
  <2> HIDE DEF p
  <2>10. Leads(p, len)
    BY <2>5, <2>7, <2>8 DEF Leads
  <2>11. OneEach(o, len)
    BY <2>1 DEF OneEach
  <2>12. InboundLeads(n, o, p, len)
    <3>1. \A x : InboundLink(n, x) = GrowIn(rec, n, x)
      BY DEF InboundLink, GrowIn
    <3>2. \A k \in 1..len : GrowIn(rec, n, o[k]) = o[p[k]]
      BY <2>2, <2>5, <2>6, <2>7
    <3>3. QED
      BY <3>1, <3>2 DEF InboundLeads
  <2>13. PICK g, c : /\ Trail(g, p, len, Limit) /\ BackAfter(c, g, p, len)
                     /\ InboundTerminates(n)
                     /\ Walk(n, InboundLink, InboundStop) = Along(o, g, c)
    BY <1>2, <2>1, <2>2, <2>3, <2>10, <2>11, <2>12, InboundWalk
  <2>14. Limit \in Nat /\ len <= Limit
    <3>1. Cardinality(Edge) \in Nat
      BY FS_CardinalityType
    <3>2. QED
      BY <2>1, <2>3, <3>1 DEF Limit
  <2>15. c = len /\ \A k \in 1..len : g[k] = IF k = 1 THEN 1 ELSE len - k + 2
    <3>1. GoesRound(g, c, len)
      BY <2>1, <2>9, <2>13, <2>14, RingTrail
    <3>2. QED
      BY <3>1 DEF GoesRound
  <2>16. RingOf(o) = [k \in 1..len |-> IF k = 1 THEN o[1] ELSE o[len - k + 2]]
    BY <2>1 DEF RingOf, len
  <2>17. Along(o, g, c) = [k \in 1..len |-> o[g[k]]]
    BY <2>15 DEF Along
  <2>18. \A k \in 1..len : o[g[k]] = IF k = 1 THEN o[1] ELSE o[len - k + 2]
    BY <2>15
  <2>19. Along(o, g, c) = RingOf(o)
    BY <2>16, <2>17, <2>18
  <2>20. QED
    BY <2>13, <2>19 DEF WalkOf, o
<1>3. QED
  BY <1>1, <1>2

\* The ring has the edges of the list.
LEMMA RingEdges ==
  ASSUME NEW o \in Seq(Edge)
  PROVE  ToSet(RingOf(o)) = ToSet(o)
<1> DEFINE len == Len(o)
           w == RingOf(o)
<1>1. len \in Nat /\ DOMAIN o = 1..len
  OBVIOUS
<1>2. CASE o = <<>>
  BY <1>2 DEF RingOf
<1>3. CASE o # <<>>
  <2>0. len >= 1
    BY <1>3
  <2>1. /\ DOMAIN w = 1..len
        /\ \A k \in 1..len : w[k] = IF k = 1 THEN o[1] ELSE o[len - k + 2]
    BY <1>3 DEF RingOf
  <2> HIDE DEF len, w
  <2>2. 1 \in 1..len /\ \A k \in 1..len : k = 1 \/ (len - k + 2 \in 1..len /\ len - k + 2 # 1
                                                     /\ len - (len - k + 2) + 2 = k)
    BY <1>1, <2>0
  <2>3. ToSet(w) = {w[k] : k \in 1..len} /\ ToSet(o) = {o[k] : k \in 1..len}
    BY <1>1, <2>1 DEF ToSet
  <2>4. ASSUME NEW k \in 1..len
        PROVE  \E j \in 1..len : w[k] = o[j]
    BY <2>1, <2>2
  <2>5. ASSUME NEW k \in 1..len
        PROVE  \E j \in 1..len : w[j] = o[k]
    <3>1. CASE k = 1
      BY <2>1, <2>2, <3>1
    <3>2. CASE k # 1
      <4>1. w[len - k + 2] = o[len - (len - k + 2) + 2]
        BY <2>1, <2>2, <3>2
      <4>2. QED
        BY <2>2, <3>2, <4>1
    <3>3. QED
      BY <3>1, <3>2
  <2>6. QED
    BY <2>3, <2>4, <2>5 DEF w
<1>4. QED
  BY <1>2, <1>3

\* A sequence without repetition is as long as the set of its members is large.
LEMMA LenOfSet ==
  ASSUME NEW S, NEW w \in Seq(S), IsInjective(w)
  PROVE  Len(w) = Cardinality(ToSet(w))
<1>1. Len(w) \in Nat /\ DOMAIN w = 1..Len(w)
  OBVIOUS
<1>2. w \in [1..Len(w) -> ToSet(w)] /\ \A x \in ToSet(w) : \E k \in 1..Len(w) : w[k] = x
  BY <1>1 DEF ToSet
<1>3. w \in Bijection(1..Len(w), ToSet(w))
  BY <1>2 DEF Bijection, Injection, Surjection
<1>4. IsFiniteSet(1..Len(w)) /\ Cardinality(1..Len(w)) = IF 1 > Len(w) THEN 0 ELSE Len(w) - 1 + 1
  BY <1>1, FS_Interval
<1>5. Cardinality(1..Len(w)) = Len(w)
  BY <1>1, <1>4
<1>6. ExistsBijection(1..Len(w), ToSet(w))
  BY <1>3 DEF ExistsBijection
<1>7. Cardinality(ToSet(w)) = Cardinality(1..Len(w))
  BY <1>4, <1>6, FS_Bijection
<1>8. QED
  BY <1>5, <1>7

\* The list of a node has exactly the stored edges at it.
LEMMA OrderEdges ==
  ASSUME LInv, NEW n \in Node
  PROVE  /\ order[n] \in Seq(Edge)
         /\ ToSet(order[n]) = {e \in DOMAIN rec : Incident(n, e)}
<1>1. OrderOK /\ InOrder
  BY DEF LInv
<1>2. order[n] \in Seq(Edge)
      /\ \A k \in 1..Len(order[n]) : order[n][k] \in DOMAIN rec /\ Incident(n, order[n][k])
  BY <1>1, OrderFacts
<1>3. ToSet(order[n]) = {order[n][k] : k \in 1..Len(order[n])}
  BY <1>2 DEF ToSet
<1>4. \A e \in DOMAIN rec : Incident(n, e) => \E k \in 1..Len(order[n]) : order[n][k] = e
  BY <1>1 DEF InOrder
<1>5. QED
  BY <1>2, <1>3, <1>4

\* What Inbound(n) answers: of the edges its walk visits, those out of n.
LEMMA InboundSound ==
  ASSUME LInv, IsFiniteSet(Edge), NEW n \in Node
  PROVE  /\ InboundTerminates(n) /\ Inbound(n) \in Seq(Edge) /\ IsInjective(Inbound(n))
         /\ ToSet(Inbound(n)) = ToSet(WalkOf(n)) \cap OutEdges(n)
         /\ WalkOf(n) \in Seq(Edge)
<1> DEFINE w == Walk(n, InboundLink, InboundStop)
           takes == {e \in DOMAIN rec : InboundTakes(n, e)}
<1>1. InboundTerminates(n) /\ w \in Seq(Edge) /\ IsInjective(w)
  BY InboundList
<1>2. takes = OutEdges(n)
  BY DEF InboundTakes, OutEdges
<1>3. Inbound(n) = Answer(w, takes) /\ WalkOf(n) = w
  BY DEF Inbound, WalkOf
<1> HIDE DEF w, takes
<1>4. /\ Answer(w, takes) \in Seq(Edge)
      /\ ToSet(Answer(w, takes)) = ToSet(w) \cap takes
      /\ IsInjective(Answer(w, takes))
  BY <1>1, AnswerOf
<1>5. QED
  BY <1>1, <1>2, <1>3, <1>4

\* What Outbound(n) answers: of the edges its walk visits, those into n.
LEMMA OutboundSound ==
  ASSUME LInv, IsFiniteSet(Edge), NEW n \in Node
  PROVE  /\ OutboundTerminates(n) /\ Outbound(n) \in Seq(Edge) /\ IsInjective(Outbound(n))
         /\ ToSet(Outbound(n)) \subseteq InEdges(n)
         /\ Len(order[n]) <= 2 => ToSet(Outbound(n)) = InEdges(n)
<1> DEFINE w == Walk(n, OutboundLink, OutboundStop)
           takes == {e \in DOMAIN rec : OutboundTakes(n, e)}
<1>1. /\ OutboundTerminates(n) /\ w \in Seq(Edge) /\ IsInjective(w)
      /\ ToSet(w) \subseteq ToSet(order[n])
      /\ Len(order[n]) <= 2 => ToSet(w) = ToSet(order[n])
  BY OutboundList
<1>2. takes = {e \in DOMAIN rec : n # Src(e)}
  BY DEF OutboundTakes
<1>3. Outbound(n) = Answer(w, takes)
  BY DEF Outbound
<1> HIDE DEF w, takes
<1>4. /\ Answer(w, takes) \in Seq(Edge)
      /\ ToSet(Answer(w, takes)) = ToSet(w) \cap takes
      /\ IsInjective(Answer(w, takes))
  BY <1>1, AnswerOf
<1>5. ToSet(order[n]) \cap takes = InEdges(n)
  BY <1>2, OrderEdges DEF InEdges, Incident
<1>6. QED
  BY <1>1, <1>3, <1>4, <1>5

LEMMA AInvSound == AInv /\ IsFiniteSet(Edge) => AnswersSound
<1> SUFFICES ASSUME LInv, IsFiniteSet(Edge)
             PROVE  AnswersSound
  BY DEF AInv, AnswersSound
<1> QED
  BY InboundList, InboundSound, OutboundSound DEF AnswersSound

LEMMA AInvComplete == AInv /\ IsFiniteSet(Edge) => InboundComplete
<1> SUFFICES ASSUME LInv, IsFiniteSet(Edge), NEW n \in Node, settled, OneRole(n)
             PROVE  /\ InboundTerminates(n)
                    /\ ToSet(Inbound(n)) = OutEdges(n)
                    /\ Len(Inbound(n)) = Cardinality(OutEdges(n))
  BY DEF AInv, InboundComplete
<1>1. /\ InboundTerminates(n) /\ Inbound(n) \in Seq(Edge) /\ IsInjective(Inbound(n))
      /\ ToSet(Inbound(n)) = ToSet(WalkOf(n)) \cap OutEdges(n)
  BY InboundSound
<1>2. WalkOf(n) = RingOf(order[n])
  BY RingWalk
<1>3. order[n] \in Seq(Edge) /\ ToSet(order[n]) = {e \in DOMAIN rec : Incident(n, e)}
  BY OrderEdges
<1>4. ToSet(RingOf(order[n])) = ToSet(order[n])
  BY <1>3, RingEdges
<1>5. ToSet(Inbound(n)) = OutEdges(n)
  BY <1>1, <1>2, <1>3, <1>4 DEF OutEdges, Incident
<1>6. QED
  BY <1>1, <1>5, LenOfSet

\* getVertexInbound (StorageEngine.cpp:885-921) answers every edge out of the node,
\* once each, as long as the node keeps one role and no edge is upset twice, too early
\* or by a second object, whatever the graph and the ids and however long it grows.
THEOREM InboundIsComplete ==
  ASSUME IsFiniteSet(Edge)
  PROVE  RSpec => []InboundComplete
BY AInvInvariant, AInvComplete, PTL

\* foreach (StorageEngine.cpp:91-120) ends for both queries on every node in every
\* reachable state, updates, mixed roles and cut ids included, unless an edge was
\* upset before its object stored it, or has had two objects; and neither query
\* answers an edge that is not there, an edge of the other role or an edge twice.
THEOREM AnswersAreSound ==
  ASSUME IsFiniteSet(Edge)
  PROVE  RSpec => []AnswersSound
BY AInvInvariant, AInvSound, PTL

-------------------------------------------------------------------------------
(* The lists implement AdjacencyRing. *)

\* A newly attached edge enters the ring after the first.
LEMMA RingGrows ==
  ASSUME NEW o \in Seq(Edge), NEW e \in Edge
  PROVE  RingOf(Append(o, e)) = Abstract!AfterFirst(RingOf(o), e)
<1> DEFINE len == Len(o)
           z == Append(o, e)
           r == RingOf(o)
           w == RingOf(z)
<1>1. /\ len \in Nat /\ z \in Seq(Edge) /\ z # <<>> /\ Len(z) = len + 1
      /\ z[len + 1] = e /\ \A k \in 1..len : z[k] = o[k]
  OBVIOUS
<1>2. w = [k \in 1..(len + 1) |-> IF k = 1 THEN z[1] ELSE z[(len + 1) - k + 2]]
  BY <1>1 DEF RingOf
<1>3. CASE o = <<>>
  <2>1. len = 0 /\ r = <<>>
    BY <1>3 DEF RingOf
  <2>2. w = <<e>>
    BY <1>1, <1>2, <2>1
  <2>3. QED
    BY <2>1, <2>2 DEF Abstract!AfterFirst
<1>4. CASE o # <<>>
  <2>1. len >= 1
    BY <1>4
  <2>2. r = [k \in 1..len |-> IF k = 1 THEN o[1] ELSE o[len - k + 2]]
    BY <1>4 DEF RingOf
  <2>3. \A k \in 1..len : o[k] \in Edge
    OBVIOUS
  <2> HIDE DEF len, z, w, r
  <2>4. \A k \in 1..len : k # 1 => len - k + 2 \in 1..len
    BY <1>1
  <2>5. r \in Seq(Edge) /\ Len(r) = len /\ r # <<>>
    <3>1. r \in [1..len -> Edge]
      BY <2>1, <2>2, <2>3, <2>4
    <3>2. QED
      BY <1>1, <2>1, <3>1
  <2> DEFINE t == <<Head(r), e>> \o Tail(r)
  <2>6. /\ Len(t) = len + 1 /\ t[1] = r[1] /\ t[2] = e
        /\ \A k \in 3..(len + 1) : t[k] = r[k - 1]
        /\ t \in Seq(Edge)
    BY <1>1, <2>1, <2>5
  <2>7. t = [k \in 1..(len + 1) |-> t[k]]
    BY <2>6
  <2> HIDE DEF t
  <2>8. /\ 1 \in 1..len /\ 1 # 2
        /\ \A k \in 1..(len + 1) : k = 1 \/ k = 2 \/ k \in 3..(len + 1)
        /\ \A k \in 3..(len + 1) : k # 1 /\ k \in 1..(len + 1) /\ k - 1 \in 1..len /\ k - 1 # 1
                                   /\ (len + 1) - k + 2 = len - (k - 1) + 2
        /\ 1 \in 1..(len + 1) /\ 2 \in 1..(len + 1) /\ (len + 1) - 2 + 2 = len + 1
    BY <1>1, <2>1
  <2>9. w[1] = t[1] /\ w[2] = t[2]
    BY <1>1, <1>2, <2>2, <2>6, <2>8
  <2>10. ASSUME NEW k \in 3..(len + 1)
         PROVE  w[k] = t[k]
    <3>1. w[k] = z[len - (k - 1) + 2]
      BY <1>2, <2>8
    <3>2. r[k - 1] = o[len - (k - 1) + 2] /\ len - (k - 1) + 2 \in 1..len
      BY <2>2, <2>4, <2>8
    <3>3. QED
      BY <1>1, <2>6, <3>1, <3>2
  <2>11. \A k \in 1..(len + 1) : w[k] = t[k]
    BY <2>8, <2>9, <2>10
  <2>12. w = [k \in 1..(len + 1) |-> w[k]]
    BY <1>2
  <2>13. w = t
    BY <2>7, <2>11, <2>12
  <2>14. QED
    BY <2>5, <2>13 DEF t, w, r, z, Abstract!AfterFirst
<1>5. QED
  BY <1>3, <1>4

\* While the ring stands, the walk of a node is the ring of its list.
WalksAreRings == settled /\ Orderly => \A n \in Node : OneRole(n) => WalkOf(n) = RingOf(order[n])

LEMMA AInvWalks == AInv /\ IsFiniteSet(Edge) => WalksAreRings
BY RingWalk DEF AInv, WalksAreRings

\* Every step on the lists is a step on the rings, or none.
LEMMA StepRefines ==
  ASSUME AInv, WalksAreRings, WalksAreRings', [RNext]_rvars
  PROVE  [Ringlike' => Abstract!Next]_Walks
<1> SUFFICES ASSUME Ringlike'
             PROVE  Abstract!Next \/ Walks' = Walks
  OBVIOUS
<1>0. Orderly' /\ Orderly
  BY OrderlyStays DEF Ringlike
<1>1. settled' /\ \A n \in Node : WalkOf(n)' = RingOf(order'[n])
  BY DEF Ringlike, WalksAreRings
<1>2. LInv /\ OrderOK
  BY <1>0 DEF AInv, LInv
<1>3. CASE UNCHANGED <<order, settled>>
  <2>1. \A n \in Node : OneRole(n)
    BY <1>3 DEF Ringlike, OneRole
  <2>2. \A n \in Node : WalkOf(n) = RingOf(order[n])
    BY <1>0, <1>1, <1>3, <2>1 DEF WalksAreRings
  <2>3. \A n \in Node : WalkOf(n)' = WalkOf(n)
    BY <1>1, <1>3, <2>2
  <2>4. QED
    BY <2>3 DEF Walks
<1>4. ASSUME NEW e \in Edge, Store(e), ~aborted'
      PROVE  Abstract!Next
  <2>1. /\ e \notin DOMAIN rec /\ settled' = settled
        /\ \A n \in Node : order'[n] = IF Incident(n, e) THEN Append(order[n], e) ELSE order[n]
    <3>1. Done(e) /\ IInv
      BY <1>0, <1>2, <1>4 DEF Done, Store, LInv, Orderly
    <3>2. e \in DOMAIN rec'
      BY <1>4, <3>1, StoreLinks DEF Store
    <3>3. QED
      BY <1>4, <3>2 DEF Store
  <2>2. ASSUME NEW n \in Node
        PROVE  OneRole(n)
    <3>1. order[n] \in Seq(Edge)
      BY <1>2, OrderFacts
    <3>2. CASE ~Incident(n, e)
      BY <2>1, <3>2 DEF Ringlike, OneRole
    <3>3. CASE Incident(n, e)
      <4> DEFINE o == order[n]
                 z == order'[n]
      <4>1. z = Append(o, e)
        BY <2>1, <3>3
      <4>2. /\ Len(o) \in Nat /\ Len(z) = Len(o) + 1
            /\ \A k \in 1..Len(o) : z[k] = o[k]
        BY <3>1, <4>1
      <4>3. \A k \in 4..Len(z) : SameRole(n, z[k], z[1])
        BY DEF Ringlike, OneRole
      <4> HIDE DEF o, z
      <4>4. \A k \in 4..Len(o) : k \in 4..Len(z) /\ z[k] = o[k] /\ z[1] = o[1]
        BY <4>2
      <4>5. \A k \in 4..Len(o) : SameRole(n, o[k], o[1])
        <5> TAKE k \in 4..Len(o)
        <5>1. SameRole(n, z[k], z[1]) /\ z[k] = o[k] /\ z[1] = o[1]
          BY <4>3, <4>4
        <5>2. QED
          BY <5>1
      <4>6. QED
        BY <4>5 DEF OneRole, o
    <3>4. QED
      BY <3>2, <3>3
  <2>3. \A n \in Node : WalkOf(n) = RingOf(order[n])
    BY <1>0, <1>1, <2>1, <2>2 DEF WalksAreRings
  <2>4. ASSUME NEW n \in Node
        PROVE  /\ \A i \in DOMAIN WalkOf(n) : WalkOf(n)[i] # e
               /\ WalkOf(n)' = IF n \in {e[1], e[2]} THEN Abstract!AfterFirst(WalkOf(n), e)
                               ELSE WalkOf(n)
    <3>1. order[n] \in Seq(Edge) /\ ToSet(order[n]) = {x \in DOMAIN rec : Incident(n, x)}
      BY <1>2, OrderEdges
    <3>2. ToSet(WalkOf(n)) = ToSet(order[n])
      BY <2>3, <3>1, RingEdges
    <3>3. \A i \in DOMAIN WalkOf(n) : WalkOf(n)[i] # e
      BY <2>1, <3>1, <3>2 DEF ToSet
    <3>4. Incident(n, e) <=> n \in {e[1], e[2]}
      BY DEF Incident, Src, Dst
    <3>5. RingOf(Append(order[n], e)) = Abstract!AfterFirst(WalkOf(n), e)
      BY <2>3, <3>1, RingGrows
    <3>6. QED
      BY <1>1, <2>1, <2>3, <3>3, <3>4, <3>5
  <2> DEFINE ring == [n \in Node |-> WalkOf(n)]
  <2>5. \A n \in Node : ring[n] = WalkOf(n)
    OBVIOUS
  <2>6. \A n \in Node : \A i \in DOMAIN ring[n] : ring[n][i] # e
    BY <2>4, <2>5
  <2>7. ring' = [n \in Node |-> IF n \in {e[1], e[2]} THEN Abstract!AfterFirst(ring[n], e)
                                ELSE ring[n]]
    BY <2>4, <2>5
  <2>8. QED
    BY <2>6, <2>7 DEF Abstract!Next, Abstract!Attach
<1>5. ASSUME NEW e \in Edge, Update(e)
      PROVE  FALSE
  BY <1>1, <1>5 DEF Update
<1>s. ASSUME NEW e \in Edge, Store(e), aborted'
      PROVE  UNCHANGED <<order, settled>>
  BY <1>2, <1>s, StopKeeps DEF LInv, IInv, OrderOK
<1>6. \/ UNCHANGED <<order, settled>>
      \/ \E e \in Edge : Store(e)
      \/ \E e \in Edge : Update(e)
  BY DEF RNext, rvars, RCreate, RSetProperties
<1>7. QED
  BY <1>3, <1>4, <1>5, <1>s, <1>6

\* While no edge is upset again, too early, or by a second object, and every node
\* keeps one role, upsetEdge (StorageEngine.cpp:729-841) is the attaching of an edge to two rings, in every
\* graph: a walk of getVertexInbound never loses an edge, and meets the newer
\* ones first.
THEOREM ListsAreRings ==
  ASSUME IsFiniteSet(Edge)
  PROVE  RSpec => ImplementsAdjacencyRing
<1>1. RInit => Abstract!Init
  <2>1. RInit => \A n : n \notin DOMAIN head
    BY DEF RInit, Init, NoEntries
  <2>2. (\A n : n \notin DOMAIN head) => \A n \in Node : WalkOf(n) = <<>>
    BY NoWalk DEF WalkOf
  <2>3. QED
    BY <2>1, <2>2 DEF Abstract!Init
<1>2. RSpec => []AInv
  BY AInvInvariant
<1>3. AInv => WalksAreRings
  BY AInvWalks
<1>4. AInv /\ WalksAreRings /\ WalksAreRings' /\ [RNext]_rvars
        => [Ringlike' => Abstract!Next]_Walks
  BY StepRefines
<1>5. QED
  BY <1>1, <1>2, <1>3, <1>4, PTL DEF RSpec, ImplementsAdjacencyRing
===============================================================================
