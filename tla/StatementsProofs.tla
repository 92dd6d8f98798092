--------------------------- MODULE StatementsProofs ---------------------------
(***************************************************************************)
(* Proofs about Statements, for every set of classes, indexes and keys:    *)
(* the keys of a class are of one kind, the entries of the indexes are     *)
(* complete, a success has stored everything, and edges go with their      *)
(* vertices.  What a loop of writes may do to the key types and the modes  *)
(* is one lemma, to the entries another; every statement that writes rows  *)
(* is an instance of both.                                                 *)
(***************************************************************************)
EXTENDS Statements, Recursions, FiniteSetTheorems

\* A class of vertices never gets the key type of edges, and every map that is
\* made for ordinal keys belongs to a class whose keys are integers.
OrdinalOK(m, t) == \A c \in VClass : m[c] = "ordinal" => t[c] = "Integer"

RowsOK(r, t) ==
  \A c \in VClass :
    \/ t[c] = "Uninitialize" /\ DOMAIN r[c] = {}
    \/ t[c] = "Integer" /\ DOMAIN r[c] \subseteq IntKey
    \/ t[c] = "Byte" /\ DOMAIN r[c] \subseteq StrKey

KInv ==
  /\ DOMAIN rows = VClass
  /\ keyType \in [VClass \cup EClass -> KeyType]
  /\ mode \in [Map -> Mode]
  /\ RowsOK(rows, keyType)
  /\ OrdinalOK(mode, keyType)

-------------------------------------------------------------------------------
LEMMA ChooseIn == \A S : S # {} => (CHOOSE x \in S : TRUE) \in S
OBVIOUS

\* A map that is not made keeps its mode.
LEMMA MadeMode ==
  ASSUME NEW m \in [Map -> Mode], NEW S, NEW how \in Mode
  PROVE  /\ Made(m, S, how) \in [Map -> Mode]
         /\ \A n \in Map : Made(m, S, how)[n] \in {m[n], how}
         /\ \A n \in Map : n \notin S => Made(m, S, how)[n] = m[n]
BY DEF Made

LEMMA VClassMap == VClass \subseteq Map /\ EClass \subseteq Map /\ Index \subseteq Map
BY DEF Map

LEMMA ClassNoIndex == \A c \in VClass : c \notin Index /\ c \notin EClass
BY ClassAssumption DEF Index

\* The keys a statement writes are of the kind of the class, or of one kind if
\* the class has none.
Suits(t, c, done) ==
  \/ done \subseteq IntKey /\ t[c] \in {"Uninitialize", "Integer"}
  \/ done \subseteq StrKey /\ t[c] \in {"Uninitialize", "Byte"}

LEMMA WriteRowsKeeps ==
  ASSUME KInv, NEW c \in VClass, NEW m \in [Map -> Mode], OrdinalOK(m, keyType),
         NEW done, NEW new, NEW posted, Suits(keyType, c, done),
         WriteRows(m, c, done, new, posted)
  PROVE  KInv'
<1> DEFINE stored == Stored([k \in done |-> new[k]])
           kinds == {ModeOf(k) : k \in stored}
           m1 == IF kinds = {} THEN m ELSE Made(m, {c}, CHOOSE how \in kinds : TRUE)
           hit == {i \in Index : {k \in done : i \in Updated(m, c, posted[k])} # {}}
<1>1. /\ rows' = [rows EXCEPT ![c] = Merge([k \in stored |-> new[k]], @)]
      /\ keyType' = [keyType EXCEPT ![c] =
           IF @ = "Uninitialize" /\ done # {} THEN KeyTypeOf(CHOOSE k \in done : TRUE) ELSE @]
      /\ mode' = Made(m1, hit, "usual")
  BY Zenon DEF WriteRows
<1>2. stored \subseteq done
  BY DEF Stored
<1> HIDE DEF stored, hit
<1>3. IntKey \cap StrKey = {} BY KeyAssumption
<1>4. \A S : S # {} => (CHOOSE x \in S : TRUE) \in S BY ChooseIn
<1>5. /\ DOMAIN rows' = VClass
      /\ \A d \in VClass : d # c => rows'[d] = rows[d]
      /\ DOMAIN rows'[c] = stored \cup DOMAIN rows[c]
  BY <1>1 DEF KInv, Merge
<1>6. /\ keyType' \in [VClass \cup EClass -> KeyType]
      /\ \A d \in VClass : d # c => keyType'[d] = keyType[d]
  BY <1>1 DEF KInv, KeyType, KeyTypeOf
<1>7. \/ done = {} /\ keyType'[c] = keyType[c]
      \/ done # {} /\ done \subseteq IntKey /\ keyType'[c] = "Integer"
      \/ done # {} /\ done \subseteq StrKey /\ keyType'[c] = "Byte"
  BY <1>1, <1>3, <1>4 DEF KInv, KeyTypeOf, Suits
<1>8. RowsOK(rows', keyType')
  <2> SUFFICES ASSUME NEW d \in VClass
               PROVE  \/ keyType'[d] = "Uninitialize" /\ DOMAIN rows'[d] = {}
                      \/ keyType'[d] = "Integer" /\ DOMAIN rows'[d] \subseteq IntKey
                      \/ keyType'[d] = "Byte" /\ DOMAIN rows'[d] \subseteq StrKey
    BY DEF RowsOK
  <2>1. \/ keyType[d] = "Uninitialize" /\ DOMAIN rows[d] = {}
        \/ keyType[d] = "Integer" /\ DOMAIN rows[d] \subseteq IntKey
        \/ keyType[d] = "Byte" /\ DOMAIN rows[d] \subseteq StrKey
    BY DEF KInv, RowsOK
  <2>2. CASE d # c BY <2>1, <2>2, <1>5, <1>6
  <2>3. CASE d = c /\ done = {}
    BY <2>1, <2>3, <1>2, <1>5, <1>7
  <2>4. CASE d = c /\ done # {} /\ done \subseteq IntKey /\ keyType'[c] = "Integer"
    <3>1. keyType[c] \in {"Uninitialize", "Integer"}
      BY <2>4, <1>3 DEF Suits
    <3> QED BY <2>1, <2>4, <3>1, <1>2, <1>5
  <2>5. CASE d = c /\ done # {} /\ done \subseteq StrKey /\ keyType'[c] = "Byte"
    <3>1. keyType[c] \in {"Uninitialize", "Byte"}
      BY <2>5, <1>3 DEF Suits
    <3> QED BY <2>1, <2>5, <3>1, <1>2, <1>5
  <2> QED BY <2>2, <2>3, <2>4, <2>5, <1>7
<1>9. /\ m1 \in [Map -> Mode]
      /\ \A n \in Map : n # c => m1[n] = m[n]
      /\ m1[c] = "ordinal" => m[c] = "ordinal" \/ \E k \in stored : k \in IntKey
  <2>1. CASE kinds = {} BY <2>1
  <2>2. CASE kinds # {}
    <3>1. PICK k \in stored : ModeOf(k) = CHOOSE how \in kinds : TRUE
      BY <2>2, <1>4
    <3>2. ModeOf(k) \in Mode /\ (ModeOf(k) = "ordinal" => k \in IntKey)
      BY DEF ModeOf, Mode
    <3>3. m1 = Made(m, {c}, ModeOf(k)) BY <2>2, <3>1
    <3> HIDE DEF kinds, m1
    <3> QED BY <3>2, <3>3, MadeMode, VClassMap
  <2> QED BY <2>1, <2>2
<1> HIDE DEF m1
<1>10. /\ mode' \in [Map -> Mode]
       /\ \A n \in Map : mode'[n] = "ordinal" => m1[n] = "ordinal"
  <2>1. "usual" \in Mode BY DEF Mode
  <2> QED BY <1>1, <1>9, <2>1, MadeMode
<1>11. OrdinalOK(mode', keyType')
  <2> SUFFICES ASSUME NEW d \in VClass, mode'[d] = "ordinal"
               PROVE  keyType'[d] = "Integer"
    BY DEF OrdinalOK
  <2>1. m1[d] = "ordinal" BY <1>10, VClassMap
  <2>2. CASE d # c
    BY <2>1, <2>2, <1>6, <1>9, VClassMap DEF OrdinalOK
  <2>3. CASE d = c /\ m[c] = "ordinal"
    <3>1. keyType[c] = "Integer" BY <2>3 DEF OrdinalOK
    <3> QED BY <3>1, <2>3, <1>1 DEF KInv
  <2>4. CASE d = c /\ \E k \in stored : k \in IntKey
    BY <2>4, <1>2, <1>3, <1>7
  <2> QED BY <2>1, <2>2, <2>3, <2>4, <1>9
<1> QED BY <1>5, <1>6, <1>8, <1>10, <1>11 DEF KInv

-------------------------------------------------------------------------------
\* Reached gives some of the keys it is asked about.
LEMMA ReachedIn ==
  ASSUME NEW m, NEW c, NEW posted
  PROVE  Reached(m, c, posted) \subseteq DOMAIN posted
BY DEF Reached

LEMMA NamedKind ==
  ASSUME NEW S, NEW named \in Named(S)
  PROVE  DOMAIN named \subseteq S
BY DEF Named

LEMMA UpsetVerticesSuits ==
  ASSUME KInv, NEW c \in VClass, NEW named \in Named(IntKey) \cup Named(StrKey)
  PROVE  LET refused == \E k \in DOMAIN named : OtherKind(c, k)
             alone == Indexes = <<>> /\ DOMAIN named \subseteq IntKey
             done == IF refused THEN {}
                     ELSE IF alone THEN {k \in DOMAIN named : \A j \in DOMAIN named : k <= j}
                     ELSE Reached(mode, c, named)
         IN  Suits(keyType, c, done)
<1> DEFINE refused == \E k \in DOMAIN named : OtherKind(c, k)
           alone == Indexes = <<>> /\ DOMAIN named \subseteq IntKey
           done == IF refused THEN {}
                   ELSE IF alone THEN {k \in DOMAIN named : \A j \in DOMAIN named : k <= j}
                   ELSE Reached(mode, c, named)
<1>1. done \subseteq DOMAIN named /\ (done = {} \/ ~refused)
  BY ReachedIn
<1>2. DOMAIN named \subseteq IntKey \/ DOMAIN named \subseteq StrKey
  BY NamedKind
<1>3. keyType[c] \in {"Uninitialize", "Integer", "Byte"}
  BY DEF KInv, RowsOK
<1> SUFFICES Suits(keyType, c, done) OBVIOUS
<1> HIDE DEF done
<1>4. CASE done = {}
  BY <1>4, <1>3 DEF Suits
<1>5. CASE done # {}
  <2>1. PICK k \in done : TRUE BY <1>5
  <2>2. k \in DOMAIN named /\ ~refused BY <1>1, <2>1
  <2>3. ~OtherKind(c, k) BY <2>2
  <2> QED BY <2>1, <2>2, <2>3, <1>1, <1>2, <1>3 DEF Suits, OtherKind
<1> QED BY <1>4, <1>5

LEMMA UpsetVerticesKeeps ==
  ASSUME KInv, NEW c \in VClass, NEW named \in Named(IntKey) \cup Named(StrKey),
         UpsetVertices(c, named)
  PROVE  KInv'
<1> DEFINE refused == \E k \in DOMAIN named : OtherKind(c, k)
           alone == Indexes = <<>> /\ DOMAIN named \subseteq IntKey
           done == IF refused THEN {}
                   ELSE IF alone THEN {k \in DOMAIN named : \A j \in DOMAIN named : k <= j}
                   ELSE Reached(mode, c, named)
<1>1. WriteRows(mode, c, done, named, named)
  BY DEF UpsetVertices
<1>2. Suits(keyType, c, done)
  BY UpsetVerticesSuits
<1>3. mode \in [Map -> Mode] /\ OrdinalOK(mode, keyType) BY DEF KInv
<1> HIDE DEF done
<1> QED BY <1>1, <1>2, <1>3, WriteRowsKeeps

\* Opening the maps of a scan keeps the modes in order.
LEMMA ScanModes ==
  ASSUME KInv, NEW c \in VClass, NEW cond
  PROVE  /\ MadeByScan(c, cond) \in [Map -> Mode]
         /\ OrdinalOK(MadeByScan(c, cond), keyType)
<1> DEFINE m1 == Made(mode, Considered(c, cond), "ordinal")
<1>1. "ordinal" \in Mode /\ CursorMode(c) \in Mode /\ mode \in [Map -> Mode]
  BY DEF Mode, CursorMode, KInv
<1>2. Considered(c, cond) \subseteq Index BY DEF Considered
<1>3. m1 \in [Map -> Mode] /\ \A d \in VClass : m1[d] = mode[d]
  BY <1>1, <1>2, MadeMode, VClassMap, ClassNoIndex
<1>4. MadeByScan(c, cond) = Made(m1, {c}, CursorMode(c)) BY DEF MadeByScan
<1> HIDE DEF m1
<1>5. /\ MadeByScan(c, cond) \in [Map -> Mode]
      /\ \A d \in VClass : MadeByScan(c, cond)[d] \in {m1[d], CursorMode(c)}
      /\ \A d \in VClass : d # c => MadeByScan(c, cond)[d] = m1[d]
  BY <1>1, <1>3, <1>4, MadeMode, VClassMap
<1>6. \A d \in VClass : mode[d] = "ordinal" => keyType[d] = "Integer"
  BY DEF KInv, OrdinalOK
<1> QED BY <1>3, <1>5, <1>6 DEF OrdinalOK, CursorMode

LEMMA UpsetWhereKeeps ==
  ASSUME KInv, NEW c \in VClass, NEW cond \in Cond, NEW a, NEW v,
         UpsetWhere(c, cond, a, v)
  PROVE  KInv'
<1> DEFINE opened == MadeByScan(c, cond)
           props == [x \in {a} |-> v]
           hit == Matches(c, cond)
           new == [k \in hit |-> Merge(props, rows[c][k])]
           posted == [k \in hit |-> props]
           done == Reached(opened, c, posted)
<1>1. opened \in [Map -> Mode] /\ OrdinalOK(opened, keyType) BY ScanModes
<1>2. CASE ScanAsserts(c, cond)
  <2>1. mode' = opened /\ UNCHANGED <<rows, keyType>> BY <1>2 DEF UpsetWhere
  <2> QED BY <2>1, <1>1 DEF KInv
<1>3. CASE ~ScanAsserts(c, cond)
  <2>1. WriteRows(opened, c, done, new, posted) BY <1>3 DEF UpsetWhere
  <2>2. done \subseteq hit BY ReachedIn
  <2>3. hit \subseteq DOMAIN rows[c] BY DEF Matches
  <2> HIDE DEF opened, new, posted, done, hit
  <2>4. Suits(keyType, c, done)
    BY <2>2, <2>3 DEF KInv, RowsOK, Suits
  <2> QED BY <1>1, <2>1, <2>4, WriteRowsKeeps
<1> QED BY <1>2, <1>3

LEMMA RemoveVerticesKeeps ==
  ASSUME KInv, NEW c \in VClass, NEW cond, RemoveVertices(c, cond)
  PROVE  KInv'
<1> DEFINE gone == Matches(c, cond)
           at == IF gone = {} THEN {} ELSE Related(c)
           m1 == Made(mode, {c}, CursorMode(c))
<1>1. /\ rows' = [rows EXCEPT ![c] = Without(@, gone)]
      /\ mode' = Made(m1, at, "ordinal")
      /\ keyType' = keyType
  BY DEF RemoveVertices
<1>2. at \subseteq EClass BY DEF Related
<1>3. "ordinal" \in Mode /\ CursorMode(c) \in Mode /\ mode \in [Map -> Mode]
  BY DEF Mode, CursorMode, KInv
<1> HIDE DEF gone, at
<1>4. /\ m1 \in [Map -> Mode]
      /\ \A d \in VClass : m1[d] \in {mode[d], CursorMode(c)}
      /\ \A d \in VClass : d # c => m1[d] = mode[d]
  BY <1>3, MadeMode, VClassMap
<1> HIDE DEF m1
<1>5. mode' \in [Map -> Mode] /\ \A d \in VClass : mode'[d] = m1[d]
  BY <1>1, <1>2, <1>3, <1>4, MadeMode, VClassMap, ClassNoIndex
<1>6. \A d \in VClass : mode[d] = "ordinal" => keyType[d] = "Integer"
  BY DEF KInv, OrdinalOK
<1>7. OrdinalOK(mode', keyType')
  BY <1>1, <1>4, <1>5, <1>6 DEF OrdinalOK, CursorMode
<1>8. /\ DOMAIN rows' = VClass
      /\ \A d \in VClass : DOMAIN rows'[d] \subseteq DOMAIN rows[d]
  BY <1>1 DEF KInv, Without
<1>9. RowsOK(rows', keyType')
  BY <1>1, <1>8 DEF KInv, RowsOK
<1> QED BY <1>1, <1>5, <1>7, <1>8, <1>9 DEF KInv

\* Statements on edge classes touch neither rows nor the key types of vertices.
LEMMA EdgeStatementsKeep ==
  ASSUME KInv, NEW e \in EClass,
         RemoveEdges(e) \/ \E declared : UpsetEdges(e, declared)
  PROVE  KInv'
<1>1. /\ rows' = rows /\ mode' = Made(mode, {e}, "usual")
      /\ \/ keyType' = keyType
         \/ keyType' = [keyType EXCEPT ![e] = IF @ = "Uninitialize" THEN "Edge" ELSE @]
  BY DEF RemoveEdges, UpsetEdges
<1>2. "usual" \in Mode /\ mode \in [Map -> Mode] BY DEF Mode, KInv
<1>3. mode' \in [Map -> Mode] /\ \A d \in VClass : mode'[d] = mode[d]
  BY <1>1, <1>2, MadeMode, VClassMap, ClassNoIndex
<1>4. /\ keyType' \in [VClass \cup EClass -> KeyType]
      /\ \A d \in VClass : keyType'[d] = keyType[d]
  BY <1>1, ClassNoIndex DEF KInv, KeyType
<1> QED BY <1>1, <1>3, <1>4 DEF KInv, RowsOK, OrdinalOK

-------------------------------------------------------------------------------
LEMMA InitKInv == Init => KInv
BY VClassMap DEF Init, KInv, RowsOK, OrdinalOK, KeyType, Mode

LEMMA StepKeepsKInv == KInv /\ [Next]_vars => KInv'
<1> SUFFICES ASSUME KInv, [Next]_vars PROVE KInv'
  OBVIOUS
<1>1. ASSUME NEW c \in VClass, NEW named \in Named(IntKey) \cup Named(StrKey),
             UpsetVertices(c, named)
      PROVE  KInv'
  BY <1>1, UpsetVerticesKeeps
<1>2. ASSUME NEW e \in EClass, RemoveEdges(e) \/ \E declared : UpsetEdges(e, declared)
      PROVE  KInv'
  BY <1>2, EdgeStatementsKeep
<1>3. ASSUME NEW c \in VClass, NEW cond \in Cond, Query(c, cond)
      PROVE  KInv'
  BY <1>3, ScanModes DEF Query, KInv
<1>4. ASSUME NEW c \in VClass, NEW cond \in Cond, NEW a \in Attr, NEW v \in Value,
             UpsetWhere(c, cond, a, v)
      PROVE  KInv'
  BY <1>4, UpsetWhereKeeps
<1>5. ASSUME NEW c \in VClass, NEW cond \in Cond, RemoveVertices(c, cond)
      PROVE  KInv'
  BY <1>5, RemoveVerticesKeeps
<1>6. CASE UNCHANGED vars
  BY <1>6 DEF vars, KInv
<1> QED BY <1>1, <1>2, <1>3, <1>4, <1>5, <1>6 DEF Next

\* Whatever statements run, in whatever order and with whatever outcome, the
\* rows of a class have keys of the one kind its schema names, and only maps of
\* integer keys are ordinal (tryInitKeyType, getOrCreateHandle, upsetVertex).
THEOREM KeysStayOfOneKind == Spec => []KeysOfOneKind
<1>1. KInv => KeysOfOneKind
  BY DEF KInv, RowsOK, OrdinalOK, KeysOfOneKind
<1> QED BY <1>1, InitKInv, StepKeepsKInv, PTL DEF Spec

-------------------------------------------------------------------------------
(* The entries of the indexes. *)

\* Every text key is in the entries of its row's indexed values.
Complete(r, p) ==
  \A i \in Index : \A k \in DOMAIN r[Indexes[i][1]] \cap StrKey :
    LET row == r[Indexes[i][1]][k]  x == Indexes[i][2]
    IN  x \in DOMAIN row => row[x] \in DOMAIN p[i] /\ k \in p[i][row[x]]

CutOwn == \A i \in Index : cut[Indexes[i][1]][i] = Indexes[i][2]

PInv == KInv /\ CutOwn /\ (clean /\ OwnIndexes => Complete(rows, posts))

\* What a class is given is in what the indexes are given, or was there before.
FromPosted(c, done, new, posted) ==
  \A k \in done : \A x \in DOMAIN new[k] :
    \/ x \in DOMAIN posted[k] /\ posted[k][x] = new[k][x]
    \/ /\ k \in DOMAIN rows[c] /\ x \in DOMAIN rows[c][k]
       /\ rows[c][k][x] = new[k][x]

LEMMA IndexedClass == \A i \in Index : Indexes[i][1] \in VClass /\ Indexes[i][2] \in Attr
BY ClassAssumption DEF Index

LEMMA WriteRowsPosts ==
  ASSUME KInv, CutOwn, OwnIndexes, Complete(rows, posts),
         NEW c \in VClass, NEW m, NEW done, NEW new, NEW posted, Suits(keyType, c, done),
         \A k \in done : ~IndexFails(m, c, posted[k]) /\ DOMAIN posted[k] \subseteq Attr,
         FromPosted(c, done, new, posted),
         WriteRows(m, c, done, new, posted)
  PROVE  Complete(rows', posts')
<1> DEFINE stored == Stored([k \in done |-> new[k]])
           hits(i) == {k \in done : i \in Updated(m, c, posted[k])}
           ids(i, v) == {k \in hits(i) : posted[k][cut[c][i]] = v}
           values(i) == {posted[k][cut[c][i]] : k \in hits(i)}
           entered(i) == [v \in values(i) |-> Posted(i, v, ids(i, v))]
<1>1. /\ rows' = [rows EXCEPT ![c] = Merge([k \in stored |-> new[k]], @)]
      /\ posts' = [i \in Index |-> Merge(entered(i), posts[i])]
  BY Zenon DEF WriteRows
<1>2. stored \subseteq done BY DEF Stored
<1>3. IntKey \cap StrKey = {} BY KeyAssumption
<1> HIDE DEF stored
<1>4. /\ \A d \in VClass : d # c => rows'[d] = rows[d]
      /\ DOMAIN rows'[c] = stored \cup DOMAIN rows[c]
      /\ \A k \in stored : rows'[c][k] = new[k]
      /\ \A k \in DOMAIN rows[c] : k \notin stored => rows'[c][k] = rows[c][k]
  BY <1>1 DEF KInv, Merge
<1>5. ASSUME NEW i \in Index
      PROVE  /\ DOMAIN posts'[i] = values(i) \cup DOMAIN posts[i]
             /\ \A v \in values(i) : posts'[i][v] = Posted(i, v, ids(i, v))
             /\ \A v \in DOMAIN posts[i] : v \notin values(i) => posts'[i][v] = posts[i][v]
  <2>1. posts'[i] = Merge(entered(i), posts[i]) BY <1>1
  <2>2. DOMAIN entered(i) = values(i)
        /\ \A v \in values(i) : entered(i)[v] = Posted(i, v, ids(i, v))
    OBVIOUS
  <2> HIDE DEF entered, values, ids
  <2> DEFINE f == entered(i)
             g == posts[i]
  <2>3. DOMAIN f = values(i) /\ \A v \in values(i) : f[v] = Posted(i, v, ids(i, v))
    BY <2>2
  <2> HIDE DEF f, g
  <2>4. /\ DOMAIN Merge(f, g) = values(i) \cup DOMAIN g
        /\ \A v \in values(i) : Merge(f, g)[v] = Posted(i, v, ids(i, v))
        /\ \A v \in DOMAIN g : v \notin values(i) => Merge(f, g)[v] = g[v]
    BY <2>3 DEF Merge
  <2> QED BY <2>1, <2>4 DEF f, g
<1>6. ASSUME NEW i \in Index, NEW v \in values(i)
      PROVE  \E k \in done : k \in ids(i, v) /\ Indexes[i][1] = c
  <2>1. PICK k \in hits(i) : v = posted[k][cut[c][i]] OBVIOUS
  <2>2. k \in done /\ cut[c][i] \in DOMAIN posted[k] BY DEF Updated
  <2>3. cut[c][i] \in Attr BY <2>2
  <2>4. Indexes[i][1] = c BY <2>3 DEF OwnIndexes
  <2> QED BY <2>1, <2>2, <2>4
\* A text key that is merged into an entry enters it, and those there stay.
<1>7. ASSUME NEW i, NEW v, NEW S, NEW k \in S, k \in StrKey
      PROVE  /\ S \subseteq Posted(i, v, S)
             /\ v \in DOMAIN posts[i] => posts[i][v] \subseteq Posted(i, v, S)
  BY <1>3, <1>7 DEF Posted
<1> HIDE DEF entered
<1>8. ASSUME NEW i \in Index, NEW v \in DOMAIN posts[i], NEW k \in posts[i][v],
             Indexes[i][1] # c \/ done \subseteq StrKey
      PROVE  v \in DOMAIN posts'[i] /\ k \in posts'[i][v]
  <2>1. CASE v \notin values(i)
    <3> HIDE DEF values, ids, hits
    <3> QED BY <2>1, <1>5
  <2>2. CASE v \in values(i)
    <3>1. PICK j \in done : j \in ids(i, v) /\ Indexes[i][1] = c BY <2>2, <1>6
    <3>2. j \in StrKey BY <3>1, <1>8
    <3> HIDE DEF values, ids, hits
    <3>3. posts[i][v] \subseteq Posted(i, v, ids(i, v)) BY <3>1, <3>2, <1>7
    <3> QED BY <2>2, <3>3, <1>5
  <2> QED BY <2>1, <2>2
<1>9. ASSUME NEW i \in Index, Indexes[i][1] = c, NEW k \in done, k \in StrKey,
             Indexes[i][2] \in DOMAIN posted[k]
      PROVE  /\ posted[k][Indexes[i][2]] \in DOMAIN posts'[i]
             /\ k \in posts'[i][posted[k][Indexes[i][2]]]
  <2>1. cut[c][i] = Indexes[i][2] BY <1>9 DEF CutOwn
  <2>2. i \in Updated(m, c, posted[k])
    BY <1>9, <2>1 DEF Updated, IndexFails
  <2> DEFINE v == posted[k][Indexes[i][2]]
  <2>3. v \in values(i) /\ k \in ids(i, v) BY <2>1, <2>2
  <2> HIDE DEF v, values, ids, hits
  <2>4. k \in Posted(i, v, ids(i, v)) BY <2>3, <1>7, <1>9
  <2>5. v \in DOMAIN posts'[i] /\ k \in posts'[i][v] BY <2>3, <2>4, <1>5
  <2> QED BY <2>5 DEF v
<1> HIDE DEF values, ids, hits
<1>10. SUFFICES ASSUME NEW i \in Index, NEW k \in DOMAIN rows'[Indexes[i][1]] \cap StrKey,
                       Indexes[i][2] \in DOMAIN rows'[Indexes[i][1]][k]
                PROVE  LET y == rows'[Indexes[i][1]][k][Indexes[i][2]]
                       IN  y \in DOMAIN posts'[i] /\ k \in posts'[i][y]
  BY DEF Complete
<1> DEFINE d == Indexes[i][1]
           x == Indexes[i][2]
<1>11. d \in VClass BY IndexedClass
\* What was true of an old row stays true of it.
<1>12. ASSUME k \in DOMAIN rows[d], x \in DOMAIN rows[d][k]
       PROVE  rows[d][k][x] \in DOMAIN posts'[i] /\ k \in posts'[i][rows[d][k][x]]
  <2>1. rows[d][k][x] \in DOMAIN posts[i] /\ k \in posts[i][rows[d][k][x]]
    BY <1>10, <1>12 DEF Complete
  <2>2. d = c => done \subseteq StrKey
    BY <1>3, <1>10, <1>11, <1>12 DEF KInv, RowsOK, Suits
  <2> QED BY <2>1, <2>2, <1>8
<1>13. CASE d # c
  BY <1>4, <1>10, <1>11, <1>12, <1>13
<1>14. CASE d = c /\ k \notin stored
  BY <1>4, <1>10, <1>12, <1>14
<1>15. CASE d = c /\ k \in stored
  <2>1. rows'[d][k] = new[k] /\ x \in DOMAIN new[k] /\ k \in done
    BY <1>2, <1>4, <1>10, <1>15
  <2>2. CASE x \in DOMAIN posted[k] /\ posted[k][x] = new[k][x]
    BY <2>1, <2>2, <1>9, <1>10, <1>15
  <2>3. CASE /\ k \in DOMAIN rows[c] /\ x \in DOMAIN rows[c][k]
             /\ rows[c][k][x] = new[k][x]
    BY <2>1, <2>3, <1>12, <1>15
  <2> QED BY <2>1, <2>2, <2>3 DEF FromPosted
<1> QED BY <1>13, <1>14, <1>15

LEMMA UpsetVerticesPosts ==
  ASSUME PInv, NEW c \in VClass, NEW named \in Named(IntKey) \cup Named(StrKey),
         UpsetVertices(c, named), clean', OwnIndexes
  PROVE  Complete(rows', posts')
<1> DEFINE refused == \E k \in DOMAIN named : OtherKind(c, k)
           alone == Indexes = <<>> /\ DOMAIN named \subseteq IntKey
           done == IF refused THEN {}
                   ELSE IF alone THEN {k \in DOMAIN named : \A j \in DOMAIN named : k <= j}
                   ELSE Reached(mode, c, named)
           throws == \E k \in done : IndexFails(mode, c, named[k])
<1>1. /\ WriteRows(mode, c, done, named, named)
      /\ clean' = (clean /\ (IF refused \/ alone THEN "fail" ELSE IF throws THEN "error" ELSE "ok")
                              \in {"ok", "fail"})
  BY DEF UpsetVertices, Ends
<1>2. done \subseteq DOMAIN named BY ReachedIn
<1>3. KInv /\ CutOwn /\ Complete(rows, posts)
  BY <1>1 DEF PInv
<1>4. CASE alone
  BY <1>4 DEF Complete, Index
<1>5. CASE ~alone
  <2>1. refused \/ ~throws BY <1>1, <1>5
  <2>2. \A k \in done : ~IndexFails(mode, c, named[k]) BY <2>1
  <2>3. \A k \in done : DOMAIN named[k] \subseteq Attr
    BY <1>2 DEF Named, Row
  <2>4. FromPosted(c, done, named, named) BY DEF FromPosted
  <2>5. Suits(keyType, c, done)
    BY <1>3, UpsetVerticesSuits
  <2> HIDE DEF done
  <2> QED BY <1>1, <1>3, <2>2, <2>3, <2>4, <2>5, WriteRowsPosts
<1> QED BY <1>4, <1>5

LEMMA UpsetWherePosts ==
  ASSUME PInv, NEW c \in VClass, NEW cond \in Cond, NEW a \in Attr, NEW v \in Value,
         UpsetWhere(c, cond, a, v), clean', OwnIndexes
  PROVE  Complete(rows', posts')
<1> DEFINE opened == MadeByScan(c, cond)
           props == [x \in {a} |-> v]
           hit == Matches(c, cond)
           new == [k \in hit |-> Merge(props, rows[c][k])]
           posted == [k \in hit |-> props]
           done == Reached(opened, c, posted)
<1>1. ~ScanAsserts(c, cond)
  BY DEF UpsetWhere, Ends
<1>2. /\ WriteRows(opened, c, done, new, posted)
      /\ clean' = (clean /\ (IF hit # {} /\ IndexFails(opened, c, props) THEN "error" ELSE "ok")
                              \in {"ok", "fail"})
  BY <1>1 DEF UpsetWhere, Ends
<1>3. KInv /\ CutOwn /\ Complete(rows, posts)
  BY <1>2 DEF PInv
<1>4. done \subseteq hit BY ReachedIn
<1>5. hit \subseteq DOMAIN rows[c] BY DEF Matches
<1>6. \A k \in done : posted[k] = props BY <1>4
<1>7. \A k \in done : ~IndexFails(opened, c, posted[k])
  BY <1>2, <1>4, <1>6
<1>8. \A k \in done : DOMAIN posted[k] \subseteq Attr BY <1>6
<1>9. FromPosted(c, done, new, posted)
  <2> SUFFICES ASSUME NEW k \in done, NEW x \in DOMAIN new[k]
               PROVE  \/ x \in DOMAIN posted[k] /\ posted[k][x] = new[k][x]
                      \/ /\ k \in DOMAIN rows[c] /\ x \in DOMAIN rows[c][k]
                         /\ rows[c][k][x] = new[k][x]
    BY DEF FromPosted
  <2>1. new[k] = Merge(props, rows[c][k]) /\ k \in DOMAIN rows[c] BY <1>4, <1>5
  <2> QED BY <2>1, <1>6 DEF Merge
<1> HIDE DEF opened, new, posted, done, hit
<1>10. Suits(keyType, c, done)
  BY <1>3, <1>4, <1>5 DEF KInv, RowsOK, Suits
<1> QED BY <1>2, <1>3, <1>7, <1>8, <1>9, <1>10, WriteRowsPosts

LEMMA RemoveVerticesPosts ==
  ASSUME PInv, NEW c \in VClass, NEW cond, RemoveVertices(c, cond), clean', OwnIndexes
  PROVE  Complete(rows', posts')
<1>1. /\ rows' = [rows EXCEPT ![c] = Without(@, Matches(c, cond))]
      /\ posts' = posts /\ clean
  BY DEF RemoveVertices, Ends
<1>2. DOMAIN rows = VClass /\ Complete(rows, posts)
  BY <1>1 DEF PInv, KInv
<1>3. \A d \in VClass : /\ DOMAIN rows'[d] \subseteq DOMAIN rows[d]
                        /\ \A k \in DOMAIN rows'[d] : rows'[d][k] = rows[d][k]
  BY <1>1, <1>2 DEF Without
<1> QED BY <1>1, <1>2, <1>3, IndexedClass DEF Complete

LEMMA InitPInv == Init => PInv
<1> SUFFICES ASSUME Init PROVE PInv OBVIOUS
<1>1. KInv BY InitKInv
<1>2. CutOwn BY DEF Init, CutOwn
<1>3. Complete(rows, posts)
  BY IndexedClass DEF Init, Complete
<1> QED BY <1>1, <1>2, <1>3 DEF PInv

LEMMA StepKeepsPInv == PInv /\ [Next]_vars => PInv'
<1> SUFFICES ASSUME PInv, [Next]_vars PROVE PInv' OBVIOUS
<1>1. KInv' BY StepKeepsKInv DEF PInv
<1>2. cut' = cut /\ (clean' => clean)
  <2> DEFINE Kept == cut' = cut /\ (clean' => clean)
  <2>1. ASSUME NEW c \in VClass, NEW named \in Named(IntKey) \cup Named(StrKey),
               UpsetVertices(c, named)
        PROVE  Kept
    BY <2>1 DEF UpsetVertices, Ends
  <2>2. ASSUME NEW e \in EClass, NEW declared, UpsetEdges(e, declared) PROVE Kept
    BY <2>2 DEF UpsetEdges, Ends
  <2>3. ASSUME NEW c \in VClass, NEW cond \in Cond, Query(c, cond) PROVE Kept
    BY <2>3 DEF Query, Ends
  <2>4. ASSUME NEW c \in VClass, NEW cond \in Cond, NEW a \in Attr, NEW v \in Value,
               UpsetWhere(c, cond, a, v)
        PROVE  Kept
    BY <2>4 DEF UpsetWhere, Ends
  <2>5. ASSUME NEW c \in VClass, NEW cond \in Cond, RemoveVertices(c, cond) PROVE Kept
    BY <2>5 DEF RemoveVertices, Ends
  <2>6. ASSUME NEW e \in EClass, RemoveEdges(e) PROVE Kept
    BY <2>6 DEF RemoveEdges, Ends
  <2>7. CASE UNCHANGED vars BY <2>7 DEF vars
  <2> QED BY <2>1, <2>2, <2>3, <2>4, <2>5, <2>6, <2>7 DEF Next
<1>3. CutOwn' /\ (OwnIndexes' <=> OwnIndexes)
  BY <1>2 DEF PInv, CutOwn, OwnIndexes
<1>4. ASSUME clean', OwnIndexes PROVE Complete(rows', posts')
  <2>1. ASSUME rows' = rows, posts' = posts PROVE Complete(rows', posts')
    BY <1>2, <1>4, <2>1 DEF PInv
  <2>2. ASSUME NEW c \in VClass, NEW named \in Named(IntKey) \cup Named(StrKey),
               UpsetVertices(c, named)
        PROVE  Complete(rows', posts')
    BY <1>4, <2>2, UpsetVerticesPosts
  <2>3. ASSUME NEW c \in VClass, NEW cond \in Cond, NEW a \in Attr, NEW v \in Value,
               UpsetWhere(c, cond, a, v)
        PROVE  Complete(rows', posts')
    BY <1>4, <2>3, UpsetWherePosts
  <2>4. ASSUME NEW c \in VClass, NEW cond \in Cond, RemoveVertices(c, cond)
        PROVE  Complete(rows', posts')
    BY <1>4, <2>4, RemoveVerticesPosts
  <2>5. ASSUME NEW e \in EClass, RemoveEdges(e) \/ \E declared : UpsetEdges(e, declared)
        PROVE  Complete(rows', posts')
    BY <2>1, <2>5 DEF RemoveEdges, UpsetEdges
  <2>6. ASSUME NEW c \in VClass, NEW cond \in Cond, Query(c, cond)
        PROVE  Complete(rows', posts')
    BY <2>1, <2>6 DEF Query
  <2>7. CASE UNCHANGED vars BY <2>1, <2>7 DEF vars
  <2> QED BY <2>2, <2>3, <2>4, <2>5, <2>6, <2>7 DEF Next
<1> QED BY <1>1, <1>3, <1>4 DEF PInv

\* While no statement has ended in an exception and no class is mistaken for
\* another, an index entry names every text key whose row has the value
\* (upsetIndex, upsetVertex, GUpsetPlan::execute, GRemovePlan::execute).
THEOREM PostingsStayComplete == Spec => []PostingsComplete
<1>1. PInv => PostingsComplete
  BY DEF PInv, Complete, PostingsComplete
<1> QED BY <1>1, InitPInv, StepKeepsPInv, PTL DEF Spec

-------------------------------------------------------------------------------
(* What the rows, the edges and the entries are. *)

RowsTyped == \A c \in VClass : DOMAIN rows[c] \subseteq Key /\ \A k \in DOMAIN rows[c] : rows[c][k] \in Row

EntryTyped(entry) ==
  DOMAIN entry \subseteq Value /\ \A v \in DOMAIN entry : entry[v] \subseteq Key \cup {Truncated}

PostsTyped == \A i \in Index : EntryTyped(posts[i])

TypeInv ==
  /\ RowsTyped /\ PostsTyped
  /\ edges \in [EClass -> SUBSET Edge]
  /\ cut \in [VClass -> [Index -> Attr \cup {NoAttr, Throws}]]
  /\ last.result \in Result /\ clean \in BOOLEAN /\ calls \in 0..MaxCalls

\* How a statement ends.
LEMMA EndsTyped ==
  ASSUME NEW op, NEW c, NEW named, NEW result, result \in Result, Ends(op, c, named, result), TypeInv
  PROVE  /\ last' = [op |-> op, class |-> c, named |-> named, result |-> result]
         /\ last'.result \in Result /\ clean' \in BOOLEAN /\ calls' \in 0..MaxCalls /\ cut' = cut
<1>1. /\ last' = [op |-> op, class |-> c, named |-> named, result |-> result]
      /\ calls' = calls + 1 /\ calls < MaxCalls /\ cut' = cut
  BY DEF Ends
<1>2. clean' \in BOOLEAN
  <2>1. clean' = (clean /\ result \in {"ok", "fail"})
    BY DEF Ends
  <2>2. QED
    BY <2>1, Zenon
<1>3. calls \in 0..MaxCalls
  BY DEF TypeInv
<1>4. QED
  BY <1>1, <1>2, <1>3, BoundAssumption

\* Rows and entries stay typed when typed rows are written.
LEMMA WriteRowsTyped ==
  ASSUME KInv, TypeInv, NEW c \in VClass, NEW m, NEW done, NEW new, NEW posted,
         done \subseteq Key, \A k \in done : new[k] \in Row /\ posted[k] \in Row,
         WriteRows(m, c, done, new, posted)
  PROVE  RowsTyped' /\ PostsTyped'
<1> DEFINE stored == Stored([k \in done |-> new[k]])
           hits(i) == {k \in done : i \in Updated(m, c, posted[k])}
           ids(i, v) == {k \in hits(i) : posted[k][cut[c][i]] = v}
           values(i) == {posted[k][cut[c][i]] : k \in hits(i)}
<1>1. /\ rows' = [rows EXCEPT ![c] = Merge([k \in stored |-> new[k]], @)]
      /\ posts' = [i \in Index |-> Merge([v \in values(i) |-> Posted(i, v, ids(i, v))], posts[i])]
  BY Zenon DEF WriteRows
<1>2. stored \subseteq done
  BY DEF Stored
<1> HIDE DEF stored
<1>3. RowsTyped'
  <2> SUFFICES ASSUME NEW d \in VClass
               PROVE  DOMAIN rows'[d] \subseteq Key /\ \A k \in DOMAIN rows'[d] : rows'[d][k] \in Row
    BY DEF RowsTyped
  <2>1. CASE d # c
    <3>1. rows'[d] = rows[d]
      BY <1>1, <2>1 DEF KInv
    <3>2. QED
      BY <3>1 DEF TypeInv, RowsTyped
  <2>2. CASE d = c
    <3>1. rows'[c] = Merge([k \in stored |-> new[k]], rows[c])
      BY <1>1 DEF KInv
    <3>2. DOMAIN rows'[c] = stored \cup DOMAIN rows[c]
      BY <3>1 DEF Merge
    <3>3. \A k \in DOMAIN rows'[c] : rows'[c][k] = IF k \in stored THEN new[k] ELSE rows[c][k]
      BY <3>1, <3>2 DEF Merge
    <3>4. QED
      BY <1>2, <2>2, <3>2, <3>3 DEF TypeInv, RowsTyped
  <2>3. QED
    BY <2>1, <2>2
<1>4. ASSUME NEW i \in Index
      PROVE  EntryTyped(posts'[i])
  <2> DEFINE f == [v \in values(i) |-> Posted(i, v, ids(i, v))]
  <2>1. posts'[i] = Merge(f, posts[i])
    BY <1>1
  <2>2. values(i) \subseteq Value
    <3> SUFFICES ASSUME NEW k \in hits(i) PROVE posted[k][cut[c][i]] \in Value
      OBVIOUS
    <3>1. k \in done /\ cut[c][i] \in DOMAIN posted[k]
      BY DEF Updated
    <3>2. PICK A \in SUBSET Attr : posted[k] \in [A -> Value]
      BY <3>1 DEF Row
    <3>3. QED
      BY <3>1, <3>2
  <2>3. \A v \in values(i) : Posted(i, v, ids(i, v)) \subseteq Key \cup {Truncated}
    <3> TAKE v \in values(i)
    <3>1. ids(i, v) \subseteq Key
      OBVIOUS
    <3>2. v \in DOMAIN posts[i] => posts[i][v] \subseteq Key \cup {Truncated}
      BY DEF TypeInv, PostsTyped, EntryTyped
    <3> HIDE DEF ids, values
    <3>3. QED
      BY <3>1, <3>2 DEF Posted
  <2> HIDE DEF ids, values, hits
  <2>4. DOMAIN posts'[i] = values(i) \cup DOMAIN posts[i]
    BY <2>1 DEF Merge
  <2>5. \A v \in DOMAIN posts'[i] : posts'[i][v] = IF v \in values(i) THEN Posted(i, v, ids(i, v)) ELSE posts[i][v]
    BY <2>1, <2>4 DEF Merge
  <2>6. EntryTyped(posts[i])
    BY DEF TypeInv, PostsTyped
  <2>7. QED
    BY <2>2, <2>3, <2>4, <2>5, <2>6 DEF EntryTyped
<1>5. QED
  BY <1>3, <1>4 DEF PostsTyped

LEMMA NamedTyped ==
  ASSUME NEW S, NEW named \in Named(S)
  PROVE  IsFiniteSet(DOMAIN named) /\ DOMAIN named \subseteq S /\ \A k \in DOMAIN named : named[k] \in Row
<1>1. PICK T \in SUBSET S : named \in [T -> Row] /\ IsFiniteSet(T)
  BY DEF Named
<1>2. QED
  BY <1>1

\* The one property that a statement writes to the rows it finds.
OneProp(a, v) == [x \in {a} |-> v]

LEMMA MergedRow ==
  ASSUME NEW row \in Row, NEW a \in Attr, NEW v \in Value
  PROVE  Merge(OneProp(a, v), row) \in Row /\ OneProp(a, v) \in Row
<1>1. PICK A \in SUBSET Attr : row \in [A -> Value]
  BY DEF Row
<1> DEFINE p == [x \in {a} |-> v]
           h == Merge(p, row)
<1>2. DOMAIN p = {a} /\ p[a] = v
  OBVIOUS
<1>3. p \in [{a} -> Value]
  OBVIOUS
<1> HIDE DEF p
<1>4. h = [x \in {a} \cup A |-> IF x \in {a} THEN p[x] ELSE row[x]]
  BY <1>1, <1>2 DEF Merge
<1>5. h \in [{a} \cup A -> Value]
  BY <1>1, <1>2, <1>4
<1> HIDE DEF h
<1>6. {a} \in SUBSET Attr /\ {a} \cup A \in SUBSET Attr
  OBVIOUS
<1>7. h \in Row /\ p \in Row
  BY <1>3, <1>5, <1>6 DEF Row
<1>8. QED
  BY <1>7 DEF h, p, OneProp

LEMMA TypeInvInit == Init => TypeInv
<1> SUFFICES ASSUME Init PROVE TypeInv
  OBVIOUS
<1>1. rows = [c \in VClass |-> <<>>] /\ edges = [e \in EClass |-> {}] /\ posts = [i \in Index |-> <<>>]
  BY DEF Init
<1>2. RowsTyped
  BY <1>1 DEF RowsTyped
<1>3. PostsTyped
  BY <1>1 DEF PostsTyped, EntryTyped
<1>4. cut \in [VClass -> [Index -> Attr \cup {NoAttr, Throws}]]
  BY DEF Init
<1>5. last.result = "ok" /\ clean = TRUE /\ calls = 0
  BY DEF Init
<1>6. clean \in BOOLEAN
  BY <1>5, Zenon
<1>7. last.result \in Result /\ calls \in 0..MaxCalls
  BY <1>5, BoundAssumption DEF Result
<1>8. edges \in [EClass -> SUBSET Edge]
  BY <1>1
<1>9. QED
  BY <1>2, <1>3, <1>4, <1>6, <1>7, <1>8 DEF TypeInv

LEMMA TypeInvStep == KInv /\ TypeInv /\ [Next]_vars => TypeInv'
<1> SUFFICES ASSUME KInv, TypeInv, [Next]_vars PROVE TypeInv'
  OBVIOUS
<1>0. ASSUME NEW op, NEW c, NEW named, NEW result, result \in Result, Ends(op, c, named, result),
             RowsTyped', PostsTyped', edges' \in [EClass -> SUBSET Edge]
      PROVE  TypeInv'
  BY <1>0, EndsTyped DEF TypeInv
<1>1. ASSUME rows' = rows
      PROVE  RowsTyped'
  BY <1>1 DEF TypeInv, RowsTyped
<1>2. ASSUME posts' = posts
      PROVE  PostsTyped'
  BY <1>2 DEF TypeInv, PostsTyped
<1>3. edges \in [EClass -> SUBSET Edge] /\ {"ok", "fail", "error", "assert"} = Result
  BY DEF TypeInv, Result
<1>4. ASSUME NEW c \in VClass, NEW named \in Named(IntKey) \cup Named(StrKey), UpsetVertices(c, named)
      PROVE  TypeInv'
  <2> DEFINE refused == \E k \in DOMAIN named : OtherKind(c, k)
             alone == Indexes = <<>> /\ DOMAIN named \subseteq IntKey
             done == IF refused THEN {}
                     ELSE IF alone THEN {k \in DOMAIN named : \A j \in DOMAIN named : k <= j}
                     ELSE Reached(mode, c, named)
             throws == \E k \in done : IndexFails(mode, c, named[k])
             result == IF refused \/ alone THEN "fail" ELSE IF throws THEN "error" ELSE "ok"
  <2>1. /\ WriteRows(mode, c, done, named, named) /\ Ends("upset", c, named, result) /\ edges' = edges
    BY <1>4 DEF UpsetVertices
  <2>2. done \subseteq DOMAIN named
    BY ReachedIn
  <2>3. DOMAIN named \subseteq Key /\ \A k \in DOMAIN named : named[k] \in Row
    BY NamedTyped DEF Key
  <2>4. result \in Result
    BY <1>3
  <2> HIDE DEF done, result
  <2>5. RowsTyped' /\ PostsTyped'
    BY <2>1, <2>2, <2>3, WriteRowsTyped
  <2>6. QED
    BY <1>0, <1>3, <2>1, <2>4, <2>5
<1>5. ASSUME NEW e \in EClass, NEW n \in 1..MaxNamed, NEW declared \in [1..n -> Declared],
             UpsetEdges(e, declared)
      PROVE  TypeInv'
  <2>1. /\ edges' = IF mode[e] = "ordinal" THEN edges ELSE [edges EXCEPT ![e] = @ \cup {Head(declared)}]
        /\ Ends("upset_edges", e, declared, "ok") /\ rows' = rows /\ posts' = posts
    BY <1>5 DEF UpsetEdges
  <2>2. Head(declared) \in Edge
    <3>1. n \in Nat /\ 1 \in 1..n
      BY BoundAssumption
    <3>2. declared[1] \in Declared
      BY <3>1
    <3>3. declared \in Seq(Declared) /\ Head(declared) = declared[1]
      BY <3>1
    <3>4. QED
      BY <3>2, <3>3, BoundAssumption
  <2>3. edges' \in [EClass -> SUBSET Edge]
    BY <1>3, <2>1, <2>2
  <2>4. QED
    BY <1>0, <1>1, <1>2, <1>3, <2>1, <2>3
<1>6. ASSUME NEW c \in VClass, NEW cond \in Cond, Query(c, cond)
      PROVE  TypeInv'
  <2> DEFINE result == IF ScanAsserts(c, cond) THEN "assert" ELSE "ok"
  <2>1. Ends("query", c, <<>>, result) /\ UNCHANGED <<rows, edges, posts>>
    BY <1>6 DEF Query
  <2>2. result \in Result
    BY <1>3
  <2> HIDE DEF result
  <2>3. QED
    BY <1>0, <1>1, <1>2, <1>3, <2>1, <2>2
<1>7. ASSUME NEW c \in VClass, NEW cond \in Cond, NEW a \in Attr, NEW v \in Value, UpsetWhere(c, cond, a, v)
      PROVE  TypeInv'
  <2> DEFINE opened == MadeByScan(c, cond)
             props == OneProp(a, v)
             hit == Matches(c, cond)
             new == [k \in hit |-> Merge(props, rows[c][k])]
             posted == [k \in hit |-> props]
             done == Reached(opened, c, posted)
             result == IF hit # {} /\ IndexFails(opened, c, props) THEN "error" ELSE "ok"
  <2>1. CASE ScanAsserts(c, cond)
    <3>1. Ends("upset_where", c, <<>>, "assert") /\ UNCHANGED <<rows, edges, posts>>
      BY <1>7, <2>1 DEF UpsetWhere
    <3>2. QED
      BY <1>0, <1>1, <1>2, <1>3, <3>1
  <2>2. CASE ~ScanAsserts(c, cond)
    <3>1. /\ WriteRows(opened, c, done, new, posted) /\ Ends("upset_where", c, <<>>, result)
          /\ edges' = edges
      BY <1>7, <2>2 DEF UpsetWhere, OneProp
    <3>2. done \subseteq hit
      BY ReachedIn
    <3>3. hit \subseteq DOMAIN rows[c]
      BY DEF Matches
    <3>4. \A k \in hit : new[k] \in Row /\ posted[k] \in Row
      <4> TAKE k \in hit
      <4>1. rows[c][k] \in Row
        BY <3>3 DEF TypeInv, RowsTyped
      <4>2. new[k] = Merge(props, rows[c][k]) /\ posted[k] = props
        OBVIOUS
      <4>3. Merge(props, rows[c][k]) \in Row /\ props \in Row
        BY <4>1, MergedRow
      <4> HIDE DEF new, posted, props
      <4>4. QED
        BY <4>2, <4>3
    <3>5. result \in Result
      BY <1>3
    <3> HIDE DEF opened, new, posted, done, hit, result
    <3>6. done \subseteq Key
      BY <3>2, <3>3 DEF TypeInv, RowsTyped
    <3>7. RowsTyped' /\ PostsTyped'
      BY <3>1, <3>2, <3>4, <3>6, WriteRowsTyped
    <3>8. QED
      BY <1>0, <1>3, <3>1, <3>5, <3>7
  <2>3. QED
    BY <2>1, <2>2
<1>8. ASSUME NEW c \in VClass, NEW cond \in Cond, RemoveVertices(c, cond)
      PROVE  TypeInv'
  <2> DEFINE gone == Matches(c, cond)
             at == IF gone = {} THEN {} ELSE Related(c)
  <2>1. /\ rows' = [rows EXCEPT ![c] = Without(@, gone)]
        /\ edges' = [e \in EClass |->
             IF e \in at THEN {x \in edges[e] : \A k \in gone : ~Incident(k, x)} ELSE edges[e]]
        /\ Ends("remove", c, <<>>, "ok") /\ posts' = posts
    BY <1>8 DEF RemoveVertices
  <2> HIDE DEF gone, at
  <2>2. \A d \in VClass : /\ DOMAIN rows'[d] \subseteq DOMAIN rows[d]
                          /\ \A k \in DOMAIN rows'[d] : rows'[d][k] = rows[d][k]
    BY <2>1 DEF Without, KInv
  <2>3. RowsTyped'
    BY <2>2 DEF TypeInv, RowsTyped
  <2>4. edges' \in [EClass -> SUBSET Edge]
    BY <1>3, <2>1
  <2>5. QED
    BY <1>0, <1>2, <1>3, <2>1, <2>3, <2>4
<1>9. ASSUME NEW e \in EClass, RemoveEdges(e)
      PROVE  TypeInv'
  <2>1. Ends("remove_edges", e, <<>>, "ok") /\ UNCHANGED <<rows, edges, posts>>
    BY <1>9 DEF RemoveEdges
  <2>2. QED
    BY <1>0, <1>1, <1>2, <1>3, <2>1
<1>10. CASE UNCHANGED vars
  BY <1>10 DEF vars, TypeInv, RowsTyped, PostsTyped
<1>11. QED
  BY <1>4, <1>5, <1>6, <1>7, <1>8, <1>9, <1>10 DEF Next

(* The rows, the edges, the entries of the indexes and the outcome of every  *)
(* statement stay what they are declared to be: an index never holds a value *)
(* that is none, nor names an id that is no key (upsetIndex, upsetVertex,    *)
(* GUpsetPlan, GRemovePlan).                                                 *)
THEOREM TypeCorrect == Spec => []TypeOK
<1>1. KInv /\ TypeInv => TypeOK
  BY DEF KInv, TypeInv, RowsTyped, PostsTyped, EntryTyped, TypeOK
<1>2. Spec => []KInv
  BY InitKInv, StepKeepsKInv, PTL DEF Spec
<1>3. Spec => []TypeInv
  BY <1>2, TypeInvInit, TypeInvStep, PTL DEF Spec
<1>4. QED
  BY <1>1, <1>2, <1>3, PTL

-------------------------------------------------------------------------------
(* What an upset that reports success has done. *)

\* The least of finitely many keys.
LEMMA FirstOf ==
  ASSUME NEW S, S \subseteq Int, IsFiniteSet(S), S # {}
  PROVE  \E y \in S : \A x \in S : y <= x
<1> DEFINE N == Cardinality(S)
<1>1. PICK f \in Bijection(1..N, S) : TRUE
  BY FS_CardinalityType DEF ExistsBijection
<1>2. N \in Nat /\ f \in [1..N -> S] /\ \A x \in S : \E i \in 1..N : f[i] = x
  BY <1>1, FS_CardinalityType DEF Bijection, Injection, Surjection
<1> HIDE DEF N
<1>3. N # 0
  <2>1. PICK x \in S : TRUE
    OBVIOUS
  <2>2. PICK i \in 1..N : f[i] = x
    BY <1>2
  <2>3. QED
    BY <1>2, <2>2
<1> DEFINE T == {m \in 0..N : m = 0 \/ \E y \in S : \A i \in 1..m : y <= f[i]}
<1>4. 0 \in T
  BY <1>2
<1>5. ASSUME NEW m \in 0..(N - 1), m \in T
      PROVE  m + 1 \in T
  <2>1. m + 1 \in 0..N /\ m + 1 \in 1..N /\ f[m + 1] \in S /\ m \in Nat
    BY <1>2
  <2>0. f[m + 1] \in Int
    BY <2>1
  <2>2. CASE m = 0
    <3>1. \A i \in 1..(m + 1) : i = m + 1
      BY <2>2
    <3>2. \A i \in 1..(m + 1) : f[m + 1] <= f[i]
      BY <2>0, <3>1
    <3>3. QED
      BY <2>1, <3>2
  <2>3. CASE m # 0
    <3>1. PICK y \in S : \A i \in 1..m : y <= f[i]
      BY <1>5, <2>3
    <3> DEFINE z == IF y <= f[m + 1] THEN y ELSE f[m + 1]
    <3>2. y \in Int
      OBVIOUS
    <3>3. z \in S /\ z <= y /\ z <= f[m + 1] /\ z \in Int
      BY <2>0, <2>1, <3>2
    <3> HIDE DEF z
    <3>4. ASSUME NEW i \in 1..(m + 1) PROVE z <= f[i]
      <4>1. CASE i = m + 1
        BY <3>3, <4>1
      <4>2. CASE i # m + 1
        <5>1. i \in 1..m /\ i \in 1..N
          BY <1>2, <2>1, <4>2
        <5>2. f[i] \in Int /\ y <= f[i]
          BY <1>2, <3>1, <5>1
        <5>3. QED
          BY <3>2, <3>3, <5>2
      <4>3. QED
        BY <4>1, <4>2
    <3>5. QED
      BY <2>1, <3>3, <3>4
  <2>4. QED
    BY <2>2, <2>3
<1>6. 0..N \subseteq T
  <2> HIDE DEF T
  <2>1. QED
    BY <1>2, <1>4, <1>5, UpTo
<1>7. N \in T
  <2> HIDE DEF T
  <2>1. QED
    BY <1>2, <1>6
<1>8. PICK y \in S : \A i \in 1..N : y <= f[i]
  BY <1>3, <1>7
<1>9. ASSUME NEW x \in S PROVE y <= x
  <2>1. PICK i \in 1..N : f[i] = x
    BY <1>2
  <2>2. QED
    BY <1>8, <2>1
<1>10. QED
  BY <1>9

\* A loop over the keys that meets none that throws reaches them all.
LEMMA AllReached ==
  ASSUME NEW c, NEW named, IsFiniteSet(DOMAIN named), DOMAIN named \subseteq Int,
         \A k \in Reached(mode, c, named) : ~IndexFails(mode, c, named[k])
  PROVE  Reached(mode, c, named) = DOMAIN named
<1> DEFINE bad == {k \in DOMAIN named : IndexFails(mode, c, named[k])}
<1>1. bad = {}
  <2> SUFFICES ASSUME bad # {} PROVE FALSE
    OBVIOUS
  <2>1. bad \subseteq Int /\ IsFiniteSet(bad)
    BY FS_Subset
  <2>2. PICK y \in bad : \A x \in bad : y <= x
    <3> HIDE DEF bad
    <3>1. QED
      BY <2>1, FirstOf
  <2>3. \A j \in DOMAIN named : j < y => j \notin bad
    <3> TAKE j \in DOMAIN named
    <3>1. j \in Int /\ y \in Int
      BY <2>1
    <3>2. QED
      BY <2>2, <3>1
  <2>4. y \in Reached(mode, c, named)
    BY <2>3 DEF Reached
  <2>5. QED
    BY <2>2, <2>4
<1>2. QED
  BY <1>1 DEF Reached

(* An upset of vertices that reports success has stored every vertex it      *)
(* names, as it was given: the loop neither stopped before the last key nor  *)
(* was refused one.  Only of integer keys without attributes nothing is kept *)
(* (GUpsetPlan::execute, upsetVertex, UpsetPlan.cpp, StorageEngine.cpp).     *)
THEOREM SuccessIsComplete == Spec => []SuccessStoresAll
<1>1. Init => SuccessStoresAll
  BY DEF Init, SuccessStoresAll
<1>2. KInv /\ SuccessStoresAll /\ [Next]_vars => SuccessStoresAll'
  <2> SUFFICES ASSUME KInv, SuccessStoresAll, [Next]_vars PROVE SuccessStoresAll'
    OBVIOUS
  <2>1. ASSUME NEW op, NEW c, NEW named, NEW result, Ends(op, c, named, result), op # "upset"
        PROVE  SuccessStoresAll'
    BY <2>1 DEF Ends, SuccessStoresAll
  <2>2. ASSUME NEW c \in VClass, NEW named \in Named(IntKey) \cup Named(StrKey), UpsetVertices(c, named)
        PROVE  SuccessStoresAll'
    <3> DEFINE refused == \E k \in DOMAIN named : OtherKind(c, k)
               alone == Indexes = <<>> /\ DOMAIN named \subseteq IntKey
               done == IF refused THEN {}
                       ELSE IF alone THEN {k \in DOMAIN named : \A j \in DOMAIN named : k <= j}
                       ELSE Reached(mode, c, named)
               throws == \E k \in done : IndexFails(mode, c, named[k])
               result == IF refused \/ alone THEN "fail" ELSE IF throws THEN "error" ELSE "ok"
               stored == Stored([k \in done |-> named[k]])
    <3>1. /\ WriteRows(mode, c, done, named, named)
          /\ last' = [op |-> "upset", class |-> c, named |-> named, result |-> result]
      BY <2>2 DEF UpsetVertices, Ends
    <3>2. CASE result # "ok"
      <4>1. last'.result = result
        BY <3>1
      <4>2. QED
        BY <3>2, <4>1 DEF SuccessStoresAll
    <3>3. CASE result = "ok"
      <4>1. ~refused /\ ~alone /\ ~throws
        BY <3>3
      <4>2. done = Reached(mode, c, named)
        BY <4>1
      <4>3. IsFiniteSet(DOMAIN named) /\ DOMAIN named \subseteq Int
        BY NamedTyped, KeyAssumption DEF Key
      <4>4. done = DOMAIN named
        BY <4>1, <4>2, <4>3, AllReached
      <4>5. rows' = [rows EXCEPT ![c] = Merge([k \in stored |-> named[k]], @)]
        BY <3>1, Zenon DEF WriteRows
      <4>6. \A k \in DOMAIN named : k \in StrKey \/ named[k] # <<>> => k \in stored
        <5> HIDE DEF done
        <5>1. QED
          BY <4>4 DEF Stored
      <4> HIDE DEF stored, done, result
      <4>7. \A k \in stored : k \in DOMAIN rows'[c] /\ rows'[c][k] = named[k]
        BY <4>5 DEF KInv, Merge
      <4>8. last'.class = c /\ last'.named = named
        BY <3>1
      <4>9. QED
        BY <4>6, <4>7, <4>8 DEF SuccessStoresAll
    <3>4. QED
      BY <3>2, <3>3
  <2>3. ASSUME NEW e \in EClass, NEW declared, UpsetEdges(e, declared) PROVE SuccessStoresAll'
    BY <2>1, <2>3 DEF UpsetEdges
  <2>4. ASSUME NEW c \in VClass, NEW cond \in Cond, Query(c, cond) PROVE SuccessStoresAll'
    BY <2>1, <2>4 DEF Query
  <2>5. ASSUME NEW c \in VClass, NEW cond \in Cond, NEW a \in Attr, NEW v \in Value, UpsetWhere(c, cond, a, v)
        PROVE  SuccessStoresAll'
    <3>1. \E result : Ends("upset_where", c, <<>>, result)
      BY <2>5 DEF UpsetWhere
    <3>2. QED
      BY <2>1, <3>1
  <2>6. ASSUME NEW c \in VClass, NEW cond \in Cond, RemoveVertices(c, cond) PROVE SuccessStoresAll'
    BY <2>1, <2>6 DEF RemoveVertices
  <2>7. ASSUME NEW e \in EClass, RemoveEdges(e) PROVE SuccessStoresAll'
    BY <2>1, <2>7 DEF RemoveEdges
  <2>8. CASE UNCHANGED vars
    BY <2>8 DEF vars, SuccessStoresAll
  <2>9. QED
    BY <2>2, <2>3, <2>4, <2>5, <2>6, <2>7, <2>8 DEF Next
<1>3. Spec => []KInv
  BY InitKInv, StepKeepsKInv, PTL DEF Spec
<1>4. QED
  BY <1>1, <1>2, <1>3, PTL DEF Spec

-------------------------------------------------------------------------------
(* What a removal takes along. *)

\* The vertices at the ends of an edge class that a step removes.
GoneAt(e) == UNION {DOMAIN rows[c] \ DOMAIN rows'[c] : c \in {Relation[e][1], Relation[e][2]}}

Together(e) ==
  /\ \A x \in edges[e] \ edges'[e] : {x.from, x.to} \cap GoneAt(e) # {}
  /\ \A x \in edges'[e] : {x.from, x.to} \cap GoneAt(e) \cap IntKey = {}

LEMMA NothingGone ==
  ASSUME \A c \in VClass : DOMAIN rows[c] \subseteq DOMAIN rows'[c],
         NEW e \in EClass, edges[e] \subseteq edges'[e]
  PROVE  Together(e)
<1>1. Relation[e][1] \in VClass /\ Relation[e][2] \in VClass
  BY ClassAssumption
<1>2. GoneAt(e) = {}
  BY <1>1 DEF GoneAt
<1>3. QED
  BY <1>2 DEF Together

\* Writing rows removes none.
LEMMA WriteRowsGrows ==
  ASSUME KInv, NEW c \in VClass, NEW m, NEW done, NEW new, NEW posted,
         WriteRows(m, c, done, new, posted)
  PROVE  \A d \in VClass : DOMAIN rows[d] \subseteq DOMAIN rows'[d]
<1> DEFINE stored == Stored([k \in done |-> new[k]])
<1>1. rows' = [rows EXCEPT ![c] = Merge([k \in stored |-> new[k]], @)]
  BY Zenon DEF WriteRows
<1> HIDE DEF stored
<1>2. QED
  BY <1>1 DEF KInv, Merge

(* An edge goes only with a vertex at one of its ends, whatever is upset,    *)
(* queried and removed; and of a vertex with an integer key no edge stays in *)
(* the classes that its class is an end of (removeVertex and del of          *)
(* StorageEngine.cpp, GRemovePlan::execute).                                 *)
THEOREM EdgesGoAlong == Spec => EdgesGoWithTheirVertex
<1> DEFINE A == \A e \in EClass : Together(e)
<1>1. KInv /\ TypeInv /\ [Next]_vars => A
  <2> SUFFICES ASSUME KInv, TypeInv, [Next]_vars PROVE A
    OBVIOUS
  <2>1. ASSUME NEW c \in VClass, NEW named \in Named(IntKey) \cup Named(StrKey), UpsetVertices(c, named)
        PROVE  A
    <3>1. \E done : WriteRows(mode, c, done, named, named)
      BY <2>1 DEF UpsetVertices
    <3>2. edges' = edges
      BY <2>1 DEF UpsetVertices
    <3>3. QED
      BY <3>1, <3>2, WriteRowsGrows, NothingGone
  <2>2. ASSUME NEW e \in EClass, NEW declared, UpsetEdges(e, declared)
        PROVE  A
    <3>1. /\ edges' = edges \/ edges' = [edges EXCEPT ![e] = @ \cup {Head(declared)}]
          /\ rows' = rows
      BY <2>2 DEF UpsetEdges
    <3>2. \A d \in EClass : edges[d] \subseteq edges'[d]
      BY <3>1 DEF TypeInv
    <3>3. QED
      BY <3>1, <3>2, NothingGone
  <2>3. ASSUME UNCHANGED <<rows, edges>>
        PROVE  A
    BY <2>3, NothingGone
  <2>4. ASSUME NEW c \in VClass, NEW cond \in Cond, NEW a \in Attr, NEW v \in Value, UpsetWhere(c, cond, a, v)
        PROVE  A
    <3>1. \/ UNCHANGED <<rows, edges>>
          \/ edges' = edges /\ \E m, done, new, posted : WriteRows(m, c, done, new, posted)
      BY <2>4 DEF UpsetWhere
    <3>2. QED
      BY <2>3, <3>1, WriteRowsGrows, NothingGone
  <2>5. ASSUME NEW c \in VClass, NEW cond \in Cond, RemoveVertices(c, cond)
        PROVE  A
    <3> DEFINE gone == Matches(c, cond)
               at == IF gone = {} THEN {} ELSE Related(c)
    <3>1. /\ rows' = [rows EXCEPT ![c] = Without(@, gone)]
          /\ edges' = [e \in EClass |->
               IF e \in at THEN {x \in edges[e] : \A k \in gone : ~Incident(k, x)} ELSE edges[e]]
      BY <2>5 DEF RemoveVertices
    <3>2. gone \subseteq DOMAIN rows[c]
      BY DEF Matches
    <3>3. \A e \in EClass : e \in at <=> gone # {} /\ c \in {Relation[e][1], Relation[e][2]}
      BY DEF Related
    <3> HIDE DEF gone, at
    <3>4. /\ DOMAIN rows[c] \ DOMAIN rows'[c] = gone
          /\ \A d \in VClass : d # c => DOMAIN rows[d] \ DOMAIN rows'[d] = {}
      BY <3>1, <3>2 DEF KInv, Without
    <3>5. SUFFICES ASSUME NEW e \in EClass PROVE Together(e)
      OBVIOUS
    <3>6. Relation[e][1] \in VClass /\ Relation[e][2] \in VClass
      BY ClassAssumption
    <3>7. CASE e \in at
      <4>1. GoneAt(e) = gone
        BY <3>3, <3>4, <3>6, <3>7 DEF GoneAt
      <4>2. edges'[e] = {x \in edges[e] : \A k \in gone : ~Incident(k, x)}
        BY <3>1, <3>7
      <4>3. \A x \in edges[e], k \in gone : Incident(k, x) => k \in {x.from, x.to}
        BY DEF Incident
      <4>4. \A x \in edges[e], k \in gone : k \in IntKey /\ ~Incident(k, x) => k \notin {x.from, x.to}
        BY DEF Incident
      <4>5. \A x \in edges[e] \ edges'[e] : {x.from, x.to} \cap GoneAt(e) # {}
        BY <4>1, <4>2, <4>3
      <4>6. \A x \in edges'[e] : {x.from, x.to} \cap GoneAt(e) \cap IntKey = {}
        BY <4>1, <4>2, <4>4
      <4>7. QED
        BY <4>5, <4>6 DEF Together
    <3>8. CASE e \notin at
      <4>1. edges'[e] = edges[e]
        BY <3>1, <3>8
      <4>2. GoneAt(e) = {}
        BY <3>3, <3>4, <3>6, <3>8 DEF GoneAt
      <4>3. QED
        BY <4>1, <4>2 DEF Together
    <3>9. QED
      BY <3>7, <3>8
  <2>6. ASSUME NEW c \in VClass, NEW cond \in Cond, Query(c, cond) PROVE A
    BY <2>3, <2>6 DEF Query
  <2>7. ASSUME NEW e \in EClass, RemoveEdges(e) PROVE A
    BY <2>3, <2>7 DEF RemoveEdges
  <2>8. CASE UNCHANGED vars
    BY <2>3, <2>8 DEF vars
  <2> HIDE DEF A
  <2>9. QED
    BY <2>1, <2>2, <2>4, <2>5, <2>6, <2>7, <2>8 DEF Next
<1>2. KInv /\ TypeInv /\ [Next]_vars => [A]_vars
  BY <1>1
<1>3. Spec => []KInv
  BY InitKInv, StepKeepsKInv, PTL DEF Spec
<1>4. Spec => []TypeInv
  BY <1>3, TypeInvInit, TypeInvStep, PTL DEF Spec
<1>5. Spec => [][A]_vars
  BY <1>2, <1>3, <1>4, PTL DEF Spec
<1>6. QED
  BY <1>5 DEF EdgesGoWithTheirVertex, Together, GoneAt
===============================================================================
