------------------------------ MODULE Statements ------------------------------
(***************************************************************************)
(* What the statements of the query language do to an open graph:          *)
(* src/src/plan (UpsetPlan.cpp, RemovePlan.cpp, ScanPlan.cpp) and what the *)
(* plans reach in StorageEngine.cpp.  One action is one statement, from    *)
(* the visitor that reads it to the last write.  The maps are those of one *)
(* session of StorageEngine; their key mode is the only thing kept of a    *)
(* handle.  A statement whose keys are of two kinds throws before it       *)
(* reaches the store and is left out, and so are the values whose text has *)
(* the four or eight bytes of an ordinal key.                              *)
(***************************************************************************)
EXTENDS Integers, Sequences, FiniteSets

CONSTANTS
  VClass, EClass,  (* classes of vertices and of edges, all named by create *)
  Relation,        (* edge class -> the classes of its two ends             *)
  IntKey, StrKey,  (* keys by kind, in the order of the maps                *)
  NulKey,          (* integer keys whose first byte in memory is zero       *)
  Attr, Value,     (* attributes and their values, strings                  *)
  Indexes,         (* the <<class, attribute>> pairs create named           *)
  NoAttr, Throws,  (* what a cut index name is when it is no attribute      *)
  Truncated,       (* what is left of the integer ids of a posting          *)
  Declared,        (* the edges the statements declare                      *)
  MaxNamed,        (* bound on the vertices or edges of one statement       *)
  MaxCalls         (* bound on the statements                               *)

Key == IntKey \cup StrKey
Index == DOMAIN Indexes
Map == VClass \cup EClass \cup Index
Row == UNION {[A -> Value] : A \in SUBSET Attr}
Edge == [from : Key, directed : BOOLEAN, to : Key]

ASSUME KeyAssumption == Key \subseteq Int /\ IntKey \cap StrKey = {} /\ NulKey \subseteq IntKey
ASSUME ClassAssumption ==
  /\ VClass \cap EClass = {} /\ Relation \in [EClass -> VClass \X VClass]
  /\ Indexes \in Seq(VClass \X Attr) /\ (VClass \cup EClass) \cap DOMAIN Indexes = {}
ASSUME NameAssumption ==
  NoAttr \notin Attr /\ Throws \notin Attr /\ Throws # NoAttr /\ Truncated \notin Key
ASSUME BoundAssumption == Declared \subseteq Edge /\ MaxNamed \in Nat /\ MaxCalls \in Nat

VARIABLES
  rows,     (* the vertices of each class: key -> row                       *)
  edges,    (* the edges of each class                                      *)
  posts,    (* each index: value -> the ids its entry gives back            *)
  keyType,  (* the key type in the schema                                   *)
  mode,     (* the key mode a map was made with                             *)
  cut,      (* what upsetIndex takes for the attribute of an index          *)
  last,     (* the last statement and how it ended                          *)
  clean,    (* has no statement ended in an exception?                      *)
  calls     (* bounded: the statements so far                               *)

vars == <<rows, edges, posts, keyType, mode, cut, last, clean, calls>>

KeyType == {"Uninitialize", "Integer", "Byte", "Edge"}
Mode == {"none", "usual", "ordinal"}
Result == {"ok", "fail", "error", "assert"}

Merge(new, old) ==
  [x \in DOMAIN new \cup DOMAIN old |-> IF x \in DOMAIN new THEN new[x] ELSE old[x]]

Without(f, S) == [x \in DOMAIN f \ S |-> f[x]]

\* getOrCreateHandle makes the maps that are not there in the mode asked for.
Made(m, S, how) == [n \in Map |-> IF n \in S /\ m[n] = "none" THEN how ELSE m[n]]

KeyTypeOf(k) == IF k \in IntKey THEN "Integer" ELSE "Byte"

\* Faulty variant: the key type goes where the key mode belongs.
ModeOfType(k) == KeyTypeOf(k)

ModeOf(k) == IF k \in IntKey THEN "ordinal" ELSE "usual"

\* getMapCursor takes the mode from the schema.
CursorMode(c) == IF keyType[c] = "Integer" THEN "ordinal" ELSE "usual"

Ends(op, c, named, result) ==
  /\ calls < MaxCalls /\ last.result # "assert"
  /\ last' = [op |-> op, class |-> c, named |-> named, result |-> result]
  /\ clean' = (clean /\ result \in {"ok", "fail"})
  /\ calls' = calls + 1 /\ UNCHANGED cut

-------------------------------------------------------------------------------
(* Writing rows and their index entries *)

\* substr cuts the length of the vertex's class off the name of every index,
\* its own class's or not: too short a name throws. An index map that was made
\* in ordinal mode refuses the value as its key, and the read throws.
Throwing(m, c, row, i) ==
  cut[c][i] = Throws \/ (cut[c][i] \in DOMAIN row /\ m[i] = "ordinal")

IndexFails(m, c, row) == \E i \in Index : Throwing(m, c, row, i)

\* The indexes the loop updates before one throws.
Updated(m, c, row) ==
  {i \in Index : /\ cut[c][i] \in DOMAIN row
                 /\ \A j \in Index : j <= i => ~Throwing(m, c, row, j)}

\* Faulty variant: the posting is replaced.
PostedOnly(i, v, ids) == IF ids \subseteq IntKey THEN {Truncated} ELSE ids

\* String ids are merged into the posting. Of integer ids v.size() bytes are
\* written, one for the eight of an id, and none is read back.
Posted(i, v, ids) ==
  IF ids \subseteq IntKey THEN {Truncated}
  ELSE IF v \in DOMAIN posts[i] THEN posts[i][v] \cup ids ELSE ids

\* Faulty variant: no class stores a row without attributes.
StoredWithAttributes(new) == {k \in DOMAIN new : new[k] # <<>>}

\* An integer key without attributes is accepted and not stored.
Stored(new) == {k \in DOMAIN new : k \in StrKey \/ new[k] # <<>>}

\* The keys a loop in key order reaches when it ends after one that throws.
Reached(m, c, posted) ==
  {k \in DOMAIN posted : \A j \in DOMAIN posted : j < k => ~IndexFails(m, c, posted[j])}

\* write and upsetIndex for the keys in done, with the maps made as in m: new
\* are the rows they get, posted the attributes that enter the indexes.
WriteRows(m, c, done, new, posted) ==
  LET stored == Stored([k \in done |-> new[k]])
      hits(i) == {k \in done : i \in Updated(m, c, posted[k])}
      ids(i, v) == {k \in hits(i) : posted[k][cut[c][i]] = v}
      values(i) == {posted[k][cut[c][i]] : k \in hits(i)}
      kinds == {ModeOf(k) : k \in stored}
  IN  /\ rows' = [rows EXCEPT ![c] = Merge([k \in stored |-> new[k]], @)]
      /\ posts' = [i \in Index |->
           Merge([v \in values(i) |-> Posted(i, v, ids(i, v))], posts[i])]
      /\ keyType' = [keyType EXCEPT ![c] =
           IF @ = "Uninitialize" /\ done # {} THEN KeyTypeOf(CHOOSE k \in done : TRUE) ELSE @]
      /\ mode' = Made(IF kinds = {} THEN m ELSE Made(m, {c}, CHOOSE how \in kinds : TRUE),
                      {i \in Index : hits(i) # {}}, "usual")

-------------------------------------------------------------------------------
(* Upset *)

\* Faulty variant: any key is written.
AnyKind(c, k) == FALSE

\* The key is of the kind the class does not have.
OtherKind(c, k) ==
  \/ keyType[c] = "Integer" /\ k \in StrKey
  \/ keyType[c] = "Byte" /\ k \in IntKey

Named(S) ==
  UNION {[K -> Row] : K \in {T \in SUBSET S : IsFiniteSet(T) /\ Cardinality(T) \in 1..MaxNamed}}

\* {upset: class, vertex: [...]}. Without an index in the graph a write with an
\* integer key counts as failed, and the loop ends.
UpsetVertices(c, named) ==
  LET refused == \E k \in DOMAIN named : OtherKind(c, k)
      alone == Indexes = <<>> /\ DOMAIN named \subseteq IntKey
      done == IF refused THEN {}
              ELSE IF alone THEN {k \in DOMAIN named : \A j \in DOMAIN named : k <= j}
              ELSE Reached(mode, c, named)
      throws == \E k \in done : IndexFails(mode, c, named[k])
  IN  /\ WriteRows(mode, c, done, named, named)
      /\ Ends("upset", c, named,
              IF refused \/ alone THEN "fail" ELSE IF throws THEN "error" ELSE "ok")
      /\ UNCHANGED edges

\* {upset: class, edge: [...]}: accept returns after the first declaration, and
\* the result of the write is not looked at.
UpsetEdges(e, declared) ==
  /\ edges' = IF mode[e] = "ordinal" THEN edges
              ELSE [edges EXCEPT ![e] = @ \cup {Head(declared)}]
  /\ keyType' = [keyType EXCEPT ![e] = IF @ = "Uninitialize" THEN "Edge" ELSE @]
  /\ mode' = Made(mode, {e}, "usual")
  /\ Ends("upset_edges", e, declared, "ok")
  /\ UNCHANGED <<rows, posts>>

-------------------------------------------------------------------------------
(* Conditions *)

\* A condition names a key or the value of an attribute.
Cond == [key : Key] \cup [attr : Attr, value : Value]

ByKey(cond) == "key" \in DOMAIN cond

Matches(c, cond) ==
  IF ByKey(cond) THEN {cond.key} \cap DOMAIN rows[c]
  ELSE {k \in DOMAIN rows[c] :
          cond.attr \in DOMAIN rows[c][k] /\ rows[c][k][cond.attr] = cond.value}

\* The indexes evaluate() estimates for a condition.
Considered(c, cond) ==
  IF ByKey(cond) THEN {} ELSE {i \in Index : Indexes[i] = <<c, cond.attr>>}

\* estimate: the distance of the first entry from the last one.
Cost(f) == LET n == Cardinality(DOMAIN f) IN IF n <= 1 THEN 0 ELSE n - 1

\* The class is the cheaper plan, and scan() asks for its index cursor.
ScanAsserts(c, cond) == \E i \in Considered(c, cond) : Cost(rows[c]) < Cost(posts[i])

\* The maps prepare() and scan() open: an index whose type is not Word in
\* ordinal mode, the class in the mode of its key type.
MadeByScan(c, cond) ==
  Made(Made(mode, Considered(c, cond), "ordinal"), {c}, CursorMode(c))

\* {query: class, where: cond}
Query(c, cond) ==
  /\ mode' = MadeByScan(c, cond)
  /\ Ends("query", c, <<>>, IF ScanAsserts(c, cond) THEN "assert" ELSE "ok")
  /\ UNCHANGED <<rows, edges, posts, keyType>>

\* {upset: class, property: {a: v}, where: cond}: the callback answers Stop, and
\* scan() goes on all the same.
UpsetWhere(c, cond, a, v) ==
  LET opened == MadeByScan(c, cond)
      props == [x \in {a} |-> v]
      hit == Matches(c, cond)
      new == [k \in hit |-> Merge(props, rows[c][k])]
      posted == [k \in hit |-> props]
  IN  IF ScanAsserts(c, cond)
      THEN /\ mode' = opened /\ Ends("upset_where", c, <<>>, "assert")
           /\ UNCHANGED <<rows, edges, posts, keyType>>
      ELSE /\ WriteRows(opened, c, Reached(opened, c, posted), new, posted)
           /\ Ends("upset_where", c, <<>>,
                   IF hit # {} /\ IndexFails(opened, c, props) THEN "error" ELSE "ok")
           /\ UNCHANGED edges

-------------------------------------------------------------------------------
(* Remove *)

\* Faulty variant: only the edges that start at the vertex are deleted.
IncidentFrom(k, x) == x.from = k

\* The edges del matches with a key. An integer key is compared with both ends,
\* whatever their classes. A string key is compared with the start as a C
\* string, which runs on into the other end unless that begins with a zero.
Incident(k, x) ==
  IF k \in IntKey THEN k \in {x.from, x.to} ELSE x.from = k /\ x.to \in NulKey

\* The edge classes with the class at an end.
Related(c) == {e \in EClass : c \in {Relation[e][1], Relation[e][2]}}

\* {remove: class, vertex: cond}. The index entries stay.
RemoveVertices(c, cond) ==
  LET gone == Matches(c, cond)
      at == IF gone = {} THEN {} ELSE Related(c)
  IN  /\ rows' = [rows EXCEPT ![c] = Without(@, gone)]
      /\ edges' = [e \in EClass |->
           IF e \in at THEN {x \in edges[e] : \A k \in gone : ~Incident(k, x)} ELSE edges[e]]
      /\ mode' = Made(Made(mode, {c}, CursorMode(c)), at, "ordinal")
      /\ Ends("remove", c, <<>>, "ok")
      /\ UNCHANGED <<posts, keyType>>

\* {remove: class, edge: [...]}: the visitor makes no predicate of an edge, and
\* no edge matches. {query: class} reads the same map.
RemoveEdges(e) ==
  /\ mode' = Made(mode, {e}, "usual")
  /\ Ends("remove_edges", e, <<>>, "ok")
  /\ UNCHANGED <<rows, edges, posts, keyType>>

-------------------------------------------------------------------------------
Init ==
  /\ rows = [c \in VClass |-> <<>>] /\ edges = [e \in EClass |-> {}]
  /\ posts = [i \in Index |-> <<>>]
  /\ keyType = [c \in VClass \cup EClass |-> "Uninitialize"]
  /\ mode = [n \in Map |-> "none"]
  /\ cut \in {f \in [VClass -> [Index -> Attr \cup {NoAttr, Throws}]] :
                \A i \in Index : f[Indexes[i][1]][i] = Indexes[i][2]}
  /\ last = [op |-> "create", class |-> "none", named |-> <<>>, result |-> "ok"]
  /\ clean = TRUE /\ calls = 0

Next ==
  \/ \E c \in VClass, named \in Named(IntKey) \cup Named(StrKey) : UpsetVertices(c, named)
  \/ \E e \in EClass, n \in 1..MaxNamed : \E declared \in [1..n -> Declared] :
       UpsetEdges(e, declared)
  \/ \E c \in VClass, cond \in Cond : Query(c, cond)
  \/ \E c \in VClass, cond \in Cond, a \in Attr, v \in Value : UpsetWhere(c, cond, a, v)
  \/ \E c \in VClass, cond \in Cond : RemoveVertices(c, cond)
  \/ \E e \in EClass : RemoveEdges(e)

Spec == Init /\ [][Next]_vars

-------------------------------------------------------------------------------
(* Properties *)

\* Every variable has its type: the rows, edges and postings the plans write, the
\* key types and modes they make, the outcome of the last statement.
TypeOK ==
  /\ \A c \in VClass : DOMAIN rows[c] \subseteq Key /\ \A k \in DOMAIN rows[c] : rows[c][k] \in Row
  /\ edges \in [EClass -> SUBSET Edge]
  /\ \A i \in Index : /\ DOMAIN posts[i] \subseteq Value
                      /\ \A v \in DOMAIN posts[i] : posts[i][v] \subseteq Key \cup {Truncated}
  /\ keyType \in [VClass \cup EClass -> KeyType] /\ mode \in [Map -> Mode]
  /\ cut \in [VClass -> [Index -> Attr \cup {NoAttr, Throws}]]
  /\ last.result \in Result /\ clean \in BOOLEAN /\ calls \in 0..MaxCalls

\* The rows of a class have keys of the one kind its schema names, and a map
\* made for ordinal keys holds no other, so that getKey reads back in a scan
\* the key that write stored.
KeysOfOneKind ==
  \A c \in VClass :
    /\ DOMAIN rows[c] \subseteq CASE keyType[c] = "Integer" -> IntKey
                                  [] keyType[c] = "Byte" -> StrKey
                                  [] OTHER -> {}
    /\ mode[c] = "ordinal" => keyType[c] = "Integer"

\* No other class is mistaken for the one an index is on.
OwnIndexes == \A c \in VClass, i \in Index : cut[c][i] \in Attr => Indexes[i][1] = c

\* While no statement has ended in an exception, the entry an index has for a
\* value names every string key whose row has the value, whatever rows were
\* replaced, merged and removed.
PostingsComplete ==
  clean /\ OwnIndexes =>
    \A i \in Index : LET c == Indexes[i][1]  a == Indexes[i][2] IN
      \A k \in DOMAIN rows[c] \cap StrKey :
        a \in DOMAIN rows[c][k] =>
          /\ rows[c][k][a] \in DOMAIN posts[i]
          /\ k \in posts[i][rows[c][k][a]]

\* An upset of vertices that reports success has stored each of them as given,
\* but for integer keys without attributes.
SuccessStoresAll ==
  last.op = "upset" /\ last.result = "ok" =>
    \A k \in DOMAIN last.named :
      k \in StrKey \/ last.named[k] # <<>> =>
        k \in DOMAIN rows[last.class] /\ rows[last.class][k] = last.named[k]

\* An edge goes only when a vertex at one of its ends goes, and of an integer
\* key that goes no edge of the class's relations stays.
EdgesGoWithTheirVertex ==
  [][\A e \in EClass :
       LET gone == UNION {DOMAIN rows[c] \ DOMAIN rows'[c] :
                            c \in {Relation[e][1], Relation[e][2]}}
       IN  /\ \A x \in edges[e] \ edges'[e] : {x.from, x.to} \cap gone # {}
           /\ \A x \in edges'[e] : {x.from, x.to} \cap gone \cap IntKey = {}]_vars

\* No assertion of the store fails in a statement: getIndexCursor asserts that
\* it is asked for an index.
NoAssertionFails == OwnIndexes => last.result # "assert"

===============================================================================
