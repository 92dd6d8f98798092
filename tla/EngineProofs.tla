----------------------------- MODULE EngineProofs ------------------------------
(***************************************************************************)
(* What the storage engine keeps for any names, keys, values and limits:   *)
(* the types of its state, the numbers of attributes, and, of an engine    *)
(* object that opens one graph, that no call reaches another map than the  *)
(* one it names and that its sessions implement GraphStore.  Then, of the  *)
(* plans over it, what a text that ends with a creation leaves, for all    *)
(* texts, any number of groups, indexes and graphs, and a process that may *)
(* end between any two calls, and that rows once accepted stay.            *)
(***************************************************************************)
EXTENDS Engine, TLAPS

\* A cache h of slots s: every handle in it is the slot of its name.
CacheOK(h, s) ==
  /\ s \in Seq(Name)
  /\ h = [n \in DOMAIN h |-> h[n]] /\ DOMAIN h \subseteq Name
  /\ \A n \in DOMAIN h : h[n] # Null => h[n] \in DOMAIN s /\ s[h[n]] = n

IInv ==
  /\ CacheOK(handles, slots)
  /\ opened = NoGraph => handles = EmptyMap

-------------------------------------------------------------------------------
LEMMA EmptyCache == \A s \in Seq(Name) : CacheOK(EmptyMap, s)
BY DEF CacheOK, EmptyMap

LEMMA HandleKeepsCache ==
  ASSUME NEW n \in Name, NEW ordinal, CacheOK(handles, slots)
  PROVE  CacheOK(Handle(n, ordinal).h, Handle(n, ordinal).s)
<1> DEFINE o == Handle(n, ordinal)
<1>1. CASE n \in DOMAIN handles
  <2>1. o.h = handles /\ o.s = slots BY <1>1 DEF Handle
  <2> QED BY <2>1
<1>2. CASE n \notin DOMAIN handles /\ ~CanOpen(n)
  <2>1. o.h = Put(handles, n, Null) /\ o.s = slots BY <1>2 DEF Handle
  <2> QED BY <2>1 DEF CacheOK, Put
<1>3. CASE n \notin DOMAIN handles /\ CanOpen(n)
  <2> DEFINE h == Put(handles, n, Len(slots) + 1)
             s == Append(slots, n)
  <2>1. o.h = h /\ o.s = s BY <1>3 DEF Handle
  <2>2. slots \in Seq(Name) BY DEF CacheOK
  <2>3. s \in Seq(Name) /\ Len(s) = Len(slots) + 1 /\ s[Len(slots) + 1] = n
    BY <2>2
  <2>4. \A i \in DOMAIN slots : i \in DOMAIN s /\ s[i] = slots[i]
    BY <2>2
  <2>5. Len(slots) + 1 \in DOMAIN s BY <2>2, <2>3
  <2>6. DOMAIN h = DOMAIN handles \cup {n} /\ h = [x \in DOMAIN h |-> h[x]]
    BY DEF Put
  <2>7. ASSUME NEW x \in DOMAIN h, h[x] # Null
        PROVE  h[x] \in DOMAIN s /\ s[h[x]] = x
    <3>1. CASE x = n
      <4>1. h[x] = Len(slots) + 1 BY <3>1 DEF Put
      <4> QED BY <2>3, <2>5, <3>1, <4>1
    <3>2. CASE x # n
      <4>1. x \in DOMAIN handles /\ h[x] = handles[x] BY <2>6, <3>2 DEF Put
      <4> QED BY <2>4, <2>7, <4>1 DEF CacheOK
    <3> QED BY <3>1, <3>2
  <2> HIDE DEF h, s
  <2> QED BY <2>1, <2>3, <2>6, <2>7 DEF CacheOK
<1> QED BY <1>1, <1>2, <1>3

LEMMA InitHolds == Init => IInv
<1> SUFFICES ASSUME Init PROVE IInv OBVIOUS
<1>1. slots = <<>> /\ handles = EmptyMap BY DEF Init
<1>2. <<>> \in Seq(Name) OBVIOUS
<1> QED BY <1>1, <1>2, EmptyCache DEF IInv

Asks(n) == Uses(Handle(n, TRUE)) \/ Uses(Handle(n, FALSE))

\* A call leaves the cache alone, or it asks for one handle.
LEMMA CallUses ==
  ASSUME Call
  PROVE  /\ opened # NoGraph /\ UNCHANGED opened
         /\ \/ UNCHANGED <<slots, handles>>
            \/ \E n \in Name : Asks(n)
<1>1. ASSUME NEW n \in ClassName, NEW t, AddMap(n, t)
      PROVE  opened # NoGraph /\ UNCHANGED <<opened, slots, handles>>
  BY <1>1 DEF AddMap
<1>2. ASSUME NEW n \in IndexName, AddIndex(n) \/ \E t \in {"Number", "Word", "Vector"} : UpdateIndexType(n, t)
      PROVE  opened # NoGraph /\ UNCHANGED <<opened, slots, handles>>
  BY <1>2 DEF AddIndex, UpdateIndexType
<1>3. ASSUME NEW n \in Name, NEW k \in Key, NEW v, Write(n, k, v)
      PROVE  opened # NoGraph /\ UNCHANGED opened /\ Uses(Handle(n, k \in IntKey))
  BY <1>3 DEF Write, Store
<1>4. ASSUME NEW n \in Name, NEW k \in Key, NEW a, NEW v, WriteJson(n, k, a, v)
      PROVE  /\ opened # NoGraph /\ UNCHANGED opened
             /\ UNCHANGED <<slots, handles>> \/ Uses(Handle(n, k \in IntKey))
  <2> DEFINE s == Classed(Touched(schema, n, k), n)
  <2> HIDE DEF s
  <2>1. /\ opened # NoGraph
        /\ \/ Store(Handle(n, k \in IntKey), n, k, v)
           \/ UNCHANGED <<disk, opened, mode, maps, slots, handles, groups>>
    BY <1>4 DEF WriteJson, s
  <2> QED BY <2>1 DEF Store
<1>5. ASSUME NEW n \in Name, NEW k \in Key, NEW v, WriteEmptyJson(n, k, v)
      PROVE  /\ opened # NoGraph /\ UNCHANGED opened
             /\ UNCHANGED <<slots, handles>> \/ Uses(Handle(n, FALSE))
  BY <1>5 DEF WriteEmptyJson, Store
<1>6. ASSUME NEW n \in Name, NEW k \in Key, Read(n, k) \/ Del(n, k)
      PROVE  opened # NoGraph /\ UNCHANGED opened /\ Uses(Handle(n, k \in IntKey))
  BY <1>6 DEF Read, Del
<1>7. ASSUME NEW n \in Name, Cursor(n)
      PROVE  /\ opened # NoGraph /\ UNCHANGED opened
             /\ Asks(n)
  <2>1. PICK ordinal \in BOOLEAN : Uses(Handle(n, ordinal)) BY <1>7 DEF Cursor
  <2>2. CASE ordinal = TRUE BY <1>7, <2>1, <2>2 DEF Cursor, Asks
  <2>3. CASE ordinal = FALSE BY <1>7, <2>1, <2>3 DEF Cursor, Asks
  <2> QED BY <2>2, <2>3
<1>8. \A n, k : Uses(Handle(n, k \in IntKey)) => Asks(n)
  <2> SUFFICES ASSUME NEW n, NEW k, Uses(Handle(n, k \in IntKey)) PROVE Asks(n)
    OBVIOUS
  <2>1. CASE k \in IntKey
    <3>1. (k \in IntKey) = TRUE BY <2>1
    <3> QED BY <3>1 DEF Asks
  <2>2. CASE k \notin IntKey
    <3>1. (k \in IntKey) = FALSE BY <2>2
    <3> QED BY <3>1 DEF Asks
  <2> QED BY <2>1, <2>2
<1>9. CASE \E n \in ClassName, t \in {"Uninitialize", "Integer", "Byte"} : AddMap(n, t)
  BY <1>1, <1>9
<1>10. CASE \E n \in IndexName :
             AddIndex(n) \/ \E t \in {"Number", "Word", "Vector"} : UpdateIndexType(n, t)
  BY <1>2, <1>10
<1>11. ASSUME NEW n \in Name, NEW k \in Key,
              \/ \E v \in Value : Write(n, k, v)
              \/ \E v \in Value \ {Empty} :
                   WriteEmptyJson(n, k, v) \/ \E a \in Attr : WriteJson(n, k, a, v)
              \/ Read(n, k) \/ Del(n, k)
       PROVE  /\ opened # NoGraph /\ UNCHANGED opened
              /\ UNCHANGED <<slots, handles>> \/ Asks(n)
  <2>1. CASE \E v \in Value : Write(n, k, v) BY <1>3, <1>8, <2>1
  <2>2. CASE \E v \in Value \ {Empty} : WriteEmptyJson(n, k, v) BY <1>5, <2>2 DEF Asks
  <2>3. CASE \E v \in Value \ {Empty}, a \in Attr : WriteJson(n, k, a, v)
    BY <1>4, <1>8, <2>3
  <2>4. CASE Read(n, k) \/ Del(n, k) BY <1>6, <1>8, <2>4
  <2> QED BY <1>11, <2>1, <2>2, <2>3, <2>4
<1>12. CASE \E n \in Name : Cursor(n) BY <1>7, <1>12
<1>13. CASE \E n \in Name, k \in Key :
              \/ \E v \in Value : Write(n, k, v)
              \/ \E v \in Value \ {Empty} :
                   WriteEmptyJson(n, k, v) \/ \E a \in Attr : WriteJson(n, k, a, v)
              \/ Read(n, k) \/ Del(n, k)
  BY <1>11, <1>13
<1> QED BY <1>9, <1>10, <1>12, <1>13 DEF Call

LEMMA StepKeeps ==
  ASSUME ~Reuse, IInv, [Next]_vars
  PROVE  IInv'
<1>1. CASE UNCHANGED vars BY <1>1 DEF vars, IInv, CacheOK
<1>2. CASE Call
  <2>1. opened # NoGraph /\ UNCHANGED opened BY <1>2, CallUses
  <2>2. CASE UNCHANGED <<slots, handles>> BY <2>1, <2>2 DEF IInv, CacheOK
  <2>3. ASSUME NEW n \in Name, Asks(n)
        PROVE  CacheOK(handles', slots')
    <3>1. /\ CacheOK(Handle(n, TRUE).h, Handle(n, TRUE).s)
          /\ CacheOK(Handle(n, FALSE).h, Handle(n, FALSE).s)
      BY HandleKeepsCache DEF IInv
    <3>2. \/ handles' = Handle(n, TRUE).h /\ slots' = Handle(n, TRUE).s
          \/ handles' = Handle(n, FALSE).h /\ slots' = Handle(n, FALSE).s
      BY <2>3 DEF Uses, Asks
    <3> QED BY <3>1, <3>2
  <2> QED BY <1>2, <2>1, <2>2, <2>3, CallUses DEF IInv, CacheOK
<1>3. CASE OpenSome
  <2>1. slots' = <<>> /\ handles' = handles /\ handles = EmptyMap
    BY <1>3 DEF OpenSome, Open, IInv
  <2>2. <<>> \in Seq(Name) OBVIOUS
  <2> QED BY <2>1, <2>2, EmptyCache DEF IInv, CacheOK
<1>4. CASE Close \/ CloseFails \/ Crash
  <2>1. slots' = <<>> /\ handles' = EmptyMap
    BY <1>4 DEF Close, CloseFails, Crash, Ends, Remembers
  <2>2. <<>> \in Seq(Name) OBVIOUS
  <2> QED BY <2>1, <2>2, EmptyCache DEF IInv, CacheOK
<1> QED BY <1>1, <1>2, <1>3, <1>4 DEF Next

(* Every cached handle reaches the map of its name as long as the engine is  *)
(* opened once: the cache and the environment then live and die together     *)
(* (StorageEngine.cpp:189-213, 414-425).                                     *)
THEOREM HandlesReach ==
  ASSUME ~Reuse
  PROVE  Spec => []HandlesReachTheirMap
<1>1. Init => IInv BY InitHolds
<1>2. IInv /\ [Next]_vars => IInv' BY StepKeeps
<1>3. IInv => HandlesReachTheirMap BY DEF IInv, CacheOK, HandlesReachTheirMap
<1> QED BY <1>1, <1>2, <1>3, PTL DEF Spec

-------------------------------------------------------------------------------
(* Types, and the numbers of attributes. *)

Rows == UNION {[K -> Value] : K \in SUBSET Key}

MapsTyped(m) ==
  DOMAIN m \subseteq Name /\ m \in [DOMAIN m -> [ordinal : BOOLEAN, data : Rows]]

SchemaTyped(s) ==
  /\ s = [cls |-> s.cls, idx |-> s.idx]
  /\ DOMAIN s.cls \subseteq Name /\ s.cls \in [DOMAIN s.cls -> Entries]
  /\ DOMAIN s.idx \subseteq IndexName /\ s.idx \in [DOMAIN s.idx -> IndexType]

CacheTyped(h, s) ==
  s \in Seq(Name) /\ DOMAIN h \subseteq Name /\ h \in [DOMAIN h -> Nat]

\* AttributesNumbered of any schema.
Numbered(s) ==
  \A n \in DOMAIN s.cls :
    LET a == s.cls[n].attrs
    IN  Len(a) <= MaxAttrs /\ \A i, j \in DOMAIN a : a[i] = a[j] => i = j

\* What is saved is typed as what is in memory is.
SavedTyped ==
  /\ disk = [g \in Graph |-> [saved |-> disk[g].saved, maps |-> disk[g].maps,
                              schema |-> disk[g].schema]]
  /\ \A g \in Graph : /\ MapsTyped(disk[g].maps)
                      /\ SchemaTyped(disk[g].schema) /\ Numbered(disk[g].schema)

TInv ==
  /\ SavedTyped
  /\ opened \in Graph \cup {NoGraph} /\ mode \in {"read_only", "read_write"}
  /\ MapsTyped(maps) /\ CacheTyped(handles, slots)
  /\ SchemaTyped(schema) /\ Numbered(schema)
  /\ groups \subseteq ClassName

LEMMA EmptyTyped ==
  /\ MapsTyped(EmptyMap) /\ CacheTyped(EmptyMap, <<>>)
  /\ SchemaTyped(NoSchema) /\ Numbered(NoSchema)
<1>1. EmptyMap = [x \in {} |-> Null] /\ DOMAIN EmptyMap = {} BY DEF EmptyMap
<1>2. <<>> \in Seq(Name) OBVIOUS
<1>3. MapsTyped(EmptyMap) BY <1>1 DEF MapsTyped
<1>4. CacheTyped(EmptyMap, <<>>) BY <1>1, <1>2 DEF CacheTyped
<1>5. NoSchema = [cls |-> EmptyMap, idx |-> EmptyMap] /\ NoSchema.cls = EmptyMap
      /\ NoSchema.idx = EmptyMap
  BY DEF NoSchema
<1>6. SchemaTyped(NoSchema) BY <1>1, <1>5 DEF SchemaTyped
<1>7. Numbered(NoSchema) BY <1>1, <1>5 DEF Numbered
<1> QED BY <1>3, <1>4, <1>6, <1>7

LEMMA RowsPut ==
  ASSUME NEW d \in Rows, NEW k \in Key, NEW v \in Value
  PROVE  Put(d, k, v) \in Rows
<1>1. PICK K \in SUBSET Key : d \in [K -> Value] BY DEF Rows
<1>2. K \cup {k} \in SUBSET Key BY <1>1
<1>3. Put(d, k, v) \in [K \cup {k} -> Value] BY <1>1 DEF Put
<1> QED BY <1>2, <1>3 DEF Rows

LEMMA RowsRemove ==
  ASSUME NEW d \in Rows, NEW k
  PROVE  Remove(d, k) \in Rows
<1>1. PICK K \in SUBSET Key : d \in [K -> Value] BY DEF Rows
<1>2. K \ {k} \in SUBSET Key BY <1>1
<1>3. Remove(d, k) \in [K \ {k} -> Value] BY <1>1 DEF Remove
<1> QED BY <1>2, <1>3 DEF Rows

LEMMA DataTyped ==
  ASSUME NEW m, MapsTyped(m), NEW t, NEW d, t \in DOMAIN m => d \in Rows
  PROVE  LET m2 == [m EXCEPT ![t].data = d] IN
         /\ MapsTyped(m2) /\ DOMAIN m2 = DOMAIN m
         /\ \A x \in DOMAIN m : x # t => m2[x] = m[x]
         /\ t \in DOMAIN m => m2[t].data = d
BY DEF MapsTyped

LEMMA HandleTyped ==
  ASSUME NEW n \in Name, NEW ordinal \in BOOLEAN, MapsTyped(maps), CacheTyped(handles, slots)
  PROVE  LET o == Handle(n, ordinal) IN MapsTyped(o.m) /\ CacheTyped(o.h, o.s)
<1> DEFINE o == Handle(n, ordinal)
<1>1. CASE n \in DOMAIN handles
  <2>1. o.h = handles /\ o.s = slots /\ o.m = maps BY <1>1 DEF Handle
  <2> QED BY <2>1
<1>2. CASE n \notin DOMAIN handles /\ ~CanOpen(n)
  <2>1. o.h = Put(handles, n, Null) /\ o.s = slots /\ o.m = maps BY <1>2 DEF Handle
  <2> QED BY <2>1 DEF CacheTyped, Put, Null
<1>3. CASE n \notin DOMAIN handles /\ CanOpen(n)
  <2> DEFINE e == [ordinal |-> ordinal, data |-> EmptyMap]
             m == Put(maps, n, e)
  <2>1. o.h = Put(handles, n, Len(slots) + 1) /\ o.s = Append(slots, n)
        /\ o.m = IF n \in DOMAIN maps THEN maps ELSE m
    BY <1>3 DEF Handle
  <2>2. Len(slots) + 1 \in Nat /\ Append(slots, n) \in Seq(Name) BY DEF CacheTyped
  <2>3. CacheTyped(o.h, o.s)
    <3> DEFINE h == Put(handles, n, Len(slots) + 1)
    <3>1. DOMAIN h = DOMAIN handles \cup {n} /\ h \in [DOMAIN h -> Nat]
      BY <2>2 DEF Put, CacheTyped
    <3> QED BY <2>1, <2>2, <3>1 DEF CacheTyped
  <2>4. MapsTyped(m)
    <3>1. EmptyMap \in [{} -> Value] BY DEF EmptyMap
    <3>2. e \in [ordinal : BOOLEAN, data : Rows] BY <3>1 DEF Rows
    <3> QED BY <3>2 DEF MapsTyped, Put
  <2> QED BY <2>1, <2>3, <2>4
<1> QED BY <1>1, <1>2, <1>3

LEMMA StoreTyped ==
  ASSUME NEW n \in Name, NEW k \in Key, NEW v \in Value, NEW ordinal \in BOOLEAN,
         MapsTyped(maps), CacheTyped(handles, slots), Store(Handle(n, ordinal), n, k, v)
  PROVE  /\ MapsTyped(maps') /\ CacheTyped(handles', slots')
         /\ UNCHANGED <<disk, opened, mode, groups>>
<1> DEFINE o == Handle(n, ordinal)
           t == Target(o, n)
           d == Put(o.m[t].data, k, v)
<1>1. handles' = o.h /\ slots' = o.s /\ UNCHANGED <<disk, opened, mode, groups>>
  BY DEF Store, Uses
<1>2. maps' = [o.m EXCEPT ![t].data = d] \/ maps' = o.m
  BY DEF Store
<1>3. MapsTyped(o.m) /\ CacheTyped(o.h, o.s) BY HandleTyped
<1>4. t \in DOMAIN o.m => d \in Rows
  <2>1. t \in DOMAIN o.m => o.m[t].data \in Rows BY <1>3 DEF MapsTyped
  <2> QED BY <2>1, RowsPut
<1> HIDE DEF o, t, d
<1>5. MapsTyped([o.m EXCEPT ![t].data = d]) BY <1>3, <1>4, DataTyped
<1> QED BY <1>1, <1>2, <1>3, <1>5

LEMMA TouchedTyped ==
  ASSUME NEW s, SchemaTyped(s), Numbered(s), NEW n, NEW k
  PROVE  SchemaTyped(Touched(s, n, k)) /\ Numbered(Touched(s, n, k))
<1>1. ASSUME n \in DOMAIN s.cls, NEW t \in KeyType
      PROVE  LET r == [s EXCEPT !.cls[n].key = t] IN SchemaTyped(r) /\ Numbered(r)
  <2> DEFINE r == [s EXCEPT !.cls[n].key = t]
  <2>1. r = [cls |-> [s.cls EXCEPT ![n].key = t], idx |-> s.idx]
    BY DEF SchemaTyped
  <2> HIDE DEF r
  <2>2. r.cls = [s.cls EXCEPT ![n].key = t] /\ r.idx = s.idx BY <2>1
  <2>3. s.cls \in [DOMAIN s.cls -> Entries] BY DEF SchemaTyped
  <2>4. r.cls \in [DOMAIN s.cls -> Entries] BY <1>1, <2>2, <2>3 DEF Entries
  <2>5. \A x \in DOMAIN r.cls : x \in DOMAIN s.cls /\ r.cls[x].attrs = s.cls[x].attrs
    BY <2>2, <2>3 DEF Entries
  <2>6. SchemaTyped(r) BY <2>1, <2>2, <2>4 DEF SchemaTyped
  <2>7. Numbered(r) BY <2>5 DEF Numbered
  <2> QED BY <2>6, <2>7 DEF r
<1>2. ASSUME n \in DOMAIN s.idx, NEW t \in IndexType
      PROVE  LET r == [s EXCEPT !.idx[n] = t] IN SchemaTyped(r) /\ Numbered(r)
  <2> DEFINE r == [s EXCEPT !.idx[n] = t]
  <2>1. r = [cls |-> s.cls, idx |-> [s.idx EXCEPT ![n] = t]] BY DEF SchemaTyped
  <2> HIDE DEF r
  <2>2. r.cls = s.cls /\ r.idx = [s.idx EXCEPT ![n] = t] BY <2>1
  <2>3. SchemaTyped(r) BY <2>1, <2>2 DEF SchemaTyped
  <2>4. Numbered(r) BY <2>2 DEF Numbered
  <2> QED BY <2>3, <2>4 DEF r
<1>3. "Integer" \in KeyType /\ "Byte" \in KeyType /\ "Number" \in IndexType /\ "Word" \in IndexType
  BY DEF KeyType, IndexType
<1> QED BY <1>1, <1>2, <1>3 DEF Touched

\* A class that is new to the schema enters with no attributes.
LEMMA ClassPut ==
  ASSUME NEW s, SchemaTyped(s), Numbered(s), NEW n \in Name, NEW t \in KeyType
  PROVE  LET r == [s EXCEPT !.cls = Put(@, n, [key |-> t, attrs |-> <<>>])] IN
         SchemaTyped(r) /\ Numbered(r) /\ n \in DOMAIN r.cls
<1> DEFINE e == [key |-> t, attrs |-> <<>>]
           r == [s EXCEPT !.cls = Put(@, n, e)]
<1>1. r = [cls |-> Put(s.cls, n, e), idx |-> s.idx] BY DEF SchemaTyped
<1>2. <<>> \in Seq(Attr) OBVIOUS
<1>3. e \in Entries /\ e.attrs = <<>> BY <1>2 DEF Entries
<1> HIDE DEF r, e
<1>4. r.cls = Put(s.cls, n, e) /\ r.idx = s.idx BY <1>1
<1>5. DOMAIN r.cls = DOMAIN s.cls \cup {n} /\ r.cls[n] = e /\ r.cls = [x \in DOMAIN r.cls |-> r.cls[x]]
      /\ \A x \in DOMAIN s.cls : x # n => r.cls[x] = s.cls[x]
  BY <1>4 DEF Put
<1>6. s.cls \in [DOMAIN s.cls -> Entries] /\ DOMAIN s.cls \subseteq Name BY DEF SchemaTyped
<1>7. \A x \in DOMAIN r.cls : r.cls[x] \in Entries BY <1>3, <1>5, <1>6
<1>8. r.cls \in [DOMAIN r.cls -> Entries] BY <1>5, <1>7
<1>9. SchemaTyped(r) BY <1>1, <1>4, <1>5, <1>6, <1>8 DEF SchemaTyped
<1>10. Numbered(r)
  <2>1. ASSUME NEW x \in DOMAIN r.cls
        PROVE  LET a == r.cls[x].attrs
               IN  Len(a) <= MaxAttrs /\ \A i, j \in DOMAIN a : a[i] = a[j] => i = j
    <3>1. CASE x = n
      <4>1. r.cls[x].attrs = <<>> BY <1>3, <1>5, <3>1
      <4> QED BY <4>1, LimitAssumption
    <3>2. CASE x # n BY <1>5, <3>2 DEF Numbered
    <3> QED BY <3>1, <3>2
  <2> QED BY <2>1 DEF Numbered
<1> QED BY <1>5, <1>9, <1>10 DEF r, e

LEMMA ClassedTyped ==
  ASSUME NEW s, SchemaTyped(s), Numbered(s), NEW n \in Name
  PROVE  SchemaTyped(Classed(s, n)) /\ Numbered(Classed(s, n)) /\ n \in DOMAIN Classed(s, n).cls
<1>1. "null" \in KeyType BY DEF KeyType
<1> QED BY <1>1, ClassPut DEF Classed

\* An attribute that is new to its class takes the next number.
LEMMA AttributeTyped ==
  ASSUME NEW s, SchemaTyped(s), Numbered(s), NEW n \in DOMAIN s.cls, NEW a \in Attr,
         a \notin Known(s, n), Len(s.cls[n].attrs) # MaxAttrs
  PROVE  LET r == [s EXCEPT !.cls[n].attrs = Append(@, a)] IN SchemaTyped(r) /\ Numbered(r)
<1> DEFINE l == s.cls[n].attrs
           l2 == Append(l, a)
           r == [s EXCEPT !.cls[n].attrs = Append(@, a)]
<1>1. r = [cls |-> [s.cls EXCEPT ![n].attrs = l2], idx |-> s.idx]
  <2>1. s = [cls |-> s.cls, idx |-> s.idx] BY DEF SchemaTyped
  <2>2. r = [s EXCEPT !.cls = [s.cls EXCEPT ![n].attrs = Append(@, a)]] BY <2>1
  <2>3. [s.cls EXCEPT ![n].attrs = Append(@, a)] = [s.cls EXCEPT ![n].attrs = l2] OBVIOUS
  <2> HIDE DEF r, l, l2
  <2> QED BY <2>1, <2>2, <2>3
<1>2. s.cls \in [DOMAIN s.cls -> Entries] BY DEF SchemaTyped
<1>3. l \in Seq(Attr) BY <1>2 DEF Entries
<1>4. /\ l2 \in Seq(Attr) /\ Len(l2) = Len(l) + 1 /\ l2[Len(l) + 1] = a
      /\ DOMAIN l2 = DOMAIN l \cup {Len(l) + 1} /\ \A i \in DOMAIN l : l2[i] = l[i]
  BY <1>3
<1>5. Len(l) <= MaxAttrs /\ \A i, j \in DOMAIN l : l[i] = l[j] => i = j BY DEF Numbered
<1>6. \A i \in DOMAIN l : l[i] # a BY DEF Known
<1> HIDE DEF l, l2, r
<1>7. Len(l) # MaxAttrs BY DEF l
<1>8. Len(l2) <= MaxAttrs BY <1>3, <1>4, <1>5, <1>7, LimitAssumption
<1>9. \A i, j \in DOMAIN l2 : l2[i] = l2[j] => i = j BY <1>4, <1>5, <1>6
<1>10. r.cls = [s.cls EXCEPT ![n].attrs = l2] /\ r.idx = s.idx BY <1>1
<1>11. r.cls \in [DOMAIN s.cls -> Entries]
  <2>1. n \in DOMAIN s.cls /\ s.cls[n] \in Entries BY <1>2
  <2>2. [s.cls[n] EXCEPT !.attrs = l2] \in Entries BY <1>4, <2>1 DEF Entries
  <2>3. r.cls = [s.cls EXCEPT ![n] = [s.cls[n] EXCEPT !.attrs = l2]] BY <1>10
  <2> HIDE DEF r, l2
  <2> QED BY <1>2, <2>1, <2>2, <2>3
<1>12. r.cls[n].attrs = l2 /\ \A x \in DOMAIN r.cls : x # n => r.cls[x] = s.cls[x]
  BY <1>2, <1>10 DEF Entries
<1>13. SchemaTyped(r) BY <1>1, <1>10, <1>11 DEF SchemaTyped
<1>14. Numbered(r) BY <1>8, <1>9, <1>11, <1>12 DEF Numbered
<1> QED BY <1>13, <1>14 DEF r, l2, l

LEMMA InitTyped == Init => TInv
<1> SUFFICES ASSUME Init PROVE TInv OBVIOUS
<1>1. disk = [g \in Graph |-> [saved |-> FALSE, maps |-> EmptyMap, schema |-> NoSchema]]
  BY DEF Init
<1>2. \A g \in Graph : disk[g].maps = EmptyMap /\ disk[g].schema = NoSchema /\ disk[g].saved = FALSE
  BY <1>1
<1>3. disk = [g \in Graph |-> [saved |-> disk[g].saved, maps |-> disk[g].maps,
                              schema |-> disk[g].schema]]
  BY <1>1
<1>4. SavedTyped BY <1>2, <1>3, EmptyTyped DEF SavedTyped
<1> QED BY <1>4, EmptyTyped DEF Init, TInv

\* What a call leaves as it was, and what it must keep.
Kept ==
  /\ UNCHANGED <<disk, opened, mode>>
  /\ MapsTyped(maps') /\ CacheTyped(handles', slots')
  /\ SchemaTyped(schema') /\ Numbered(schema')
  /\ groups' \subseteq ClassName

LEMMA KeptTyped == ASSUME TInv, Kept PROVE TInv'
BY DEF TInv, Kept, SavedTyped

LEMMA SchemaCalls ==
  ASSUME TInv
  PROVE  /\ \A n \in ClassName, t \in {"Uninitialize", "Integer", "Byte"} : AddMap(n, t) => Kept
         /\ \A n \in IndexName : AddIndex(n) => Kept
         /\ \A n \in IndexName, t \in {"Number", "Word", "Vector"} : UpdateIndexType(n, t) => Kept
<1>1. ASSUME NEW n \in ClassName, NEW t \in {"Uninitialize", "Integer", "Byte"}, AddMap(n, t)
      PROVE  Kept
  <2>1. n \in Name /\ t \in KeyType BY DEF Name, KeyType
  <2>2. SchemaTyped(schema') /\ Numbered(schema')
    <3>1. CASE n \in DOMAIN schema.cls BY <1>1, <3>1 DEF AddMap, TInv
    <3>2. CASE n \notin DOMAIN schema.cls
      <4>1. schema' = [schema EXCEPT !.cls = Put(@, n, [key |-> t, attrs |-> <<>>])]
        BY <1>1, <3>2 DEF AddMap
      <4>2. SchemaTyped(schema) /\ Numbered(schema) BY DEF TInv
      <4> QED BY <2>1, <4>1, <4>2, ClassPut
    <3> QED BY <3>1, <3>2
  <2> QED BY <1>1, <2>2 DEF AddMap, TInv, Kept
<1>2. ASSUME NEW n \in IndexName, NEW t \in IndexType,
             schema' = [schema EXCEPT !.idx = Put(@, n, t)]
      PROVE  SchemaTyped(schema') /\ Numbered(schema')
  <2>1. SchemaTyped(schema) /\ Numbered(schema) BY DEF TInv
  <2>2. schema' = [cls |-> schema.cls, idx |-> Put(schema.idx, n, t)]
    BY <1>2, <2>1 DEF SchemaTyped
  <2>3. schema'.cls = schema.cls /\ schema'.idx = Put(schema.idx, n, t) BY <2>2
  <2>4. DOMAIN schema'.idx = DOMAIN schema.idx \cup {n}
        /\ schema'.idx \in [DOMAIN schema'.idx -> IndexType]
    BY <2>1, <2>3 DEF Put, SchemaTyped
  <2> QED BY <2>1, <2>2, <2>3, <2>4 DEF SchemaTyped, Numbered
<1>3. ASSUME NEW n \in IndexName, AddIndex(n) PROVE Kept
  <2>1. "Uninitialize" \in IndexType BY DEF IndexType
  <2>2. SchemaTyped(schema') /\ Numbered(schema')
    BY <1>2, <1>3, <2>1 DEF AddIndex, TInv
  <2> QED BY <1>3, <2>2 DEF AddIndex, TInv, Kept
<1>4. ASSUME NEW n \in IndexName, NEW t \in {"Number", "Word", "Vector"}, UpdateIndexType(n, t)
      PROVE  Kept
  <2>1. t \in IndexType BY DEF IndexType
  <2>2. SchemaTyped(schema) /\ Numbered(schema) BY DEF TInv
  <2>3. CASE schema' = schema BY <1>4, <2>3 DEF UpdateIndexType, TInv, Kept
  <2>4. CASE schema' = [schema EXCEPT !.idx[n] = t]
    <3>1. schema' = [cls |-> schema.cls, idx |-> [schema.idx EXCEPT ![n] = t]]
      BY <2>2, <2>4 DEF SchemaTyped
    <3>2. schema'.cls = schema.cls /\ schema'.idx = [schema.idx EXCEPT ![n] = t] BY <3>1
    <3>3. DOMAIN schema'.idx = DOMAIN schema.idx /\ schema'.idx \in [DOMAIN schema.idx -> IndexType]
      BY <2>1, <2>2, <3>2 DEF SchemaTyped
    <3>4. SchemaTyped(schema')
      BY <2>2, <3>1, <3>2, <3>3 DEF SchemaTyped
    <3>5. Numbered(schema') BY <2>2, <3>2 DEF Numbered
    <3> QED BY <1>4, <3>4, <3>5 DEF UpdateIndexType, TInv, Kept
  <2> QED BY <1>4, <2>3, <2>4 DEF UpdateIndexType
<1> QED BY <1>1, <1>3, <1>4

LEMMA WriteCalls ==
  ASSUME TInv, NEW n \in Name, NEW k \in Key, NEW v \in Value
  PROVE  /\ Write(n, k, v) => Kept
         /\ WriteEmptyJson(n, k, v) => Kept
         /\ \A a \in Attr : WriteJson(n, k, a, v) => Kept
<1>1. MapsTyped(maps) /\ CacheTyped(handles, slots) /\ groups \subseteq ClassName BY DEF TInv
<1>2. ASSUME NEW ordinal \in BOOLEAN, Store(Handle(n, ordinal), n, k, v),
             SchemaTyped(schema'), Numbered(schema')
      PROVE  Kept
  BY <1>1, <1>2, StoreTyped DEF Kept
<1>3. (k \in IntKey) \in BOOLEAN OBVIOUS
<1> DEFINE touched == Touched(schema, n, k)
           classed == Classed(touched, n)
<1>4. SchemaTyped(touched) /\ Numbered(touched) BY TouchedTyped DEF TInv
<1>5. SchemaTyped(classed) /\ Numbered(classed) /\ n \in DOMAIN classed.cls BY <1>4, ClassedTyped
<1>6. Write(n, k, v) => schema' = touched /\ Store(Handle(n, k \in IntKey), n, k, v) BY DEF Write
<1>7. WriteEmptyJson(n, k, v) =>
        /\ schema' = classed
        /\ \/ Store(Handle(n, FALSE), n, k, v)
           \/ UNCHANGED <<disk, opened, mode, maps, slots, handles, groups>>
  BY DEF WriteEmptyJson
<1>8. \A a \in Attr : WriteJson(n, k, a, v) =>
        /\ \/ schema' = classed
           \/ /\ a \notin Known(classed, n) /\ Len(classed.cls[n].attrs) # MaxAttrs
              /\ schema' = [classed EXCEPT !.cls[n].attrs = Append(@, a)]
        /\ \/ Store(Handle(n, k \in IntKey), n, k, v)
           \/ UNCHANGED <<disk, opened, mode, maps, slots, handles, groups>>
  BY DEF WriteJson
<1> HIDE DEF touched, classed
<1>9. ASSUME UNCHANGED <<disk, opened, mode, maps, slots, handles, groups>>,
             SchemaTyped(schema'), Numbered(schema')
      PROVE  Kept
  BY <1>1, <1>9 DEF Kept
<1>10. Write(n, k, v) => Kept BY <1>2, <1>3, <1>4, <1>6
<1>11. WriteEmptyJson(n, k, v) => Kept BY <1>2, <1>5, <1>7, <1>9
<1>12. ASSUME NEW a \in Attr, WriteJson(n, k, a, v) PROVE Kept
  <2>1. SchemaTyped(schema') /\ Numbered(schema') BY <1>5, <1>8, <1>12, AttributeTyped
  <2> QED BY <1>2, <1>3, <1>8, <1>9, <1>12, <2>1
<1> QED BY <1>10, <1>11, <1>12

LEMMA OtherCalls ==
  ASSUME TInv, NEW n \in Name
  PROVE  /\ \A k \in Key : Read(n, k) \/ Del(n, k) => Kept
         /\ Cursor(n) => Kept
<1>1. /\ MapsTyped(maps) /\ CacheTyped(handles, slots) /\ groups \subseteq ClassName
      /\ SchemaTyped(schema) /\ Numbered(schema)
  BY DEF TInv
<1>2. ASSUME NEW ordinal \in BOOLEAN, Uses(Handle(n, ordinal)), MapsTyped(maps'),
             UNCHANGED <<disk, opened, mode, schema, groups>>
      PROVE  Kept
  BY <1>1, <1>2, HandleTyped DEF Kept, Uses
<1>3. ASSUME NEW k \in Key, Read(n, k) \/ Del(n, k) PROVE Kept
  <2> DEFINE o == Handle(n, k \in IntKey)
             t == Target(o, n)
             d == Remove(o.m[t].data, k)
  <2>1. (k \in IntKey) \in BOOLEAN OBVIOUS
  <2>2. Uses(o) /\ UNCHANGED <<disk, opened, mode, schema, groups>> BY <1>3 DEF Read, Del
  <2>3. maps' = o.m \/ maps' = [o.m EXCEPT ![t].data = d] BY <1>3 DEF Read, Del
  <2>4. MapsTyped(o.m) BY <1>1, <2>1, HandleTyped
  <2>5. t \in DOMAIN o.m => d \in Rows
    <3>1. t \in DOMAIN o.m => o.m[t].data \in Rows BY <2>4 DEF MapsTyped
    <3> QED BY <3>1, RowsRemove
  <2> HIDE DEF t, d
  <2>6. MapsTyped(maps')
    <3> HIDE DEF o
    <3> QED BY <2>3, <2>4, <2>5, DataTyped
  <2> QED BY <1>2, <2>1, <2>2, <2>6
<1>4. ASSUME Cursor(n) PROVE Kept
  <2>1. PICK ordinal \in BOOLEAN : Uses(Handle(n, ordinal)) /\ maps' = Handle(n, ordinal).m
    BY <1>4 DEF Cursor
  <2>2. UNCHANGED <<disk, opened, mode, schema, groups>> BY <1>4 DEF Cursor
  <2>3. MapsTyped(maps') BY <1>1, <2>1, HandleTyped
  <2> QED BY <1>2, <2>1, <2>2, <2>3
<1> QED BY <1>3, <1>4

LEMMA CallsTyped == ASSUME TInv, Call PROVE TInv'
<1>1. CASE \E n \in ClassName, t \in {"Uninitialize", "Integer", "Byte"} : AddMap(n, t)
  BY <1>1, SchemaCalls, KeptTyped
<1>2. CASE \E n \in IndexName :
             AddIndex(n) \/ \E t \in {"Number", "Word", "Vector"} : UpdateIndexType(n, t)
  BY <1>2, SchemaCalls, KeptTyped
<1>3. ASSUME NEW n \in Name, NEW k \in Key,
             \/ \E v \in Value : Write(n, k, v)
             \/ \E v \in Value \ {Empty} :
                  WriteEmptyJson(n, k, v) \/ \E a \in Attr : WriteJson(n, k, a, v)
             \/ Read(n, k) \/ Del(n, k)
      PROVE  TInv'
  <2>1. CASE \E v \in Value : Write(n, k, v) BY <2>1, WriteCalls, KeptTyped
  <2>2. CASE \E v \in Value \ {Empty} :
               WriteEmptyJson(n, k, v) \/ \E a \in Attr : WriteJson(n, k, a, v)
    BY <2>2, WriteCalls, KeptTyped
  <2>3. CASE Read(n, k) \/ Del(n, k) BY <2>3, OtherCalls, KeptTyped
  <2> QED BY <1>3, <2>1, <2>2, <2>3
<1>4. CASE \E n \in Name : Cursor(n) BY <1>4, OtherCalls, KeptTyped
<1>5. CASE \E n \in Name, k \in Key :
             \/ \E v \in Value : Write(n, k, v)
             \/ \E v \in Value \ {Empty} :
                  WriteEmptyJson(n, k, v) \/ \E a \in Attr : WriteJson(n, k, a, v)
             \/ Read(n, k) \/ Del(n, k)
  BY <1>3, <1>5
<1> QED BY <1>1, <1>2, <1>4, <1>5 DEF Call

LEMMA CommitTyped ==
  ASSUME SavedTyped, NEW g \in Graph, NEW m, NEW s, MapsTyped(m), SchemaTyped(s), Numbered(s),
         disk' = [disk EXCEPT ![g] = [saved |-> TRUE, maps |-> m, schema |-> s]]
  PROVE  SavedTyped'
<1>1. disk'[g] = [saved |-> TRUE, maps |-> m, schema |-> s] /\ DOMAIN disk' = Graph
      /\ \A x \in Graph : x # g => disk'[x] = disk[x]
  BY DEF SavedTyped
<1>2. \A x \in Graph : disk'[x] = [saved |-> disk'[x].saved, maps |-> disk'[x].maps,
                                  schema |-> disk'[x].schema]
  <2>1. \A x \in Graph : disk[x] = [saved |-> disk[x].saved, maps |-> disk[x].maps,
                                   schema |-> disk[x].schema]
    BY DEF SavedTyped
  <2>2. disk'[g] = [saved |-> disk'[g].saved, maps |-> disk'[g].maps, schema |-> disk'[g].schema]
    BY <1>1
  <2> QED BY <1>1, <2>1, <2>2
<1>3. disk' = [x \in Graph |-> disk'[x]] BY <1>1
<1>4. disk' = [x \in Graph |-> [saved |-> disk'[x].saved, maps |-> disk'[x].maps,
                               schema |-> disk'[x].schema]]
  BY <1>2, <1>3
<1>5. \A x \in Graph : /\ MapsTyped(disk'[x].maps)
                       /\ SchemaTyped(disk'[x].schema) /\ Numbered(disk'[x].schema)
  BY <1>1 DEF SavedTyped
<1> QED BY <1>4, <1>5 DEF SavedTyped

LEMMA SessionsTyped ==
  ASSUME TInv, OpenSome \/ Close \/ CloseFails \/ Crash
  PROVE  TInv'
<1>1. CASE OpenSome
  <2>1. PICK g \in Graph, m \in {"read_only", "read_write"} : Open(g, m) BY <1>1 DEF OpenSome
  <2>2. maps' = disk[g].maps /\ (schema' = disk[g].schema \/ schema' = schema)
        /\ slots' = <<>> /\ opened' = g /\ mode' = m /\ UNCHANGED <<disk, handles, groups>>
    BY <2>1 DEF Open
  <2>3. <<>> \in Seq(Name) OBVIOUS
  <2>4. SavedTyped' BY <2>2 DEF TInv, SavedTyped
  <2>5. MapsTyped(maps') /\ SchemaTyped(schema') /\ Numbered(schema') BY <2>2 DEF TInv, SavedTyped
  <2>6. CacheTyped(handles', slots') BY <2>2, <2>3 DEF TInv, CacheTyped
  <2> QED BY <2>2, <2>4, <2>5, <2>6 DEF TInv
<1>2. ASSUME NEW keep, NEW result, Ends(keep, result), SavedTyped' PROVE TInv'
  <2>1. /\ opened' = NoGraph /\ maps' = EmptyMap /\ slots' = <<>> /\ mode' = mode
        /\ handles' = handles \/ handles' = EmptyMap
        /\ schema' = schema \/ schema' = NoSchema
        /\ groups' = groups \/ groups' = {}
    BY <1>2 DEF Ends, Remembers
  <2>2. <<>> \in Seq(Name) OBVIOUS
  <2>3. CacheTyped(handles', slots') BY <2>1, <2>2, EmptyTyped DEF TInv, CacheTyped
  <2> QED BY <1>2, <2>1, <2>3, EmptyTyped DEF TInv
<1>3. UNCHANGED disk => SavedTyped' BY DEF TInv, SavedTyped
<1>4. CASE Close
  <2>1. opened \in Graph BY <1>4 DEF Close, TInv
  <2>2. SavedTyped' BY <1>3, <1>4, <2>1, CommitTyped DEF Close, Commit, TInv
  <2> QED BY <1>2, <1>4, <2>2 DEF Close
<1>5. CASE CloseFails \/ Crash BY <1>2, <1>3, <1>5 DEF CloseFails, Crash
<1> QED BY <1>1, <1>4, <1>5

LEMMA StepTyped == ASSUME TInv, [Next]_vars PROVE TInv'
<1>1. CASE UNCHANGED vars BY <1>1 DEF vars, TInv, SavedTyped
<1> QED BY <1>1, CallsTyped, SessionsTyped DEF Next

(* The state of the engine has its types, whatever was written, registered,  *)
(* saved and read back: a class has the key type of a class and an index that *)
(* of an index (StorageEngine.cpp:248-297, 383-412).                          *)
THEOREM TypeCorrect == Spec => []TypeOK
<1>1. Init => TInv BY InitTyped
<1>2. TInv /\ [Next]_vars => TInv' BY StepTyped
<1>3. TInv => TypeOK
  <2> SUFFICES ASSUME TInv PROVE TypeOK OBVIOUS
  <2>1. \A n \in DOMAIN maps : maps[n].ordinal \in BOOLEAN /\ DOMAIN maps[n].data \subseteq Key
    BY DEF TInv, MapsTyped, Rows
  <2> QED BY <2>1 DEF TInv, MapsTyped, CacheTyped, SchemaTyped, TypeOK
<1> QED BY <1>1, <1>2, <1>3, PTL DEF Spec

(* No two attributes of a class share a number and no number leaves its byte, *)
(* for any number of attributes and of sessions that save, lose or keep them  *)
(* (StorageEngine.cpp:344-381).                                               *)
THEOREM NumbersStayDistinct == Spec => []AttributesNumbered
<1>1. Init => TInv BY InitTyped
<1>2. TInv /\ [Next]_vars => TInv' BY StepTyped
<1>3. TInv => AttributesNumbered BY DEF TInv, Numbered, AttributesNumbered
<1> QED BY <1>1, <1>2, <1>3, PTL DEF Spec

-------------------------------------------------------------------------------
(* The engine implements GraphStore. *)

\* Every slot is one of an existing map, and a session that may not write has
\* the maps it found.
SlotsOpen(s, m) == \A i \in DOMAIN s : s[i] \in DOMAIN m

ViewInv ==
  /\ SlotsOpen(slots, maps)
  /\ mode = "read_only" /\ opened # NoGraph => maps = disk[opened].maps

\* All that the steps of the refinement rest on.
RInv == IInv /\ TInv /\ ViewInv

Places(m) == {q \in Name \X Key : q[1] \in DOMAIN m /\ q[2] \in DOMAIN m[q[1]].data}

LEMMA EntriesAre ==
  ASSUME NEW m
  PROVE  /\ EntriesOf(m) = [p \in DOMAIN EntriesOf(m) |-> EntriesOf(m)[p]]
         /\ DOMAIN EntriesOf(m) = Places(m)
         /\ \A p \in Places(m) : EntriesOf(m)[p] = m[p[1]].data[p[2]]
BY DEF EntriesOf, Places

LEMMA SameEntries ==
  ASSUME NEW m, NEW m2, Places(m2) = Places(m),
         \A p \in Places(m) : m2[p[1]].data[p[2]] = m[p[1]].data[p[2]]
  PROVE  EntriesOf(m2) = EntriesOf(m)
BY EntriesAre DEF EntriesOf, Places

LEMMA PutEntries ==
  ASSUME NEW m, MapsTyped(m), NEW n \in Name, n \in DOMAIN m, NEW k \in Key, NEW v
  PROVE  LET e == EntriesOf(m) IN
         EntriesOf([m EXCEPT ![n].data = Put(@, k, v)]) =
           [q \in DOMAIN e \cup {<<n, k>>} |-> IF q = <<n, k>> THEN v ELSE e[q]]
<1> DEFINE d == Put(m[n].data, k, v)
           m2 == [m EXCEPT ![n].data = d]
           e == EntriesOf(m)
           e2 == EntriesOf(m2)
           p == <<n, k>>
<1>1. DOMAIN m2 = DOMAIN m /\ m2[n].data = d /\ \A x \in DOMAIN m : x # n => m2[x] = m[x]
  BY DEF MapsTyped
<1>2. /\ DOMAIN d = DOMAIN m[n].data \cup {k} /\ d[k] = v
      /\ \A x \in DOMAIN m[n].data : x # k => d[x] = m[n].data[x]
  BY DEF Put
<1>3. p \in Name \X Key /\ p[1] = n /\ p[2] = k OBVIOUS
<1>4. \A q \in Name \X Key : q[1] = n /\ q[2] = k => q = p OBVIOUS
<1> HIDE DEF d, m2, p
<1>5. Places(m2) = Places(m) \cup {p}
  <2>1. ASSUME NEW q \in Name \X Key
        PROVE  q \in Places(m2) <=> q \in Places(m) \/ q = p
    <3>1. CASE q[1] = n BY <1>1, <1>2, <1>3, <1>4, <3>1 DEF Places
    <3>2. CASE q[1] # n BY <1>1, <1>3, <3>2 DEF Places
    <3> QED BY <3>1, <3>2
  <2> QED BY <1>3, <2>1 DEF Places
<1>6. \A q \in Places(m2) : m2[q[1]].data[q[2]] = IF q = p THEN v ELSE m[q[1]].data[q[2]]
  <2> SUFFICES ASSUME NEW q \in Places(m2)
               PROVE  m2[q[1]].data[q[2]] = IF q = p THEN v ELSE m[q[1]].data[q[2]]
    OBVIOUS
  <2>1. CASE q = p BY <1>1, <1>2, <1>3, <2>1
  <2>2. CASE q # p /\ q[1] = n
    <3>1. q \in Places(m) /\ q[2] # k /\ q[2] \in DOMAIN m[n].data
      BY <1>3, <1>4, <1>5, <2>2 DEF Places
    <3> QED BY <1>1, <1>2, <2>2, <3>1
  <2>3. CASE q[1] # n BY <1>1, <1>3, <1>5, <2>3 DEF Places
  <2> QED BY <2>1, <2>2, <2>3
<1>7. e2 = [q \in DOMAIN e \cup {p} |-> IF q = p THEN v ELSE e[q]]
  <2>1. e2 = [q \in DOMAIN e2 |-> e2[q]] /\ DOMAIN e2 = Places(m2)
        /\ \A q \in Places(m2) : e2[q] = m2[q[1]].data[q[2]]
    BY EntriesAre
  <2>2. DOMAIN e = Places(m) /\ \A q \in Places(m) : e[q] = m[q[1]].data[q[2]]
    BY EntriesAre
  <2> HIDE DEF e, e2
  <2> QED BY <1>5, <1>6, <2>1, <2>2
<1> QED BY <1>7 DEF d, m2, p

LEMMA RemoveEntries ==
  ASSUME NEW m, MapsTyped(m), NEW n \in Name, n \in DOMAIN m, NEW k \in Key
  PROVE  LET e == EntriesOf(m) IN
         EntriesOf([m EXCEPT ![n].data = Remove(@, k)]) = [q \in DOMAIN e \ {<<n, k>>} |-> e[q]]
<1> DEFINE d == Remove(m[n].data, k)
           m2 == [m EXCEPT ![n].data = d]
           e == EntriesOf(m)
           e2 == EntriesOf(m2)
           p == <<n, k>>
<1>1. DOMAIN m2 = DOMAIN m /\ m2[n].data = d /\ \A x \in DOMAIN m : x # n => m2[x] = m[x]
  BY DEF MapsTyped
<1>2. DOMAIN d = DOMAIN m[n].data \ {k} /\ \A x \in DOMAIN d : d[x] = m[n].data[x]
  BY DEF Remove
<1>3. p \in Name \X Key /\ p[1] = n /\ p[2] = k OBVIOUS
<1>4. \A q \in Name \X Key : q[1] = n /\ q[2] = k => q = p OBVIOUS
<1> HIDE DEF d, m2, p
<1>5. Places(m2) = Places(m) \ {p}
  <2>1. ASSUME NEW q \in Name \X Key
        PROVE  q \in Places(m2) <=> q \in Places(m) /\ q # p
    <3>1. CASE q[1] = n BY <1>1, <1>2, <1>3, <1>4, <3>1 DEF Places
    <3>2. CASE q[1] # n BY <1>1, <1>3, <3>2 DEF Places
    <3> QED BY <3>1, <3>2
  <2> QED BY <2>1 DEF Places
<1>6. \A q \in Places(m2) : m2[q[1]].data[q[2]] = m[q[1]].data[q[2]]
  <2> SUFFICES ASSUME NEW q \in Places(m2) PROVE m2[q[1]].data[q[2]] = m[q[1]].data[q[2]]
    OBVIOUS
  <2>1. CASE q[1] = n BY <1>1, <1>2, <2>1 DEF Places
  <2>2. CASE q[1] # n BY <1>1, <2>2 DEF Places
  <2> QED BY <2>1, <2>2
<1>7. e2 = [q \in DOMAIN e \ {p} |-> e[q]]
  <2>1. e2 = [q \in DOMAIN e2 |-> e2[q]] /\ DOMAIN e2 = Places(m2)
        /\ \A q \in Places(m2) : e2[q] = m2[q[1]].data[q[2]]
    BY EntriesAre
  <2>2. DOMAIN e = Places(m) /\ \A q \in Places(m) : e[q] = m[q[1]].data[q[2]]
    BY EntriesAre
  <2> HIDE DEF e, e2
  <2> QED BY <1>5, <1>6, <2>1, <2>2
<1> QED BY <1>7 DEF d, m2, p

\* A handle that is asked for changes no entry, and what it reaches is its map.
LEMMA HandleEntries ==
  ASSUME RInv, NEW n \in Name, NEW ordinal \in BOOLEAN
  PROVE  LET o == Handle(n, ordinal) IN
         /\ EntriesOf(o.m) = EntriesOf(maps) /\ MapsTyped(o.m)
         /\ SlotsOpen(o.s, o.m) /\ (mode = "read_only" => o.m = maps)
         /\ Reaches(o, n) => Target(o, n) = n /\ n \in DOMAIN o.m
<1> DEFINE o == Handle(n, ordinal)
<1>1. MapsTyped(o.m) /\ CacheTyped(o.h, o.s) BY HandleTyped DEF RInv, TInv
<1>2. /\ EntriesOf(o.m) = EntriesOf(maps) /\ SlotsOpen(o.s, o.m)
      /\ (mode = "read_only" => o.m = maps) /\ n \in DOMAIN o.h
  <2>1. CASE n \in DOMAIN handles
    <3>1. o.h = handles /\ o.s = slots /\ o.m = maps BY <2>1 DEF Handle
    <3> QED BY <2>1, <3>1 DEF RInv, ViewInv
  <2>2. CASE n \notin DOMAIN handles /\ ~CanOpen(n)
    <3>1. o.h = Put(handles, n, Null) /\ o.s = slots /\ o.m = maps BY <2>2 DEF Handle
    <3> QED BY <3>1 DEF RInv, ViewInv, Put
  <2>3. CASE n \notin DOMAIN handles /\ CanOpen(n)
    <3> DEFINE m == Put(maps, n, [ordinal |-> ordinal, data |-> EmptyMap])
               s == Append(slots, n)
    <3>1. o.h = Put(handles, n, Len(slots) + 1) /\ o.s = s
          /\ o.m = IF n \in DOMAIN maps THEN maps ELSE m
      BY <2>3 DEF Handle
    <3>2. n \in DOMAIN o.h BY <3>1 DEF Put
    <3>3. DOMAIN m = DOMAIN maps \cup {n} /\ (n \notin DOMAIN maps => m[n].data = EmptyMap)
          /\ \A x \in DOMAIN maps : x # n => m[x] = maps[x]
      BY DEF Put
    <3>4. n \notin DOMAIN maps => EntriesOf(m) = EntriesOf(maps)
      <4>1. SUFFICES ASSUME n \notin DOMAIN maps PROVE EntriesOf(m) = EntriesOf(maps) OBVIOUS
      <4>2. DOMAIN EmptyMap = {} BY DEF EmptyMap
      <4> HIDE DEF m
      <4>3. Places(m) = Places(maps) BY <3>3, <4>1, <4>2 DEF Places
      <4>4. \A p \in Places(maps) : m[p[1]].data[p[2]] = maps[p[1]].data[p[2]]
        BY <3>3, <4>1 DEF Places
      <4> QED BY <4>3, <4>4, SameEntries
    <3>5. mode = "read_only" => n \in DOMAIN maps BY <2>3 DEF CanOpen
    <3>6. \A i \in DOMAIN s : s[i] = n \/ (i \in DOMAIN slots /\ s[i] = slots[i])
      <4>1. slots \in Seq(Name) BY DEF RInv, TInv, CacheTyped
      <4> QED BY <4>1
    <3> HIDE DEF m, s
    <3>7. SlotsOpen(o.s, o.m) BY <3>1, <3>3, <3>6 DEF RInv, ViewInv, SlotsOpen
    <3> QED BY <3>1, <3>2, <3>4, <3>5, <3>7
  <2> QED BY <2>1, <2>2, <2>3
<1>3. CacheOK(o.h, o.s) BY HandleKeepsCache DEF RInv, IInv
<1>4. ASSUME Reaches(o, n) PROVE Target(o, n) = n /\ n \in DOMAIN o.m
  <2>1. o.h[n] \in DOMAIN o.s BY <1>4 DEF Reaches
  <2>2. o.h[n] # Null BY <1>1, <2>1 DEF CacheTyped, Null
  <2>3. o.s[o.h[n]] = n BY <1>2, <1>3, <2>2 DEF CacheOK
  <2> QED BY <1>2, <2>1, <2>3 DEF Target, SlotsOpen
<1> QED BY <1>1, <1>2, <1>4

\* The state of GraphStore, as the engine's state shows it.
Stored == [g \in Graph |-> EntriesOf(disk[g].maps)]
View == EntriesOf(maps)
Stutters == UNCHANGED <<Stored, opened, View, reply>>

ViewKept ==
  /\ UNCHANGED <<disk, opened, mode>> /\ SlotsOpen(slots', maps')
  /\ mode = "read_only" => maps' = maps

LEMMA KeptView == ASSUME RInv, ViewKept PROVE ViewInv' /\ UNCHANGED Stored
BY DEF RInv, ViewInv, ViewKept, Stored

LEMMA StoreWrites ==
  ASSUME RInv, NEW n \in Name, NEW k \in Key, NEW v \in Value, NEW ordinal \in BOOLEAN,
         opened # NoGraph, Store(Handle(n, ordinal), n, k, v)
  PROVE  ViewKept /\ Abstract!Write(<<n, k>>, v)
<1> DEFINE o == Handle(n, ordinal)
           t == Target(o, n)
<1>1. /\ EntriesOf(o.m) = View /\ MapsTyped(o.m) /\ SlotsOpen(o.s, o.m)
      /\ (mode = "read_only" => o.m = maps)
      /\ Reaches(o, n) => Target(o, n) = n /\ n \in DOMAIN o.m
  BY HandleEntries DEF View
<1>2. slots' = o.s /\ UNCHANGED <<disk, opened, mode>> BY DEF Store, Uses
<1>3. UNCHANGED <<Stored, opened>> BY <1>2 DEF Stored
<1>4. CASE mode = "read_write" /\ Fits(o, n, k)
  <2>1. /\ maps' = [o.m EXCEPT ![t].data = Put(@, k, v)]
        /\ reply' = Answer("write", <<n, k>>, "ok")
    BY <1>4 DEF Store
  <2>2. t = n /\ n \in DOMAIN o.m BY <1>1, <1>4 DEF Fits
  <2>3. View' = [q \in DOMAIN View \cup {<<n, k>>} |-> IF q = <<n, k>> THEN v ELSE View[q]]
    <3> HIDE DEF o, t
    <3>1. maps' = [o.m EXCEPT ![n].data = Put(@, k, v)] BY <2>1, <2>2
    <3>2. View' = EntriesOf(maps') BY DEF View
    <3> QED BY <1>1, <2>2, <3>1, <3>2, PutEntries
  <2>4. SlotsOpen(slots', maps')
    <3> HIDE DEF o, t
    <3>1. DOMAIN maps' = DOMAIN o.m BY <2>1
    <3> QED BY <1>1, <1>2, <3>1 DEF SlotsOpen
  <2>5. ViewKept BY <1>2, <1>4, <2>4 DEF ViewKept
  <2> QED BY <1>3, <2>1, <2>3, <2>5 DEF Abstract!Write, Abstract!Answer, Answer, Stored, View
<1>5. CASE ~(mode = "read_write" /\ Fits(o, n, k))
  <2>1. maps' = o.m /\ reply' = Answer("write", <<n, k>>, "fail") BY <1>5 DEF Store
  <2>2. ViewKept BY <1>1, <1>2, <2>1 DEF ViewKept
  <2>3. View' = View BY <1>1, <2>1 DEF View
  <2> QED BY <1>3, <2>1, <2>2, <2>3 DEF Abstract!Write, Abstract!Answer, Answer, Stored, View
<1> QED BY <1>4, <1>5

LEMMA SameMaps ==
  ASSUME RInv, UNCHANGED <<disk, opened, mode, maps, slots>>
  PROVE  ViewKept /\ UNCHANGED <<Stored, opened, View>>
BY DEF RInv, ViewInv, ViewKept, Stored, View

LEMMA WritesRefine ==
  ASSUME RInv, NEW n \in Name, NEW k \in Key, NEW v \in Value
  PROVE  /\ Write(n, k, v) => ViewKept /\ Abstract!Write(<<n, k>>, v)
         /\ WriteEmptyJson(n, k, v) =>
              ViewKept /\ (Abstract!Write(<<n, k>>, v) \/ Abstract!WriteNothing(<<n, k>>))
         /\ \A a \in Attr : WriteJson(n, k, a, v) => ViewKept /\ Abstract!Write(<<n, k>>, v)
<1>1. (k \in IntKey) \in BOOLEAN OBVIOUS
<1>2. ASSUME Write(n, k, v) PROVE ViewKept /\ Abstract!Write(<<n, k>>, v)
  <2>1. opened # NoGraph /\ Store(Handle(n, k \in IntKey), n, k, v) BY <1>2 DEF Write
  <2> QED BY <1>1, <2>1, StoreWrites
<1>3. ASSUME WriteEmptyJson(n, k, v)
      PROVE  ViewKept /\ (Abstract!Write(<<n, k>>, v) \/ Abstract!WriteNothing(<<n, k>>))
  <2>1. CASE k \in StrKey
    <3>1. opened # NoGraph /\ Store(Handle(n, FALSE), n, k, v)
      BY <1>3, <2>1 DEF WriteEmptyJson
    <3> QED BY <3>1, StoreWrites
  <2>2. CASE k \notin StrKey
    <3>1. /\ opened # NoGraph /\ reply' = Answer("write nothing", <<n, k>>, "ok")
          /\ UNCHANGED <<disk, opened, mode, maps, slots>>
      BY <1>3, <2>2 DEF WriteEmptyJson
    <3>2. ViewKept /\ UNCHANGED <<Stored, opened, View>> BY <3>1, SameMaps
    <3> QED BY <3>1, <3>2 DEF Abstract!WriteNothing, Abstract!Answer, Answer, Stored, View
  <2> QED BY <2>1, <2>2
<1>4. ASSUME NEW a \in Attr, WriteJson(n, k, a, v)
      PROVE  ViewKept /\ Abstract!Write(<<n, k>>, v)
  <2> DEFINE s == Classed(Touched(schema, n, k), n)
  <2> HIDE DEF s
  <2>1. /\ opened # NoGraph
        /\ \/ Store(Handle(n, k \in IntKey), n, k, v)
           \/ /\ reply' = Answer("write", <<n, k>>, "fail")
              /\ UNCHANGED <<disk, opened, mode, maps, slots>>
    BY <1>4 DEF WriteJson, s
  <2>2. CASE Store(Handle(n, k \in IntKey), n, k, v) BY <1>1, <2>1, <2>2, StoreWrites
  <2>3. CASE reply' = Answer("write", <<n, k>>, "fail") /\ UNCHANGED <<disk, opened, mode, maps, slots>>
    <3>1. ViewKept /\ UNCHANGED <<Stored, opened, View>> BY <2>3, SameMaps
    <3> QED BY <2>1, <2>3, <3>1 DEF Abstract!Write, Abstract!Answer, Answer, Stored, View
  <2> QED BY <2>1, <2>2, <2>3
<1> QED BY <1>2, <1>3, <1>4

LEMMA ReadRefines ==
  ASSUME RInv, NEW n \in Name, NEW k \in Key, Read(n, k)
  PROVE  ViewKept /\ Abstract!Read(<<n, k>>)
<1> DEFINE o == Handle(n, k \in IntKey)
           d == o.m[Target(o, n)].data
           p == <<n, k>>
<1>1. (k \in IntKey) \in BOOLEAN OBVIOUS
<1>2. /\ EntriesOf(o.m) = View /\ SlotsOpen(o.s, o.m) /\ (mode = "read_only" => o.m = maps)
      /\ Reaches(o, n) => Target(o, n) = n /\ n \in DOMAIN o.m
  BY <1>1, HandleEntries DEF View
<1>3. /\ opened # NoGraph /\ slots' = o.s /\ maps' = o.m /\ UNCHANGED <<disk, opened, mode>>
      /\ reply' = Answer("read", p, IF ~Fits(o, n, k) THEN "error"
                                    ELSE IF k \in DOMAIN d /\ d[k] # Empty THEN d[k] ELSE "absent")
  BY DEF Read, Uses
<1>4. ViewKept /\ UNCHANGED <<Stored, opened, View>>
  BY <1>2, <1>3 DEF ViewKept, Stored, View
<1>5. Fits(o, n, k) => /\ k \in DOMAIN d <=> p \in DOMAIN View
                       /\ k \in DOMAIN d => View[p] = d[k]
  <2>1. SUFFICES ASSUME Fits(o, n, k)
                 PROVE  /\ k \in DOMAIN d <=> p \in DOMAIN View
                        /\ k \in DOMAIN d => View[p] = d[k]
    OBVIOUS
  <2>2. d = o.m[n].data /\ n \in DOMAIN o.m BY <1>2, <2>1 DEF Fits
  <2>3. p \in Name \X Key /\ p[1] = n /\ p[2] = k OBVIOUS
  <2> HIDE DEF o, d, p
  <2>4. DOMAIN View = Places(o.m) /\ \A q \in Places(o.m) : View[q] = o.m[q[1]].data[q[2]]
    BY <1>2, EntriesAre
  <2> QED BY <2>2, <2>3, <2>4 DEF Places
<1>6. CASE ~Fits(o, n, k)
  <2>1. reply' = Answer("read", p, "error") BY <1>3, <1>6
  <2> QED BY <1>3, <1>4, <2>1 DEF Abstract!Read, Abstract!Answer, Answer, Stored, View
<1>7. CASE Fits(o, n, k)
  <2>1. reply' = Answer("read", p, IF p \in DOMAIN View /\ View[p] # Empty THEN View[p] ELSE "absent")
    <3> HIDE DEF o, d, p
    <3> QED BY <1>3, <1>5, <1>7
  <2> QED BY <1>3, <1>4, <2>1 DEF Abstract!Read, Abstract!Answer, Answer, Stored, View
<1> QED BY <1>6, <1>7

LEMMA DelRefines ==
  ASSUME RInv, NEW n \in Name, NEW k \in Key, Del(n, k)
  PROVE  ViewKept /\ Abstract!Delete(<<n, k>>)
<1> DEFINE o == Handle(n, k \in IntKey)
           t == Target(o, n)
           d == o.m[t].data
           p == <<n, k>>
<1>1. (k \in IntKey) \in BOOLEAN OBVIOUS
<1>2. /\ EntriesOf(o.m) = View /\ MapsTyped(o.m) /\ SlotsOpen(o.s, o.m)
      /\ (mode = "read_only" => o.m = maps)
      /\ Reaches(o, n) => t = n /\ n \in DOMAIN o.m
  BY <1>1, HandleEntries DEF View
<1>3. /\ opened # NoGraph /\ slots' = o.s /\ UNCHANGED <<disk, opened, mode>>
      /\ IF ~Fits(o, n, k) \/ mode # "read_write"
         THEN maps' = o.m /\ reply' = Answer("del", p, "error")
         ELSE IF k \in DOMAIN d
         THEN /\ maps' = [o.m EXCEPT ![t].data = Remove(@, k)]
              /\ reply' = Answer("del", p, "ok")
         ELSE maps' = o.m /\ reply' = Answer("del", p, "fail")
  BY DEF Del, Uses
<1>4. UNCHANGED <<Stored, opened>> BY <1>3 DEF Stored
<1>5. ASSUME maps' = o.m PROVE ViewKept /\ View' = View
  BY <1>2, <1>3, <1>5 DEF ViewKept, View
<1>6. CASE ~Fits(o, n, k) \/ mode # "read_write"
  <2>1. maps' = o.m /\ reply' = Answer("del", p, "error") BY <1>3, <1>6
  <2>2. ViewKept /\ View' = View BY <1>5, <2>1
  <2> QED BY <1>3, <1>4, <2>1, <2>2 DEF Abstract!Delete, Abstract!Answer, Answer, Stored, View
<1>7. CASE Fits(o, n, k) /\ mode = "read_write"
  <2>1. t = n /\ n \in DOMAIN o.m /\ d = o.m[n].data BY <1>2, <1>7 DEF Fits
  <2>2. k \in DOMAIN d <=> p \in DOMAIN View
    <3>1. p \in Name \X Key /\ p[1] = n /\ p[2] = k OBVIOUS
    <3> HIDE DEF o, t, d, p
    <3>2. DOMAIN View = Places(o.m) BY <1>2, EntriesAre
    <3> QED BY <2>1, <3>1, <3>2 DEF Places
  <2>3. CASE k \in DOMAIN d
    <3>1. /\ maps' = [o.m EXCEPT ![t].data = Remove(@, k)] /\ reply' = Answer("del", p, "ok")
      BY <1>3, <1>7, <2>3
    <3>2. View' = [q \in DOMAIN View \ {p} |-> View[q]]
      <4> HIDE DEF o, t
      <4>1. maps' = [o.m EXCEPT ![n].data = Remove(@, k)] BY <2>1, <3>1
      <4>2. View' = EntriesOf(maps') BY DEF View
      <4> QED BY <1>2, <2>1, <4>1, <4>2, RemoveEntries
    <3>3. SlotsOpen(slots', maps')
      <4> HIDE DEF o, t
      <4>1. DOMAIN maps' = DOMAIN o.m BY <3>1
      <4> QED BY <1>2, <1>3, <4>1 DEF SlotsOpen
    <3>4. ViewKept BY <1>3, <1>7, <3>3 DEF ViewKept
    <3> QED BY <1>3, <1>4, <2>2, <2>3, <3>1, <3>2, <3>4
        DEF Abstract!Delete, Abstract!Answer, Answer, Stored, View
  <2>4. CASE k \notin DOMAIN d
    <3>1. maps' = o.m /\ reply' = Answer("del", p, "fail") BY <1>3, <1>7, <2>4
    <3>2. ViewKept /\ View' = View BY <1>5, <3>1
    <3> QED BY <1>3, <1>4, <2>2, <2>4, <3>1, <3>2
        DEF Abstract!Delete, Abstract!Answer, Answer, Stored, View
  <2> QED BY <2>3, <2>4
<1> QED BY <1>6, <1>7

LEMMA CursorStutters ==
  ASSUME RInv, NEW n \in Name, Cursor(n)
  PROVE  ViewKept /\ Stutters
<1>1. PICK ordinal \in BOOLEAN :
        Uses(Handle(n, ordinal)) /\ maps' = Handle(n, ordinal).m
  BY DEF Cursor
<1> DEFINE o == Handle(n, ordinal)
<1>2. EntriesOf(o.m) = View /\ SlotsOpen(o.s, o.m) /\ (mode = "read_only" => o.m = maps)
  BY HandleEntries DEF View
<1>3. slots' = o.s /\ UNCHANGED <<disk, opened, mode, reply>> BY <1>1 DEF Cursor, Uses
<1> QED BY <1>1, <1>2, <1>3 DEF ViewKept, Stutters, Stored, View

LEMMA CallsRefine == ASSUME RInv, Call PROVE ViewKept /\ (Abstract!Next \/ Stutters)
<1>1. ASSUME UNCHANGED <<disk, opened, mode, maps, slots, reply>>
      PROVE  ViewKept /\ Stutters
  BY <1>1, SameMaps DEF Stutters
<1>2. CASE \E n \in ClassName, t \in {"Uninitialize", "Integer", "Byte"} : AddMap(n, t)
  BY <1>1, <1>2 DEF AddMap
<1>3. CASE \E n \in IndexName :
             AddIndex(n) \/ \E t \in {"Number", "Word", "Vector"} : UpdateIndexType(n, t)
  BY <1>1, <1>3 DEF AddIndex, UpdateIndexType
<1>4. ASSUME NEW n \in Name, NEW k \in Key,
             \/ \E v \in Value : Write(n, k, v)
             \/ \E v \in Value \ {Empty} :
                  WriteEmptyJson(n, k, v) \/ \E a \in Attr : WriteJson(n, k, a, v)
             \/ Read(n, k) \/ Del(n, k)
      PROVE  ViewKept /\ Abstract!Next
  <2>1. <<n, k>> \in Name \X Key OBVIOUS
  <2>2. ASSUME NEW v \in Value,
               Abstract!Write(<<n, k>>, v) \/ Abstract!WriteNothing(<<n, k>>)
        PROVE  Abstract!Next
    BY <2>1, <2>2 DEF Abstract!Next
  <2>3. ASSUME Abstract!Read(<<n, k>>) \/ Abstract!Delete(<<n, k>>) PROVE Abstract!Next
    BY <2>1, <2>3 DEF Abstract!Next
  <2>4. CASE \E v \in Value : Write(n, k, v) BY <2>2, <2>4, WritesRefine
  <2>5. CASE \E v \in Value \ {Empty} :
               WriteEmptyJson(n, k, v) \/ \E a \in Attr : WriteJson(n, k, a, v)
    BY <2>2, <2>5, WritesRefine
  <2>6. CASE Read(n, k) \/ Del(n, k) BY <2>3, <2>6, ReadRefines, DelRefines
  <2> QED BY <1>4, <2>4, <2>5, <2>6
<1>5. CASE \E n \in Name, k \in Key :
             \/ \E v \in Value : Write(n, k, v)
             \/ \E v \in Value \ {Empty} :
                  WriteEmptyJson(n, k, v) \/ \E a \in Attr : WriteJson(n, k, a, v)
             \/ Read(n, k) \/ Del(n, k)
  BY <1>4, <1>5
<1>6. CASE \E n \in Name : Cursor(n) BY <1>6, CursorStutters
<1> QED BY <1>2, <1>3, <1>5, <1>6 DEF Call

LEMMA OpenRefines ==
  ASSUME RInv, OpenSome
  PROVE  ViewInv' /\ Abstract!Next
<1>1. PICK g \in Graph, m \in {"read_only", "read_write"} : Open(g, m) BY DEF OpenSome
<1>2. /\ opened = NoGraph /\ opened' = g /\ maps' = disk[g].maps /\ slots' = <<>>
      /\ reply' = Answer("open", g, "ok") /\ UNCHANGED disk
  BY <1>1 DEF Open
<1>3. ViewInv' BY <1>2 DEF ViewInv, SlotsOpen
<1>4. View' = Stored[g] /\ Stored' = Stored BY <1>2 DEF View, Stored
<1>5. Abstract!Open(g) BY <1>2, <1>4 DEF Abstract!Open, Abstract!Answer, Answer, Stored, View
<1> QED BY <1>3, <1>5 DEF Abstract!Next

LEMMA NoEntries == EntriesOf(EmptyMap) = Abstract!Nothing
<1>1. DOMAIN EmptyMap = {} BY DEF EmptyMap
<1>2. Places(EmptyMap) = {} BY <1>1 DEF Places
<1>3. EntriesOf(EmptyMap) = [p \in {} |-> EntriesOf(EmptyMap)[p]] BY <1>2, EntriesAre
<1> QED BY <1>3 DEF Abstract!Nothing

LEMMA EndRefines ==
  ASSUME RInv, Close \/ CloseFails \/ Crash
  PROVE  ViewInv' /\ Abstract!Next
<1>1. /\ opened # NoGraph /\ opened' = NoGraph /\ maps' = EmptyMap /\ slots' = <<>>
      /\ opened \in Graph
  BY DEF Close, CloseFails, Crash, Ends, RInv, TInv
<1>2. ViewInv' BY <1>1 DEF ViewInv, SlotsOpen
<1>3. View' = Abstract!Nothing BY <1>1, NoEntries DEF View
<1>4. CASE Close
  <2>1. reply' = Answer("close", opened, "saved") BY <1>4 DEF Close, Ends
  <2>2. Stored' = [Stored EXCEPT ![opened] = View]
    <3>1. CASE mode = "read_write"
      <4>1. disk' = [disk EXCEPT ![opened] = [saved |-> TRUE, maps |-> maps, schema |-> schema]]
        BY <1>4, <3>1 DEF Close, Commit
      <4>2. DOMAIN disk = Graph BY DEF RInv, TInv, SavedTyped
      <4>3. disk'[opened].maps = maps /\ \A g \in Graph : g # opened => disk'[g] = disk[g]
        BY <1>1, <4>1, <4>2
      <4> QED BY <1>1, <4>3 DEF Stored, View
    <3>2. CASE mode # "read_write"
      <4>1. mode = "read_only" BY <3>2 DEF RInv, TInv
      <4>2. UNCHANGED disk /\ maps = disk[opened].maps
        BY <1>1, <1>4, <3>2, <4>1 DEF Close, RInv, ViewInv
      <4> QED BY <1>1, <4>2 DEF Stored, View
    <3> QED BY <3>1, <3>2
  <2>3. Abstract!End BY <1>1, <1>3, <2>1, <2>2 DEF Abstract!End, Abstract!Answer, Answer, Stored, View
  <2> QED BY <1>2, <2>3 DEF Abstract!Next
<1>5. CASE CloseFails \/ Crash
  <2>1. reply' = Answer("close", opened, "lost") /\ UNCHANGED disk
    BY <1>5 DEF CloseFails, Crash, Ends
  <2>2. Abstract!End BY <1>1, <1>3, <2>1 DEF Abstract!End, Abstract!Answer, Answer, Stored, View
  <2> QED BY <1>2, <2>2 DEF Abstract!Next
<1> QED BY <1>4, <1>5

LEMMA StepRefines ==
  ASSUME ~Reuse, RInv, [Next]_vars
  PROVE  RInv' /\ (Abstract!Next \/ Stutters)
<1>1. IInv' /\ TInv' BY StepKeeps, StepTyped DEF RInv
<1>2. CASE UNCHANGED vars
  <2>1. ViewInv' BY <1>2 DEF vars, RInv, ViewInv
  <2>2. Stutters BY <1>2 DEF vars, Stutters, Stored, View
  <2> QED BY <1>1, <2>1, <2>2 DEF RInv
<1>3. CASE Call BY <1>1, <1>3, CallsRefine, KeptView DEF RInv
<1>4. CASE OpenSome BY <1>1, <1>4, OpenRefines DEF RInv
<1>5. CASE Close \/ CloseFails \/ Crash BY <1>1, <1>5, EndRefines DEF RInv
<1> QED BY <1>2, <1>3, <1>4, <1>5 DEF Next

LEMMA InitRefines == Init => RInv /\ Abstract!Init
<1> SUFFICES ASSUME Init PROVE RInv /\ Abstract!Init OBVIOUS
<1>1. IInv /\ TInv BY InitHolds, InitTyped
<1>2. ViewInv BY DEF Init, ViewInv, SlotsOpen
<1>3. View = Abstract!Nothing /\ Stored = [g \in Graph |-> Abstract!Nothing]
  BY NoEntries DEF Init, View, Stored
<1> QED BY <1>1, <1>2, <1>3 DEF RInv, Init, Abstract!Init, Abstract!Answer, Answer, Stored, View

(* An engine object that opens one graph implements GraphStore, for any names, *)
(* keys, values and limits: a session sees what earlier sessions saved, and    *)
(* leaves all it did or nothing; a read answers what was written or an error,  *)
(* never another entry (StorageEngine.cpp:189-213, 414-549).                   *)
THEOREM SessionsRefine ==
  ASSUME ~Reuse
  PROVE  Spec => ImplementsGraphStore
<1>1. Init => RInv /\ Abstract!Init BY InitRefines
<1>2. RInv /\ [Next]_vars => RInv' /\ [Abstract!Next]_<<Stored, opened, View, reply>>
  BY StepRefines DEF Stutters
<1> QED BY <1>1, <1>2, PTL DEF Spec, ImplementsGraphStore, Abstract!Spec, Stored, View

-------------------------------------------------------------------------------
(* A text that ends with a creation. *)

Creating == ran.op = "create"

\* The job is what is left of s after k calls.
LeftOf(s, k) ==
  /\ k \in Nat /\ Len(job) + k = Len(CallsOf(s))
  /\ \A i \in DOMAIN job : job[i] = CallsOf(s)[k + i]

\* What the first k calls of the creation have made.
MadeBy(k) ==
  /\ k > 0 => opened = ran.graph
  /\ \A i \in DOMAIN ran.groups : 1 + i <= k => ran.groups[i] \in DOMAIN schema.cls
  /\ \A i \in DOMAIN ran.indexes :
       1 + Len(ran.groups) + i <= k => ran.indexes[i] \in DOMAIN schema.idx
  /\ (k > 0 /\ replaced) \/ ran.edges \subseteq relations

\* Where the texts come from, and what is left of them.
TextInv ==
  /\ text \in Seq(Stmts)
  /\ Creating => ran \in Stmts
  /\ cut => text = <<>> /\ job = <<>>

\* Which calls a statement makes.
JobInv ==
  /\ \E S : job \in Seq(S)
  /\ ran.op = "drop" => \A i \in DOMAIN job : job[i].call \in {"close", "remove"}
  /\ ran.op \in {"dump", "upset"} => \A i \in DOMAIN job : job[i].call \in {"groups", "rows", "write"}
  /\ ran.op \notin {"create", "drop", "dump", "upset"} => job = <<>>
  /\ handle \in {"none", "idle"} => job = <<>>

\* A transaction that is not what it should be has a statement to blame.
TransInv ==
  /\ trans # "ok" => opened = NoGraph /\ misused
  /\ ran.op \in {"dump", "upset"} /\ job # <<>> /\ opened = NoGraph => misused

CreateInv ==
  Creating =>
    IF cut THEN code = "ok" /\ (misused \/ mode = "read_only")
    ELSE \E k \in Nat : LeftOf(ran, k) /\ MadeBy(k) /\ (job # <<>> => code = "ok")

FreshInv == handle = "none" => ran = None /\ trans = "ok" /\ ~cut

CInv == TextInv /\ JobInv /\ TransInv /\ CreateInv /\ FreshInv

-------------------------------------------------------------------------------
LEMMA Joined ==
  ASSUME NEW S, NEW p \in Seq(S), NEW q \in Seq(S)
  PROVE  /\ p \o q \in Seq(S) /\ Len(p \o q) = Len(p) + Len(q)
         /\ \A i \in DOMAIN p : (p \o q)[i] = p[i]
         /\ \A i \in DOMAIN q : (p \o q)[Len(p) + i] = q[i]
OBVIOUS

LEMMA CallsOfCreate ==
  ASSUME NEW s \in Stmts, s.op = "create"
  PROVE  /\ \E S : CallsOf(s) \in Seq(S)
         /\ Len(CallsOf(s)) = 1 + Len(s.groups) + Len(s.indexes)
         /\ CallsOf(s)[1] = CallOn("open", s.graph)
         /\ \A i \in DOMAIN s.groups : CallsOf(s)[1 + i] = CallOn("map", s.groups[i])
         /\ \A i \in DOMAIN s.indexes :
              CallsOf(s)[1 + Len(s.groups) + i] = CallOn("index", s.indexes[i])
<1> DEFINE a == <<CallOn("open", s.graph)>>
           b == [i \in DOMAIN s.groups |-> CallOn("map", s.groups[i])]
           c == [i \in DOMAIN s.indexes |-> CallOn("index", s.indexes[i])]
           S == {CallOn("open", s.graph)} \cup {CallOn("map", x) : x \in ClassName}
                  \cup {CallOn("index", x) : x \in IndexName}
<1>1. s.groups \in Seq(ClassName) /\ s.indexes \in Seq(IndexName) BY CreateAssumption
<1>2. CallsOf(s) = a \o b \o c BY DEF CallsOf
<1>3. a \in Seq(S) /\ Len(a) = 1 /\ a[1] = CallOn("open", s.graph) OBVIOUS
<1>4. b \in Seq(S) /\ Len(b) = Len(s.groups) /\ DOMAIN b = DOMAIN s.groups
  <2>1. \A i \in DOMAIN s.groups : s.groups[i] \in ClassName /\ CallOn("map", s.groups[i]) \in S
    BY <1>1
  <2>2. b \in [1 .. Len(s.groups) -> S] BY <1>1, <2>1
  <2> HIDE DEF S
  <2> QED BY <1>1, <2>2
<1>5. c \in Seq(S) /\ Len(c) = Len(s.indexes) /\ DOMAIN c = DOMAIN s.indexes
  <2>1. \A i \in DOMAIN s.indexes : s.indexes[i] \in IndexName /\ CallOn("index", s.indexes[i]) \in S
    BY <1>1
  <2>2. c \in [1 .. Len(s.indexes) -> S] BY <1>1, <2>1
  <2> HIDE DEF S
  <2> QED BY <1>1, <2>2
<1>6. \A i \in DOMAIN s.groups : b[i] = CallOn("map", s.groups[i]) OBVIOUS
<1>7. \A i \in DOMAIN s.indexes : c[i] = CallOn("index", s.indexes[i]) OBVIOUS
<1> HIDE DEF a, b, c, S
<1>8. /\ a \o b \in Seq(S) /\ Len(a \o b) = 1 + Len(s.groups)
      /\ (a \o b)[1] = CallOn("open", s.graph)
      /\ \A i \in DOMAIN s.groups : (a \o b)[1 + i] = CallOn("map", s.groups[i])
  <2>1. /\ a \o b \in Seq(S) /\ Len(a \o b) = Len(a) + Len(b)
        /\ \A i \in DOMAIN a : (a \o b)[i] = a[i]
        /\ \A i \in DOMAIN b : (a \o b)[Len(a) + i] = b[i]
    <3>1. a \in Seq(S) /\ b \in Seq(S) BY <1>3, <1>4
    <3>2. a \o b \in Seq(S) BY <3>1, Joined
    <3>3. Len(a \o b) = Len(a) + Len(b) BY <3>1, Joined
    <3>4. \A i \in DOMAIN a : (a \o b)[i] = a[i] BY <3>1, Joined
    <3>5. \A i \in DOMAIN b : (a \o b)[Len(a) + i] = b[i] BY <3>1, Joined
    <3> QED BY <3>2, <3>3, <3>4, <3>5
  <2>2. DOMAIN s.groups = 1 .. Len(s.groups) /\ Len(s.groups) \in Nat BY <1>1
  <2>3. ASSUME NEW i \in DOMAIN s.groups PROVE (a \o b)[1 + i] = b[i]
    BY <1>3, <1>4, <2>1, <2>2
  <2> QED BY <1>3, <1>4, <1>6, <2>1, <2>2, <2>3
<1> DEFINE ab == a \o b
<1> HIDE DEF ab
<1>9. /\ ab \o c \in Seq(S)
      /\ Len(ab \o c) = 1 + Len(s.groups) + Len(s.indexes)
      /\ \A i \in 1 .. Len(ab) : (ab \o c)[i] = ab[i]
      /\ \A i \in DOMAIN s.indexes : (ab \o c)[1 + Len(s.groups) + i] = CallOn("index", s.indexes[i])
  <2>0. ab \in Seq(S) /\ Len(ab) = 1 + Len(s.groups) BY <1>8 DEF ab
  <2>1. /\ ab \o c \in Seq(S) /\ Len(ab \o c) = Len(ab) + Len(c)
        /\ \A i \in DOMAIN ab : (ab \o c)[i] = ab[i]
        /\ \A i \in DOMAIN c : (ab \o c)[Len(ab) + i] = c[i]
    <3>1. ab \in Seq(S) /\ c \in Seq(S) BY <1>5, <2>0
    <3>2. ab \o c \in Seq(S) BY <3>1, Joined
    <3>3. Len(ab \o c) = Len(ab) + Len(c) BY <3>1, Joined
    <3>4. \A i \in DOMAIN ab : (ab \o c)[i] = ab[i] BY <3>1, Joined
    <3>5. \A i \in DOMAIN c : (ab \o c)[Len(ab) + i] = c[i] BY <3>1, Joined
    <3> QED BY <3>2, <3>3, <3>4, <3>5
  <2>2. DOMAIN s.indexes = 1 .. Len(s.indexes) /\ Len(s.indexes) \in Nat /\ Len(s.groups) \in Nat BY <1>1
  <2>3. ASSUME NEW i \in DOMAIN s.indexes PROVE (ab \o c)[1 + Len(s.groups) + i] = c[i]
    BY <1>5, <2>0, <2>1, <2>2
  <2>4. \A i \in 1 .. Len(ab) : (ab \o c)[i] = ab[i] BY <1>5, <2>0, <2>1, <2>2
  <2> QED BY <1>5, <1>7, <2>0, <2>1, <2>2, <2>3, <2>4
<1>10. CallsOf(s)[1] = CallOn("open", s.graph)
       /\ \A i \in DOMAIN s.groups : CallsOf(s)[1 + i] = CallOn("map", s.groups[i])
  <2>1. Len(ab) = 1 + Len(s.groups) /\ DOMAIN s.groups = 1 .. Len(s.groups) /\ Len(s.groups) \in Nat
    BY <1>1, <1>8 DEF ab
  <2>2. ab[1] = CallOn("open", s.graph) /\ \A i \in DOMAIN s.groups : ab[1 + i] = CallOn("map",
         s.groups[i])
    BY <1>8 DEF ab
  <2>3. (ab \o c)[1] = ab[1] /\ \A i \in DOMAIN s.groups : (ab \o c)[1 + i] = ab[1 + i] BY <1>9, <2>1
  <2> QED BY <1>2, <2>2, <2>3 DEF ab
<1> QED BY <1>2, <1>9, <1>10 DEF ab

LEMMA Place ==
  ASSUME NEW k \in Nat, NEW a \in Nat, NEW b \in Nat, NEW n \in Nat \ {0}, n + k = 1 + a + b
  PROVE  /\ k = 0 \/ k \in 1 .. a \/ k - a \in 1 .. b
         /\ k + 1 = 1 + a + (k - a)
OBVIOUS

(* The call of a creation that comes next, and how many were before it. *)
LEMMA NextOfCreate ==
  ASSUME CInv, Creating, job # <<>>
  PROVE  /\ code = "ok" /\ ran \in Stmts
         /\ \E k \in Nat :
              /\ LeftOf(ran, k) /\ MadeBy(k)
              /\ \/ k = 0 /\ Head(job) = CallOn("open", ran.graph)
                 \/ k \in DOMAIN ran.groups /\ Head(job) = CallOn("map", ran.groups[k])
                 \/ /\ k - Len(ran.groups) \in DOMAIN ran.indexes
                    /\ Head(job) = CallOn("index", ran.indexes[k - Len(ran.groups)])
<1>1. ~cut /\ ran \in Stmts /\ ran.op = "create" BY DEF CInv, TextInv, Creating
<1>2. PICK k \in Nat : LeftOf(ran, k) /\ MadeBy(k) /\ code = "ok" BY <1>1 DEF CInv, CreateInv
<1>13. k \in Nat BY <1>2 DEF LeftOf
<1>3. PICK S : job \in Seq(S) BY DEF CInv, JobInv
<1>4. 1 \in DOMAIN job /\ job[1] = Head(job) /\ Len(job) \in Nat \ {0} BY <1>3
<1>5. Head(job) = CallsOf(ran)[k + 1] /\ Len(job) + k = Len(CallsOf(ran)) BY <1>2, <1>4 DEF LeftOf
<1>6. ran.groups \in Seq(ClassName) /\ ran.indexes \in Seq(IndexName) BY <1>1, CreateAssumption
<1>7. /\ Len(ran.groups) \in Nat /\ Len(ran.indexes) \in Nat
      /\ DOMAIN ran.groups = 1 .. Len(ran.groups) /\ DOMAIN ran.indexes = 1 .. Len(ran.indexes)
  BY <1>6
<1>8. Len(CallsOf(ran)) = 1 + Len(ran.groups) + Len(ran.indexes)
      /\ CallsOf(ran)[1] = CallOn("open", ran.graph)
  BY <1>1, CallsOfCreate
<1>9. /\ k = 0 \/ k \in 1 .. Len(ran.groups) \/ k - Len(ran.groups) \in 1 .. Len(ran.indexes)
      /\ k + 1 = 1 + Len(ran.groups) + (k - Len(ran.groups)) /\ k + 1 = 1 + k
  <2>1. Len(job) + k = 1 + Len(ran.groups) + Len(ran.indexes) BY <1>5, <1>8
  <2>2. 1 + k = k + 1 BY <1>13
  <2>3. Len(job) \in Nat \ {0} /\ Len(ran.groups) \in Nat /\ Len(ran.indexes) \in Nat BY <1>4, <1>7
  <2> QED BY <1>13, <2>1, <2>2, <2>3, Place
<1>10. CASE k = 0
  <2>1. 0 + 1 = 1 OBVIOUS
  <2>2. Head(job) = CallOn("open", ran.graph) BY <1>5, <1>8, <1>10, <2>1
  <2> QED BY <1>1, <1>2, <1>10, <2>2
<1>11. CASE k \in DOMAIN ran.groups
  <2>1. CallsOf(ran)[1 + k] = CallOn("map", ran.groups[k]) BY <1>1, <1>11, CallsOfCreate
  <2> QED BY <1>1, <1>2, <1>5, <1>9, <1>11, <2>1
<1>12. CASE k - Len(ran.groups) \in DOMAIN ran.indexes
  <2>1. CallsOf(ran)[1 + Len(ran.groups) + (k - Len(ran.groups))]
          = CallOn("index", ran.indexes[k - Len(ran.groups)])
    BY <1>1, <1>12, CallsOfCreate
  <2> QED BY <1>1, <1>2, <1>5, <1>9, <1>12, <2>1
<1> QED BY <1>7, <1>9, <1>10, <1>11, <1>12, <1>13

(* Who makes the call that comes next. *)
LEMMA WhoCalls ==
  ASSUME CInv, NEW c, Calling(c)
  PROVE  /\ c \in {"open", "map", "index"} => Creating
         /\ c \in {"close", "remove"} => ran.op = "drop"
         /\ c \in {"groups", "rows", "write"} => ran.op \in {"dump", "upset"}
         /\ ~cut /\ handle = "busy" /\ job # <<>>
<1>1. handle = "busy" /\ job # <<>> /\ Head(job).call = c BY DEF Calling
<1>2. ~cut BY <1>1 DEF CInv, TextInv
<1>3. PICK S : job \in Seq(S) BY DEF CInv, JobInv
<1>4. 1 \in DOMAIN job /\ job[1].call = c BY <1>1, <1>3
<1>5. Creating => c \in {"open", "map", "index"}
  <2>1. SUFFICES ASSUME Creating PROVE c \in {"open", "map", "index"} OBVIOUS
  <2>2. \/ Head(job) = CallOn("open", ran.graph)
        \/ \E x : Head(job) = CallOn("map", x) \/ Head(job) = CallOn("index", x)
    BY <1>1, <2>1, NextOfCreate
  <2> QED BY <1>1, <2>2 DEF CallOn
<1>6. ran.op = "drop" => c \in {"close", "remove"} BY <1>4 DEF CInv, JobInv
<1>7. ran.op \in {"dump", "upset"} => c \in {"groups", "rows", "write"} BY <1>4 DEF CInv, JobInv
<1>8. ran.op \in {"create", "drop", "dump", "upset"} BY <1>1 DEF CInv, JobInv
<1> QED BY <1>1, <1>2, <1>5, <1>6, <1>7, <1>8 DEF Creating

LEMMA GoneOn ==
  ASSUME NEW k \in Nat, LeftOf(ran, k), \E S : job \in Seq(S), job # <<>>, job' = Tail(job), UNCHANGED ran
  PROVE  LeftOf(ran, k + 1)' /\ (\E S : job' \in Seq(S))
<1>1. PICK S : job \in Seq(S) OBVIOUS
<1>2. /\ Tail(job) \in Seq(S) /\ Len(Tail(job)) = Len(job) - 1 /\ Len(job) \in Nat
      /\ \A i \in DOMAIN Tail(job) : Tail(job)[i] = job[i + 1] /\ i + 1 \in DOMAIN job /\ i \in Nat
  BY <1>1
<1>3. \A i \in DOMAIN job : job[i] = CallsOf(ran)[k + i] BY DEF LeftOf
<1>4. \A i \in DOMAIN Tail(job) : Tail(job)[i] = CallsOf(ran)[k + 1 + i]
  <2> SUFFICES ASSUME NEW i \in DOMAIN Tail(job) PROVE Tail(job)[i] = CallsOf(ran)[k + 1 + i] OBVIOUS
  <2>1. Tail(job)[i] = CallsOf(ran)[k + (i + 1)] BY <1>2, <1>3
  <2>2. k + (i + 1) = k + 1 + i BY <1>2
  <2> QED BY <2>1, <2>2
<1>5. Len(Tail(job)) + (k + 1) = Len(CallsOf(ran)) BY <1>2 DEF LeftOf
<1>6. CallsOf(ran') = CallsOf(ran) OBVIOUS
<1> QED BY <1>2, <1>4, <1>5, <1>6 DEF LeftOf

(* Any step of a statement that is no creation. *)
LEMMA OtherKeeps ==
  ASSUME CInv, ran.op \in {"drop", "dump", "upset"}, UNCHANGED ran, handle' \in {"busy", "undefined"},
         text' = text \/ text' = <<>>, cut' => text' = <<>> /\ job' = <<>>, \E S : job' \in Seq(S),
         ran.op = "drop" => \A i \in DOMAIN job' : job'[i].call \in {"close", "remove"},
         ran.op \in {"dump", "upset"} => \A i \in DOMAIN job' : job'[i].call \in {"groups",
          "rows", "write"},
         TransInv'
  PROVE  CInv'
<1>1. TextInv'
  <2>1. text \in Seq(Stmts) /\ <<>> \in Seq(Stmts) BY DEF CInv, TextInv
  <2>2. text' \in Seq(Stmts) BY <2>1
  <2> QED BY <2>2 DEF TextInv, Creating
<1>2. JobInv' BY DEF JobInv
<1>3. CreateInv' BY DEF CreateInv, Creating
<1>4. FreshInv' BY DEF FreshInv
<1> QED BY <1>1, <1>2, <1>3, <1>4 DEF CInv

-------------------------------------------------------------------------------
LEMMA CInit == EngineInit => CInv
<1> SUFFICES ASSUME EngineInit PROVE CInv OBVIOUS
<1>1. <<>> \in Seq(Stmts) OBVIOUS
<1> QED BY <1>1 DEF EngineInit, Init, CInv, TextInv, JobInv, TransInv, CreateInv, FreshInv, None, Creating

LEMMA StatementKeeps == ASSUME CInv, Statement PROVE CInv'
<1> DEFINE s == Head(text)
           run == s.op \in {"create", "drop", "dump", "upset"} /\ code' \notin Negative
<1>1. /\ handle = "busy" /\ job = <<>> /\ text # <<>>
         /\ UNCHANGED <<handle, opened, trans, mode, cut, replaced, schema>>
      /\ code' = IF s.op = "truncated" THEN code ELSE Reduced(s)
      /\ text' = IF s.op \in {"broken", "truncated"} THEN <<>> ELSE Tail(text)
  BY DEF Statement, store
<1>2. IF run THEN /\ job' = CallsOf(s) /\ ran' = s
                  /\ relations' = IF s.op = "create" THEN relations \cup s.edges ELSE relations
                  /\ misused' = (misused \/ (s.op \in {"dump", "upset"} /\ opened = NoGraph))
      ELSE UNCHANGED <<job, ran, relations, misused>>
  BY DEF Statement
<1>3. ~cut /\ text \in Seq(Stmts) BY <1>1 DEF CInv, TextInv
<1>4. s \in Stmts /\ text' \in Seq(Stmts) /\ ~cut'
  <2>1. <<>> \in Seq(Stmts) /\ Tail(text) \in Seq(Stmts) /\ Head(text) \in Stmts BY <1>1, <1>3
  <2> QED BY <1>1, <1>3, <2>1
<1> HIDE DEF s
<1>5. CASE ~run
  <2>1. UNCHANGED <<job, ran, relations, misused>> BY <1>2, <1>5
  <2>2. TextInv' BY <1>4, <2>1 DEF CInv, TextInv, Creating
  <2>3. JobInv' BY <1>1, <2>1 DEF CInv, JobInv
  <2>4. TransInv' BY <1>1, <2>1 DEF CInv, TransInv
  <2>5. CreateInv'
    <3>1. SUFFICES ASSUME Creating
                   PROVE  \E k \in Nat : (LeftOf(ran, k) /\ MadeBy(k) /\ (job # <<>> => code = "ok"))'
      <4>1. ~cut' /\ ran' = ran BY <1>4, <2>1
      <4> QED BY <4>1 DEF CreateInv, Creating
    <3>2. PICK k \in Nat : LeftOf(ran, k) /\ MadeBy(k) BY <1>3, <3>1 DEF CInv, CreateInv
    <3>3. LeftOf(ran, k)' BY <2>1, <3>2 DEF LeftOf
    <3>4. MadeBy(k)' BY <1>1, <2>1, <3>2 DEF MadeBy
    <3>5. job' = <<>> BY <1>1, <2>1
    <3> QED BY <3>2, <3>3, <3>4, <3>5
  <2>6. FreshInv' BY <1>1 DEF FreshInv
  <2> QED BY <2>2, <2>3, <2>4, <2>5, <2>6 DEF CInv
<1>6. CASE run /\ s.op = "create"
  <2>1. /\ job' = CallsOf(s) /\ ran' = s /\ relations' = relations \cup s.edges
    BY <1>2, <1>6
  <2>8. misused => misused' BY <1>2, <1>6
  <2>2. code' = "ok" BY <1>1, <1>6 DEF Reduced
  <2>3. TextInv' BY <1>4, <2>1 DEF TextInv
  <2>4. JobInv' BY <1>1, <1>4, <1>6, <2>1, CallsOfCreate DEF JobInv
  <2>5. TransInv' BY <1>1, <1>6, <2>1, <2>8 DEF CInv, TransInv
  <2>6. CreateInv'
    <3>1. s.groups \in Seq(ClassName) /\ s.indexes \in Seq(IndexName) BY <1>4, <1>6, CreateAssumption
    <3>2. \E S : CallsOf(s) \in Seq(S) BY <1>4, <1>6, CallsOfCreate
    <3>3. LeftOf(ran, 0)'
      <4>1. Len(CallsOf(s)) + 0 = Len(CallsOf(s)) /\ \A i \in DOMAIN CallsOf(s) : 0 + i = i BY <3>2
      <4> QED BY <2>1, <4>1 DEF LeftOf
    <3>4. MadeBy(0)'
      <4>1. DOMAIN s.groups \subseteq Nat \ {0} /\ DOMAIN s.indexes \subseteq Nat \ {0}
            /\ Len(s.groups) \in Nat
        BY <3>1
      <4>2. \A i \in DOMAIN s.groups : ~(1 + i <= 0) BY <4>1
      <4>3. \A i \in DOMAIN s.indexes : ~(1 + Len(s.groups) + i <= 0) BY <4>1
      <4> QED BY <2>1, <4>2, <4>3 DEF MadeBy
    <3> QED BY <1>4, <2>2, <3>3, <3>4 DEF CreateInv
  <2>7. FreshInv' BY <1>1 DEF FreshInv
  <2> QED BY <2>3, <2>4, <2>5, <2>6, <2>7 DEF CInv
<1>7. CASE run /\ s.op # "create"
  <2>1. job' = CallsOf(s) /\ ran' = s BY <1>2, <1>7
  <2>2. misused' = (misused \/ (s.op \in {"dump", "upset"} /\ opened = NoGraph)) BY <1>2, <1>7
  <2>3. TextInv' BY <1>4, <1>7, <2>1 DEF TextInv, Creating
  <2>4. JobInv'
    <3>1. CASE s.op = "drop"
      <4>1. CallsOf(s) = <<Call0("close"), CallOn("remove", s.graph)>> BY <3>1 DEF CallsOf
      <4>2. CallsOf(s) \in Seq({Call0("close"), CallOn("remove", s.graph)}) BY <4>1
      <4>3. \A i \in DOMAIN CallsOf(s) : CallsOf(s)[i] \in {Call0("close"), CallOn("remove", s.graph)}
        BY <4>2
      <4>4. \A c \in {Call0("close"), CallOn("remove", s.graph)} : c.call \in {"close", "remove"}
        BY DEF Call0, CallOn
      <4>5. \A i \in DOMAIN job' : job'[i].call \in {"close", "remove"} BY <2>1, <4>3, <4>4
      <4>6. handle' = "busy" /\ ran'.op = "drop" BY <1>1, <2>1, <3>1
      <4> QED BY <2>1, <4>2, <4>5, <4>6 DEF JobInv
    <3>2. CASE s.op = "dump"
      <4>1. CallsOf(s) = <<Call0("groups")>> BY <3>2 DEF CallsOf
      <4>2. CallsOf(s) \in Seq({Call0("groups")}) BY <4>1
      <4>3. \A i \in DOMAIN CallsOf(s) : CallsOf(s)[i] \in {Call0("groups")} BY <4>2
      <4>4. \A c \in {Call0("groups")} : c.call \in {"groups", "rows", "write"} BY DEF Call0
      <4>5. \A i \in DOMAIN job' : job'[i].call \in {"groups", "rows", "write"} BY <2>1, <4>3, <4>4
      <4>6. handle' = "busy" /\ ran'.op = "dump" BY <1>1, <2>1, <3>2
      <4> QED BY <2>1, <4>2, <4>5, <4>6 DEF JobInv
    <3>3. CASE s.op = "upset"
      <4>1. CallsOf(s) = <<CallOn("write", s.on)>> BY <3>3 DEF CallsOf
      <4>2. CallsOf(s) \in Seq({CallOn("write", s.on)}) BY <4>1
      <4>3. \A i \in DOMAIN CallsOf(s) : CallsOf(s)[i] \in {CallOn("write", s.on)} BY <4>2
      <4>4. \A c \in {CallOn("write", s.on)} : c.call \in {"groups", "rows", "write"} BY DEF CallOn
      <4>5. \A i \in DOMAIN job' : job'[i].call \in {"groups", "rows", "write"} BY <2>1, <4>3, <4>4
      <4>6. handle' = "busy" /\ ran'.op = "upset" BY <1>1, <2>1, <3>3
      <4> QED BY <2>1, <4>2, <4>5, <4>6 DEF JobInv
    <3> QED BY <1>7, <3>1, <3>2, <3>3
  <2>5. TransInv' BY <1>1, <2>1, <2>2 DEF CInv, TransInv
  <2>6. CreateInv' BY <1>7, <2>1 DEF CreateInv, Creating
  <2>7. FreshInv' BY <1>1 DEF FreshInv
  <2> QED BY <2>3, <2>4, <2>5, <2>6, <2>7 DEF CInv
<1> QED BY <1>5, <1>6, <1>7

LEMMA MadeOn ==
  ASSUME CInv, Creating, job # <<>>, GoesOn, UNCHANGED ran, TransInv',
         NEW k \in Nat, LeftOf(ran, k), MadeBy(k + 1)'
  PROVE  CInv'
<1>1. code = "ok" /\ ran \in Stmts BY NextOfCreate
<1>2. ~cut /\ handle \notin {"none", "idle"} BY DEF CInv, TextInv, JobInv
<1>3. UNCHANGED <<handle, text, cut>> /\ code' = "ok" /\ job' = Tail(job) BY <1>1 DEF GoesOn
<1>4. LeftOf(ran, k + 1)' /\ (\E S : job' \in Seq(S)) BY <1>3, GoneOn DEF CInv, JobInv
<1>5. TextInv' BY <1>1, <1>2, <1>3 DEF CInv, TextInv
<1>6. JobInv' BY <1>2, <1>3, <1>4 DEF JobInv, Creating
<1>7. CreateInv'
  <2>1. k + 1 \in Nat OBVIOUS
  <2> QED BY <1>2, <1>3, <1>4, <2>1 DEF CreateInv
<1>8. FreshInv' BY <1>2, <1>3 DEF FreshInv
<1> QED BY <1>5, <1>6, <1>7, <1>8 DEF CInv

LEMMA ThrownOut ==
  ASSUME CInv, Creating, job # <<>>, Throws, UNCHANGED ran, TransInv', misused' \/ mode' = "read_only"
  PROVE  CInv'
<1>1. code = "ok" /\ ran \in Stmts BY NextOfCreate
<1>2. handle \notin {"none", "idle"} BY DEF CInv, JobInv
<1>3. UNCHANGED <<handle, code>> /\ job' = <<>> /\ text' = <<>> /\ cut' = TRUE BY DEF Throws
<1>4. <<>> \in Seq(Stmts) OBVIOUS
<1>5. TextInv' BY <1>1, <1>3, <1>4 DEF TextInv
<1>6. JobInv' BY <1>2, <1>3, <1>4 DEF JobInv, Creating
<1>7. CreateInv' BY <1>1, <1>3 DEF CreateInv
<1>8. FreshInv' BY <1>2, <1>3 DEF FreshInv
<1> QED BY <1>5, <1>6, <1>7, <1>8 DEF CInv

(* The first call of a creation is the open, the next ones are its groups. *)
LEMMA OpenFirst ==
  ASSUME CInv, Calling("open")
  PROVE  /\ Creating /\ ~cut /\ job # <<>> /\ Arg = ran.graph /\ ran \in Stmts
         /\ LeftOf(ran, 0) /\ MadeBy(0)
<1>1. Creating /\ ~cut /\ job # <<>> BY WhoCalls
<1>2. PICK k \in Nat :
        /\ LeftOf(ran, k) /\ MadeBy(k) /\ ran \in Stmts
        /\ \/ k = 0 /\ Head(job) = CallOn("open", ran.graph)
           \/ \E x : Head(job) = CallOn("map", x) \/ Head(job) = CallOn("index", x)
  BY <1>1, NextOfCreate
<1>3. Head(job).call = "open" BY DEF Calling
<1>4. k = 0 /\ Head(job) = CallOn("open", ran.graph) BY <1>2, <1>3 DEF CallOn
<1> QED BY <1>1, <1>2, <1>4 DEF Arg, CallOn

LEMMA GroupNext ==
  ASSUME CInv, Calling("map")
  PROVE  /\ Creating /\ ~cut /\ job # <<>> /\ ran \in Stmts
         /\ \E k \in DOMAIN ran.groups : LeftOf(ran, k) /\ MadeBy(k) /\ Arg = ran.groups[k] /\ k \in Nat
<1>1. Creating /\ ~cut /\ job # <<>> BY WhoCalls
<1>2. PICK k \in Nat :
        /\ LeftOf(ran, k) /\ MadeBy(k) /\ ran \in Stmts
        /\ \/ k \in DOMAIN ran.groups /\ Head(job) = CallOn("map", ran.groups[k])
           \/ \E x : Head(job) = CallOn("open", x) \/ Head(job) = CallOn("index", x)
  BY <1>1, NextOfCreate
<1>3. Head(job).call = "map" BY DEF Calling
<1>4. k \in DOMAIN ran.groups /\ Head(job) = CallOn("map", ran.groups[k]) BY <1>2, <1>3 DEF CallOn
<1> QED BY <1>1, <1>2, <1>4 DEF Arg, CallOn

LEMMA IndexNext ==
  ASSUME CInv, Calling("index")
  PROVE  /\ Creating /\ ~cut /\ job # <<>> /\ ran \in Stmts
         /\ \E k \in Nat :
              /\ LeftOf(ran, k) /\ MadeBy(k) /\ k - Len(ran.groups) \in DOMAIN ran.indexes
              /\ Arg = ran.indexes[k - Len(ran.groups)]
<1>1. Creating /\ ~cut /\ job # <<>> BY WhoCalls
<1>2. PICK k \in Nat :
        /\ LeftOf(ran, k) /\ MadeBy(k) /\ ran \in Stmts
        /\ \/ /\ k - Len(ran.groups) \in DOMAIN ran.indexes
              /\ Head(job) = CallOn("index", ran.indexes[k - Len(ran.groups)])
           \/ \E x : Head(job) = CallOn("open", x) \/ Head(job) = CallOn("map", x)
  BY <1>1, NextOfCreate
<1>3. Head(job).call = "index" BY DEF Calling
<1>4. /\ k - Len(ran.groups) \in DOMAIN ran.indexes
      /\ Head(job) = CallOn("index", ran.indexes[k - Len(ran.groups)])
  BY <1>2, <1>3 DEF CallOn
<1> QED BY <1>1, <1>2, <1>4 DEF Arg, CallOn

LEMMA CloseOtherKeeps == ASSUME CInv, CloseOther PROVE CInv'
<1>1. Calling("open") /\ trans' = "ok" /\ UNCHANGED <<handle, text, job, code, relations, cut,
       replaced, ran>>
  BY DEF CloseOther, tell, Quiet
<1>2. Creating /\ ~cut /\ job # <<>> /\ ran \in Stmts /\ LeftOf(ran, 0) /\ MadeBy(0) BY <1>1, OpenFirst
<1>3. code = "ok" /\ handle \notin {"none", "idle"} BY <1>2, NextOfCreate DEF CInv, JobInv
<1>4. TextInv' BY <1>1 DEF CInv, TextInv, Creating
<1>5. JobInv' BY <1>1 DEF CInv, JobInv
<1>6. TransInv' BY <1>1, <1>2 DEF TransInv, Creating
<1>7. CreateInv'
  <2>1. LeftOf(ran, 0)' BY <1>1, <1>2 DEF LeftOf
  <2>2. MadeBy(0)'
    <3>1. ran.groups \in Seq(ClassName) /\ ran.indexes \in Seq(IndexName)
      BY <1>2, CreateAssumption DEF Creating
    <3>2. DOMAIN ran.groups \subseteq Nat \ {0} /\ DOMAIN ran.indexes \subseteq Nat \ {0}
          /\ Len(ran.groups) \in Nat
      BY <3>1
    <3>3. \A i \in DOMAIN ran.groups : ~(1 + i <= 0) BY <3>2
    <3>4. \A i \in DOMAIN ran.indexes : ~(1 + Len(ran.groups) + i <= 0) BY <3>2
    <3>5. ~(0 > 0) OBVIOUS
    <3>6. ran.edges \subseteq relations BY <1>2, <3>5 DEF MadeBy
    <3> QED BY <1>1, <3>3, <3>4, <3>5, <3>6 DEF MadeBy
  <2> QED BY <1>1, <1>2, <1>3, <2>1, <2>2 DEF CreateInv
<1>8. FreshInv' BY <1>1, <1>3 DEF FreshInv
<1> QED BY <1>4, <1>5, <1>6, <1>7, <1>8 DEF CInv

LEMMA OpenNamedKeeps == ASSUME CInv, OpenNamed PROVE CInv'
<1>1. /\ Calling("open") /\ trans = "ok" /\ trans' = trans /\ GoesOn /\ UNCHANGED ran
      /\ opened' = Arg /\ replaced' = Exists(Arg)
      /\ relations' = IF Exists(Arg) THEN filed[Arg] ELSE relations
  BY DEF OpenNamed, OpensStore, Open, Quiet
<1>2. /\ Creating /\ ~cut /\ job # <<>> /\ ran \in Stmts /\ Arg = ran.graph /\ LeftOf(ran, 0) /\ MadeBy(0)
  BY <1>1, OpenFirst
<1>3. TransInv' BY <1>1, <1>2 DEF TransInv, Creating
<1>4. MadeBy(0 + 1)'
  <2>1. ran.groups \in Seq(ClassName) /\ ran.indexes \in Seq(IndexName)
    BY <1>2, CreateAssumption DEF Creating
  <2>2. DOMAIN ran.groups \subseteq Nat \ {0} /\ DOMAIN ran.indexes \subseteq Nat \ {0}
        /\ Len(ran.groups) \in Nat
    BY <2>1
  <2>3. \A i \in DOMAIN ran.groups : ~(1 + i <= 0 + 1) BY <2>2
  <2>4. \A i \in DOMAIN ran.indexes : ~(1 + Len(ran.groups) + i <= 0 + 1) BY <2>2
  <2>5. ~(0 > 0) /\ 0 + 1 > 0 OBVIOUS
  <2>6. ran.edges \subseteq relations BY <1>2, <2>5 DEF MadeBy
  <2>7. replaced' \/ ran.edges \subseteq relations' BY <1>1, <2>6
  <2> QED BY <1>1, <1>2, <2>3, <2>4, <2>5, <2>7 DEF MadeBy
<1> QED BY <1>1, <1>2, <1>3, <1>4, MadeOn

LEMMA OpenUnreadableKeeps == ASSUME CInv, OpenUnreadable PROVE CInv'
<1>1. /\ Calling("open") /\ trans = "ok" /\ trans' = trans /\ Throws /\ UNCHANGED ran
         /\ mode' = "read_only"
  BY DEF OpenUnreadable, Quiet
<1>2. Creating /\ job # <<>> BY <1>1, OpenFirst
<1>3. TransInv' BY <1>1, <1>2 DEF TransInv, Creating
<1> QED BY <1>1, <1>2, <1>3, ThrownOut

LEMMA OpenOnNullKeeps == ASSUME CInv, OpenOnNull PROVE CInv'
<1>1. Calling("open") /\ trans = "null" /\ Throws /\ UNCHANGED <<ran, opened, misused>>
  BY DEF OpenOnNull, Quiet
<1>2. Creating /\ job # <<>> BY <1>1, OpenFirst
<1>3. opened = NoGraph /\ misused BY <1>1 DEF CInv, TransInv
<1>4. TransInv' BY <1>1, <1>2, <1>3 DEF TransInv, Creating
<1> QED BY <1>1, <1>2, <1>3, <1>4, ThrownOut

\* A schema has classes and indexes.
IsSchema(x) == x = [cls |-> x.cls, idx |-> x.idx]

LEMMA SchemaWith ==
  ASSUME NEW x, IsSchema(x), NEW v, NEW n, NEW a
  PROVE  /\ [x EXCEPT !.cls = v] = [cls |-> v, idx |-> x.idx]
         /\ [x EXCEPT !.idx = v] = [cls |-> x.cls, idx |-> v]
         /\ IsSchema([x EXCEPT !.cls = v]) /\ IsSchema([x EXCEPT !.idx = v])
         /\ IsSchema([x EXCEPT !.idx[n] = v]) /\ IsSchema([x EXCEPT !.cls[n].key = v])
         /\ IsSchema([x EXCEPT !.cls[n].attrs = Append(@, a)])
<1> DEFINE c == x.cls
           d == x.idx
<1>1. x = [cls |-> c, idx |-> d] BY DEF IsSchema
<1> HIDE DEF c, d
<1>2. [[cls |-> c, idx |-> d] EXCEPT !.cls = v] = [cls |-> v, idx |-> d] OBVIOUS
<1>4. [[cls |-> c, idx |-> d] EXCEPT !.idx = v] = [cls |-> c, idx |-> v] OBVIOUS
<1>5. [[cls |-> c, idx |-> d] EXCEPT !.idx[n] = v] = [cls |-> c, idx |-> [d EXCEPT ![n] = v]] OBVIOUS
<1>6. [[cls |-> c, idx |-> d] EXCEPT !.cls[n].key = v] = [cls |-> [c EXCEPT ![n].key = v],
       idx |-> d] OBVIOUS
<1>7. [[cls |-> c, idx |-> d] EXCEPT !.cls[n].attrs = Append(@, a)]
        = [cls |-> [c EXCEPT ![n].attrs = Append(@, a)], idx |-> d]
  OBVIOUS
<1>3. \A e, f : IsSchema([cls |-> e, idx |-> f]) BY DEF IsSchema
<1> QED BY <1>1, <1>2, <1>3, <1>4, <1>5, <1>6, <1>7 DEF c, d

LEMMA AddGroupKeeps == ASSUME CInv, IsSchema(schema), AddGroup PROVE CInv'
<1>1. Calling("map") /\ GoesOn /\ UNCHANGED <<ran, opened, trans, misused, replaced, relations>>
  BY DEF AddGroup, AddMap, object, Quiet
<1>2. DOMAIN schema'.cls = DOMAIN schema.cls \cup {Arg} /\ schema'.idx = schema.idx
  <2>1. schema' = IF Arg \in DOMAIN schema.cls THEN schema
                  ELSE [schema EXCEPT !.cls = Put(@, Arg, [key |-> "Uninitialize", attrs |-> <<>>])]
    BY DEF AddGroup, AddMap
  <2>2. CASE Arg \in DOMAIN schema.cls BY <2>1, <2>2
  <2>3. CASE Arg \notin DOMAIN schema.cls
    <3> DEFINE c == Put(schema.cls, Arg, [key |-> "Uninitialize", attrs |-> <<>>])
    <3>1. schema' = [schema EXCEPT !.cls = c] BY <2>1, <2>3
    <3>2. DOMAIN c = DOMAIN schema.cls \cup {Arg} BY DEF Put
    <3> HIDE DEF c
    <3>3. schema' = [cls |-> c, idx |-> schema.idx] BY <3>1, SchemaWith
    <3> QED BY <3>2, <3>3
  <2> QED BY <2>2, <2>3
<1>3. Creating /\ ~cut /\ job # <<>> /\ ran \in Stmts BY <1>1, GroupNext
<1>4. PICK k \in DOMAIN ran.groups : LeftOf(ran, k) /\ MadeBy(k) /\ Arg = ran.groups[k] /\ k \in Nat
  BY <1>1, GroupNext
<1>5. ran.groups \in Seq(ClassName) /\ ran.indexes \in Seq(IndexName)
  BY <1>3, CreateAssumption DEF Creating
<1>6. k \in Nat /\ k > 0 /\ k + 1 > 0 /\ k <= Len(ran.groups) /\ Len(ran.groups) \in Nat BY <1>4, <1>5
<1>7. TransInv' BY <1>1, <1>3 DEF CInv, TransInv, Creating
<1>8. MadeBy(k + 1)'
  <2>1. ASSUME NEW i \in DOMAIN ran.groups, 1 + i <= k + 1 PROVE ran.groups[i] \in DOMAIN schema'.cls
    <3>1. i \in Nat /\ (i = k \/ 1 + i <= k) BY <1>5, <1>6, <2>1
    <3> QED BY <1>2, <1>4, <3>1 DEF MadeBy
  <2>2. ASSUME NEW i \in DOMAIN ran.indexes PROVE ~(1 + Len(ran.groups) + i <= k + 1)
    <3>1. i \in Nat \ {0} BY <1>5
    <3>2. \A a, b, c \in Nat : a <= b /\ c > 0 => ~(1 + b + c <= a + 1) OBVIOUS
    <3> QED BY <1>6, <3>1, <3>2
  <2> QED BY <1>1, <1>4, <1>6, <2>1, <2>2 DEF MadeBy
<1> QED BY <1>1, <1>3, <1>4, <1>6, <1>7, <1>8, MadeOn

LEMMA AddIndexKeeps == ASSUME CInv, IsSchema(schema), AddGroupIndex PROVE CInv'
<1>1. Calling("index") /\ GoesOn /\ UNCHANGED <<ran, opened, trans, misused, replaced, relations>>
  BY DEF AddGroupIndex, AddIndex, object, Quiet
<1>2. DOMAIN schema'.idx = DOMAIN schema.idx \cup {Arg} /\ schema'.cls = schema.cls
  <2>1. schema' = IF Arg \in DOMAIN schema.idx THEN schema
                  ELSE [schema EXCEPT !.idx = Put(@, Arg, "Uninitialize")]
    BY DEF AddGroupIndex, AddIndex
  <2>2. CASE Arg \in DOMAIN schema.idx BY <2>1, <2>2
  <2>3. CASE Arg \notin DOMAIN schema.idx
    <3> DEFINE c == Put(schema.idx, Arg, "Uninitialize")
    <3>1. schema' = [schema EXCEPT !.idx = c] BY <2>1, <2>3
    <3>2. DOMAIN c = DOMAIN schema.idx \cup {Arg} BY DEF Put
    <3> HIDE DEF c
    <3>3. schema' = [cls |-> schema.cls, idx |-> c] BY <3>1, SchemaWith
    <3> QED BY <3>2, <3>3
  <2> QED BY <2>2, <2>3
<1>3. Creating /\ ~cut /\ job # <<>> /\ ran \in Stmts BY <1>1, IndexNext
<1>4. PICK k \in Nat :
        /\ LeftOf(ran, k) /\ MadeBy(k) /\ k - Len(ran.groups) \in DOMAIN ran.indexes
        /\ Arg = ran.indexes[k - Len(ran.groups)]
  BY <1>1, IndexNext
<1>5. ran.groups \in Seq(ClassName) /\ ran.indexes \in Seq(IndexName)
  BY <1>3, CreateAssumption DEF Creating
<1>6. k \in Nat /\ Len(ran.groups) \in Nat BY <1>4, <1>5 DEF LeftOf
<1>9. k - Len(ran.groups) \in Nat \ {0} BY <1>4, <1>5
<1>10. \A a, b \in Nat : a - b \in Nat \ {0} =>
         /\ a > 0 /\ a + 1 > 0
         /\ \A i \in Nat : 1 + b + i <= a + 1 => i = a - b \/ 1 + b + i <= a
         /\ \A i \in Nat : 1 + i <= a + 1 /\ i <= b => 1 + i <= a
  OBVIOUS
<1>11. k > 0 /\ k + 1 > 0 BY <1>6, <1>9, <1>10
<1>7. TransInv' BY <1>1, <1>3 DEF CInv, TransInv, Creating
<1>8. MadeBy(k + 1)'
  <2>1. ASSUME NEW i \in DOMAIN ran.indexes, 1 + Len(ran.groups) + i <= k + 1
        PROVE  ran.indexes[i] \in DOMAIN schema'.idx
    <3>1. i \in Nat BY <1>5
    <3>2. i = k - Len(ran.groups) \/ 1 + Len(ran.groups) + i <= k
      BY <1>6, <1>9, <1>10, <2>1, <3>1
    <3> QED BY <1>2, <1>4, <3>2 DEF MadeBy
  <2>2. ASSUME NEW i \in DOMAIN ran.groups, 1 + i <= k + 1 PROVE ran.groups[i] \in DOMAIN schema'.cls
    <3>1. i \in Nat /\ i <= Len(ran.groups) BY <1>5
    <3>2. 1 + i <= k BY <1>6, <1>9, <1>10, <2>2, <3>1
    <3> QED BY <1>2, <1>4, <3>2 DEF MadeBy
  <2> QED BY <1>1, <1>4, <1>11, <2>1, <2>2 DEF MadeBy
<1> QED BY <1>1, <1>3, <1>4, <1>6, <1>7, <1>8, MadeOn

-------------------------------------------------------------------------------
LEMMA DropKeeps == ASSUME CInv, DropCloses \/ DropRemoves PROVE CInv'
<1>1. PICK S : job \in Seq(S) BY DEF CInv, JobInv
<1>2. CASE DropCloses
  <2>1. Calling("close") /\ trans' = "ok" /\ UNCHANGED <<handle, text, cut, ran>> /\ job' = Tail(job)
    BY <1>2 DEF DropCloses, GoesOn, Quiet
  <2>2. ran.op = "drop" /\ ~cut /\ handle = "busy" /\ job # <<>> BY <2>1, WhoCalls
  <2>3. job' \in Seq(S) /\ \A i \in DOMAIN job' : i + 1 \in DOMAIN job /\ job'[i] = job[i + 1]
    BY <1>1, <2>1, <2>2
  <2>4. \A i \in DOMAIN job' : job'[i].call \in {"close", "remove"}
    BY <2>2, <2>3 DEF CInv, JobInv
  <2>5. TransInv' BY <2>1, <2>2 DEF TransInv
  <2> QED BY <2>1, <2>2, <2>3, <2>4, <2>5, OtherKeeps
<1>3. CASE DropRemoves
  <2>1. /\ Calling("remove") /\ UNCHANGED <<handle, text, cut, ran, trans, opened, misused>>
           /\ job' = <<>>
    BY <1>3 DEF DropRemoves, Done, object, Quiet
  <2>2. ran.op = "drop" /\ ~cut /\ handle = "busy" BY <2>1, WhoCalls
  <2>3. <<>> \in Seq(S) /\ DOMAIN <<>> = {} OBVIOUS
  <2>4. \A i \in DOMAIN job' : job'[i].call \in {"close", "remove"} BY <2>1, <2>3
  <2>5. TransInv' BY <2>1, <2>2 DEF CInv, TransInv
  <2> QED BY <2>1, <2>2, <2>3, <2>4, <2>5, OtherKeeps
<1> QED BY <1>2, <1>3

LEMMA RowsJob ==
  ASSUME NEW c, NEW j, j = <<CallOn("rows", c)>>
  PROVE  (\E S : j \in Seq(S)) /\ \A i \in DOMAIN j : j[i].call \in {"groups", "rows", "write"}
<1> DEFINE x == CallOn("rows", c)
<1>1. x.call = "rows" BY DEF CallOn
<1> HIDE DEF x
<1>2. j \in Seq({x}) BY DEF x
<1>3. \A i \in DOMAIN j : j[i] = x BY <1>2
<1>4. \A i \in DOMAIN j : j[i].call = "rows" BY <1>1, <1>3
<1> QED BY <1>2, <1>4

LEMMA DumpGroupsKeeps == ASSUME CInv, DumpGroups PROVE CInv'
<1>1. Calling("groups") /\ UNCHANGED <<text, cut, ran, trans, opened, misused>>
  BY DEF DumpGroups, Done, Undefined, SameStore, store, object, Quiet
<1>2. ran.op \in {"dump", "upset"} /\ ~cut /\ handle = "busy" /\ job # <<>> BY <1>1, WhoCalls
<1>3. /\ handle' \in {handle, "undefined"}
      /\ job' = job \/ job' = <<>> \/ \E c : job' = <<CallOn("rows", c)>>
  BY DEF DumpGroups, Done, Undefined
<1>4. (\E S : job' \in Seq(S)) /\ \A i \in DOMAIN job' : job'[i].call \in {"groups", "rows", "write"}
  <2>1. CASE job' = job BY <1>2, <2>1 DEF CInv, JobInv
  <2>2. CASE job' = <<>>
    <3>1. <<>> \in Seq({}) /\ DOMAIN <<>> = {} OBVIOUS
    <3> QED BY <2>2, <3>1
  <2>3. ASSUME NEW c, job' = <<CallOn("rows", c)>>
        PROVE  (\E S : job' \in Seq(S)) /\ \A i \in DOMAIN job' : job'[i].call \in {"groups",
                "rows", "write"}
    BY <2>3, RowsJob
  <2> QED BY <1>3, <2>1, <2>2, <2>3
<1>5. TransInv' BY <1>1, <1>2 DEF CInv, TransInv
<1> QED BY <1>1, <1>2, <1>3, <1>4, <1>5, OtherKeeps

(* What a handle that cannot be had leaves for the thread. *)
LEMMA Blamed ==
  ASSUME CInv, ran.op \in {"dump", "upset"}, job # <<>>, UNCHANGED <<ran, misused, opened>>,
         trans' = trans \/ opened = NoGraph
  PROVE  TransInv'
BY DEF CInv, TransInv

LEMMA DumpRowsKeeps == ASSUME CInv, DumpRows PROVE CInv'
<1>1. Calling("rows") /\ UNCHANGED <<ran, misused>> BY DEF DumpRows, Quiet
<1>2. ran.op \in {"dump", "upset"} /\ ~cut /\ handle = "busy" /\ job # <<>> BY <1>1, WhoCalls
<1>3. /\ opened' = opened /\ (trans' = trans \/ opened = NoGraph)
      /\ handle' = handle /\ (text' = text \/ text' = <<>>)
      /\ \/ job' = <<>>
         \/ cut' = cut /\ \E c : job' = <<CallOn("rows", c)>>
      /\ cut' = cut \/ (job' = <<>> /\ text' = <<>>)
  <2>1. PICK n \in Arg :
          IF opened = NoGraph
          THEN HandleOfNone(n) /\ UNCHANGED <<schema, reply>> /\ Throws
          ELSE /\ Cursor(n) /\ UNCHANGED trans
               /\ IF handles'[n] \notin DOMAIN slots' THEN Throws
                  ELSE IF Arg = {n} THEN Done("ok")
                  ELSE job' = <<CallOn("rows", Arg \ {n})>> /\ UNCHANGED <<handle, text, code, cut>>
    BY DEF DumpRows
  <2>2. CASE opened = NoGraph BY <2>1, <2>2 DEF HandleOfNone, Throws
  <2>3. CASE opened # NoGraph
    <3>1. opened' = opened BY <2>1, <2>3 DEF Cursor
    <3>2. \/ Throws \/ Done("ok")
          \/ job' = <<CallOn("rows", Arg \ {n})>> /\ UNCHANGED <<handle, text, code, cut>>
      BY <2>1, <2>3
    <3> QED BY <2>1, <2>3, <3>1, <3>2 DEF Throws, Done
  <2> QED BY <2>2, <2>3
<1>4. (\E S : job' \in Seq(S)) /\ \A i \in DOMAIN job' : job'[i].call \in {"groups", "rows", "write"}
  <2>2. CASE job' = <<>>
    <3>1. <<>> \in Seq({}) /\ DOMAIN <<>> = {} OBVIOUS
    <3> QED BY <2>2, <3>1
  <2>3. ASSUME NEW c, job' = <<CallOn("rows", c)>>
        PROVE  (\E S : job' \in Seq(S)) /\ \A i \in DOMAIN job' : job'[i].call \in {"groups",
                "rows", "write"}
    BY <2>3, RowsJob
  <2> QED BY <1>3, <2>2, <2>3
<1>5. TransInv' BY <1>1, <1>2, <1>3, Blamed
<1> QED BY <1>1, <1>2, <1>3, <1>4, <1>5, OtherKeeps

LEMMA UpsetKeeps == ASSUME CInv, Upset PROVE CInv'
<1>1. Calling("write") /\ UNCHANGED <<ran, misused>> BY DEF Upset, Quiet
<1>2. ran.op \in {"dump", "upset"} /\ ~cut /\ handle = "busy" /\ job # <<>> BY <1>1, WhoCalls
<1> DEFINE ends == /\ job' = <<>> /\ handle' = handle
                   /\ \/ text' = text /\ cut' = cut
                      \/ text' = <<>> /\ cut' = TRUE
<1>3. \A r : Done(r) => ends BY DEF Done
<1>4. Throws => ends BY DEF Throws
<1>5. WriteRow => ends /\ opened' = opened /\ trans' = trans
  <2>1. SUFFICES ASSUME WriteRow PROVE ends /\ opened' = opened /\ trans' = trans OBVIOUS
  <2>2. ends /\ trans' = trans BY <1>3, <1>4, <2>1 DEF WriteRow
  <2>3. \/ WriteEmptyJson(Class, Row.key, Row.value)
        \/ WriteJson(Class, Row.key, Row.attr, Row.value)
    BY <2>1 DEF WriteRow
  <2>4. opened' = opened
    <3>1. ASSUME WriteEmptyJson(Class, Row.key, Row.value) PROVE opened' = opened
      BY <3>1 DEF WriteEmptyJson, Store
    <3>2. ASSUME WriteJson(Class, Row.key, Row.attr, Row.value) PROVE opened' = opened
      <4> DEFINE s == Classed(Touched(schema, Class, Row.key), Class)
      <4> HIDE DEF s
      <4>1. \/ Store(Handle(Class, Row.key \in IntKey), Class, Row.key, Row.value)
            \/ UNCHANGED <<disk, opened, mode, maps, slots, handles, groups>>
        BY <3>2 DEF WriteJson, s
      <4> QED BY <4>1 DEF Store
    <3> QED BY <2>3, <3>1, <3>2
  <2> QED BY <2>2, <2>4
<1>6. WriteNowhere => ends /\ opened' = opened /\ (trans' = trans \/ opened = NoGraph)
  <2>1. SUFFICES ASSUME WriteNowhere PROVE ends /\ opened' = opened /\ opened = NoGraph OBVIOUS
  <2>2. opened = NoGraph /\ ends BY <1>3, <1>4, <2>1 DEF WriteNowhere
  <2>3. opened' = opened BY <2>1 DEF WriteNowhere, HandleOfNone
  <2> QED BY <2>2, <2>3
<1>7. ASSUME ends, opened' = opened, trans' = trans \/ opened = NoGraph PROVE CInv'
  <2>1. <<>> \in Seq({}) /\ DOMAIN <<>> = {} OBVIOUS
  <2>2. \A i \in DOMAIN job' : job'[i].call \in {"groups", "rows", "write"} BY <1>7, <2>1
  <2>3. TransInv' BY <1>1, <1>2, <1>7, Blamed
  <2> QED BY <1>1, <1>2, <1>7, <2>1, <2>2, <2>3, OtherKeeps
<1>8. ASSUME Undefined, opened' = opened, trans' = trans PROVE CInv'
  <2>1. handle' = "undefined" /\ UNCHANGED <<text, job, cut>> BY <1>8 DEF Undefined
  <2>2. (\E S : job' \in Seq(S)) /\ \A i \in DOMAIN job' : job'[i].call \in {"groups", "rows", "write"}
    BY <1>2, <2>1 DEF CInv, JobInv
  <2>3. TransInv' BY <1>1, <1>2, <1>8, Blamed
  <2> QED BY <1>1, <1>2, <2>1, <2>2, <2>3, OtherKeeps
<1>9. \/ Done("fail") /\ UNCHANGED <<store, trans, accepted>>
      \/ Undefined /\ UNCHANGED <<store, trans, accepted>>
      \/ WriteRow \/ WriteNowhere
  BY DEF Upset
<1>10. CASE Done("fail") /\ UNCHANGED <<store, trans, accepted>>
  <2>1. ends /\ opened' = opened /\ trans' = trans BY <1>3, <1>10 DEF store
  <2> HIDE DEF ends
  <2> QED BY <1>7, <2>1
<1>11. CASE Undefined /\ UNCHANGED <<store, trans, accepted>>
  <2>1. opened' = opened /\ trans' = trans BY <1>11 DEF store
  <2> QED BY <1>8, <1>11, <2>1
<1> HIDE DEF ends
<1>12. CASE WriteRow BY <1>5, <1>7, <1>12
<1>13. CASE WriteNowhere BY <1>6, <1>7, <1>13
<1> QED BY <1>9, <1>10, <1>11, <1>12, <1>13

(* A handle that is opened, used or closed. *)
LEMMA HandleKeeps ==
  ASSUME CInv, OpenHandle \/ Exec \/ Return \/ CloseHandle \/ ProcessEnds
  PROVE  CInv'
<1>1. CASE OpenHandle
  <2>1. handle = "none" /\ handle' = "idle" /\ UNCHANGED <<text, job, code, ran, cut, misused, trans>>
    BY <1>1 DEF OpenHandle, past, SameStore, object, OpensStore
  <2>2. job = <<>> /\ ran = None /\ trans = "ok" /\ ~cut BY <2>1 DEF CInv, JobInv, FreshInv
  <2> QED BY <2>1, <2>2 DEF CInv, TextInv, JobInv, TransInv, CreateInv, FreshInv, Creating, None
<1>2. CASE Exec
  <2>1. /\ handle = "idle" /\ handle' = "busy" /\ text' \in Texts /\ ran' = None /\ ~cut'
        /\ UNCHANGED <<job, misused, trans, opened>>
    BY <1>2 DEF Exec, SameStore, store, object
  <2>2. job = <<>> /\ text' \in Seq(Stmts) BY <2>1, TextAssumption DEF CInv, JobInv
  <2> QED BY <2>1, <2>2 DEF CInv, TextInv, JobInv, TransInv, CreateInv, FreshInv, Creating, None
<1>3. CASE Return
  <2>1. /\ handle = "busy" /\ job = <<>> /\ handle' = "idle"
        /\ UNCHANGED <<text, job, code, ran, cut, misused, replaced, trans, opened, mode, schema,
            relations>>
    BY <1>3 DEF Return, past, SameStore, store, object
  <2>2. TextInv' BY <2>1 DEF CInv, TextInv, Creating
  <2>3. JobInv' BY <2>1 DEF CInv, JobInv
  <2>4. TransInv' BY <2>1 DEF CInv, TransInv
  <2>5. CreateInv'
    <3>1. \A k : LeftOf(ran, k) => LeftOf(ran, k)' BY <2>1 DEF LeftOf
    <3>2. \A k : MadeBy(k) => MadeBy(k)' BY <2>1 DEF MadeBy
    <3>3. CASE cut BY <2>1, <3>3 DEF CInv, CreateInv, Creating
    <3>4. CASE ~cut BY <2>1, <3>1, <3>2, <3>4 DEF CInv, CreateInv, Creating
    <3> QED BY <3>3, <3>4
  <2>6. FreshInv' BY <2>1 DEF FreshInv
  <2> QED BY <2>2, <2>3, <2>4, <2>5, <2>6 DEF CInv
<1>4. CASE CloseHandle \/ ProcessEnds
  <2>1. Forgets BY <1>4 DEF CloseHandle, ProcessEnds
  <2>2. text' = <<>> /\ job' = <<>> /\ trans' = "ok" /\ ran' = None /\ cut' = FALSE BY <2>1 DEF Forgets
  <2>3. <<>> \in Seq(Stmts) OBVIOUS
  <2> QED BY <2>2, <2>3 DEF CInv, TextInv, JobInv, TransInv, CreateInv, FreshInv, Creating, None
<1> QED BY <1>1, <1>2, <1>3, <1>4

-------------------------------------------------------------------------------
SchemaInv == IsSchema(schema) /\ \A g \in Graph : IsSchema(disk[g].schema)

DiskInv == disk = [g \in Graph |-> disk[g]]

EInv == CInv /\ SchemaInv /\ DiskInv

LEMMA SchemaInit == EngineInit => SchemaInv /\ DiskInv
BY DEF EngineInit, Init, SchemaInv, DiskInv, IsSchema, NoSchema

LEMMA TouchedIsSchema ==
  ASSUME NEW s, IsSchema(s), NEW n, NEW k
  PROVE  IsSchema(Touched(s, n, k)) /\ IsSchema(Classed(s, n))
<1>1. \A v : /\ IsSchema([s EXCEPT !.cls[n].key = v]) /\ IsSchema([s EXCEPT !.idx[n] = v])
             /\ IsSchema([s EXCEPT !.cls = v])
  BY SchemaWith
<1>2. IsSchema(Touched(s, n, k)) BY <1>1 DEF Touched
<1>3. IsSchema(Classed(s, n)) BY <1>1 DEF Classed
<1> QED BY <1>2, <1>3

LEMMA CloseKeepsSchema ==
  ASSUME SchemaInv, DiskInv, NEW keep \in BOOLEAN, ClosesStore(keep) \/ ClosesNothing \/ ClosedObject
  PROVE  SchemaInv' /\ DiskInv'
<1>1. schema' = schema \/ schema' = NoSchema
  BY DEF ClosesStore, Ends, ClosesNothing, store, ClosedObject, Remembers
<1>2. IsSchema(NoSchema) BY DEF IsSchema, NoSchema
<1>3. disk' = disk \/ Commit
  BY DEF ClosesStore, ClosesNothing, store, ClosedObject
<1>4. CASE disk' = disk BY <1>1, <1>2, <1>4 DEF SchemaInv, DiskInv
<1>5. CASE Commit
  <2>1. disk' = [disk EXCEPT ![opened] = [saved |-> TRUE, maps |-> maps, schema |-> schema]]
    BY <1>5 DEF Commit
  <2>2. ASSUME NEW g \in Graph PROVE disk'[g].schema \in {disk[g].schema, schema}
    BY <2>1 DEF DiskInv
  <2>3. DiskInv' BY <2>1 DEF DiskInv
  <2>4. \A g \in Graph : IsSchema(disk'[g].schema) BY <2>2 DEF SchemaInv
  <2> QED BY <1>1, <1>2, <2>3, <2>4 DEF SchemaInv
<1> QED BY <1>3, <1>4, <1>5

LEMMA SchemaStays == ASSUME EInv, [EngineNext]_evars PROVE SchemaInv' /\ DiskInv'
<1> USE DEF EInv
<1>1. ASSUME UNCHANGED disk, IsSchema(schema') PROVE SchemaInv' /\ DiskInv'
  BY <1>1 DEF SchemaInv, DiskInv
<1>2. ASSUME UNCHANGED disk, UNCHANGED schema PROVE SchemaInv' /\ DiskInv'
  BY <1>1, <1>2 DEF SchemaInv
<1>3. ASSUME NEW g \in Graph, NEW m, OpensStore(g, m) PROVE SchemaInv' /\ DiskInv'
  BY <1>1, <1>3 DEF OpensStore, Open, SchemaInv
<1>4. CASE Statement \/ Exec \/ Return \/ DumpGroups \/ UNCHANGED evars
  BY <1>2, <1>4 DEF Statement, Exec, Return, DumpGroups, SameStore, store, evars
<1>5. CASE OpenUnreadable \/ OpenOnNull BY <1>2, <1>5 DEF OpenUnreadable, OpenOnNull
<1>6. CASE CloseOther \/ DropCloses BY <1>6, CloseKeepsSchema DEF CloseOther, DropCloses
<1>7. CASE CloseHandle BY <1>7, CloseKeepsSchema DEF CloseHandle
<1>8. CASE ProcessEnds
  <2>1. CASE Crash
    <3>1. disk' = disk /\ schema' = NoSchema BY <2>1 DEF Crash, Ends, Remembers
    <3> QED BY <1>1, <3>1 DEF IsSchema, NoSchema
  <2>2. CASE ClosedObject BY <2>2, CloseKeepsSchema
  <2> QED BY <1>8, <2>1, <2>2 DEF ProcessEnds
<1>9. CASE OpenHandle
  <2>1. CASE SameStore BY <1>2, <2>1 DEF SameStore, store
  <2> QED BY <1>3, <1>9, <2>1 DEF OpenHandle
<1>10. CASE OpenNamed
  <2>1. Arg = ran.graph /\ Creating /\ ran \in Stmts BY <1>10, OpenFirst DEF OpenNamed
  <2>2. Arg \in Graph BY <2>1, CreateAssumption DEF Creating
  <2> QED BY <1>3, <1>10, <2>2 DEF OpenNamed
<1>11. CASE AddGroup
  <2>1. UNCHANGED disk /\ (schema' = schema \/ \E v : schema' = [schema EXCEPT !.cls = v])
    BY <1>11 DEF AddGroup, AddMap
  <2>2. IsSchema(schema) BY DEF SchemaInv
  <2>3. ASSUME NEW v, schema' = [schema EXCEPT !.cls = v] PROVE IsSchema(schema')
    BY <2>2, <2>3, SchemaWith
  <2>4. CASE schema' = schema BY <1>1, <2>1, <2>2, <2>4
  <2> QED BY <1>1, <2>1, <2>3, <2>4
<1>12. CASE AddGroupIndex
  <2>1. UNCHANGED disk /\ (schema' = schema \/ \E v : schema' = [schema EXCEPT !.idx = v])
    BY <1>12 DEF AddGroupIndex, AddIndex
  <2>2. IsSchema(schema) BY DEF SchemaInv
  <2>3. ASSUME NEW v, schema' = [schema EXCEPT !.idx = v] PROVE IsSchema(schema')
    BY <2>2, <2>3, SchemaWith
  <2>4. CASE schema' = schema BY <1>1, <2>1, <2>2, <2>4
  <2> QED BY <1>1, <2>1, <2>3, <2>4
<1>13. CASE DropRemoves
  <2>1. schema' = schema BY <1>13 DEF DropRemoves
  <2>2. \/ disk' = disk
        \/ disk' = [disk EXCEPT ![Arg] = [saved |-> FALSE, maps |-> EmptyMap, schema |-> NoSchema]]
    BY <1>13 DEF DropRemoves
  <2>3. CASE disk' = disk BY <1>2, <2>1, <2>3
  <2>4. CASE disk' = [disk EXCEPT ![Arg] = [saved |-> FALSE, maps |-> EmptyMap, schema |-> NoSchema]]
    <3>1. ASSUME NEW g \in Graph PROVE disk'[g].schema \in {disk[g].schema, NoSchema}
      BY <2>4 DEF DiskInv
    <3>2. DiskInv' BY <2>4 DEF DiskInv
    <3>3. IsSchema(NoSchema) BY DEF IsSchema, NoSchema
    <3>4. \A g \in Graph : IsSchema(disk'[g].schema) BY <3>1, <3>3 DEF SchemaInv
    <3> QED BY <2>1, <3>2, <3>4 DEF SchemaInv
  <2> QED BY <2>2, <2>3, <2>4
<1>14. CASE DumpRows BY <1>2, <1>14 DEF DumpRows, HandleOfNone, Cursor
<1>15. CASE Upset
  <2> DEFINE t == Touched(schema, Class, Row.key)
             u == Classed(t, Class)
  <2>4. IsSchema(t) /\ IsSchema(u) BY TouchedIsSchema DEF SchemaInv
  <2> HIDE DEF t, u
  <2>5. \A a : /\ IsSchema([t EXCEPT !.cls[Class].attrs = Append(@, a)])
               /\ IsSchema([u EXCEPT !.cls[Class].attrs = Append(@, a)])
    BY <2>4, SchemaWith
  <2>1. ASSUME WriteRow PROVE UNCHANGED disk /\ IsSchema(schema')
    <3>1. \/ WriteEmptyJson(Class, Row.key, Row.value)
          \/ WriteJson(Class, Row.key, Row.attr, Row.value)
      BY <2>1 DEF WriteRow
    <3>2. ASSUME WriteEmptyJson(Class, Row.key, Row.value) PROVE UNCHANGED disk /\ schema' = u
      BY <3>2 DEF WriteEmptyJson, Store, t, u
    <3>3. ASSUME WriteJson(Class, Row.key, Row.attr, Row.value)
          PROVE  UNCHANGED disk /\ (schema' = u
                 \/ schema' = [u EXCEPT !.cls[Class].attrs = Append(@, Row.attr)])
      BY <3>3 DEF WriteJson, Store, t, u
    <3> QED BY <2>4, <2>5, <3>1, <3>2, <3>3
  <2>2. ASSUME WriteNowhere PROVE UNCHANGED disk /\ IsSchema(schema')
    <3>1. schema' = t \/ schema' = [t EXCEPT !.cls[Class].attrs = Append(@, Row.attr)]
      BY <2>2 DEF WriteNowhere, t
    <3>2. UNCHANGED disk BY <2>2 DEF WriteNowhere, HandleOfNone
    <3> QED BY <2>4, <2>5, <3>1, <3>2
  <2>3. (UNCHANGED disk /\ UNCHANGED schema) \/ WriteRow \/ WriteNowhere BY <1>15 DEF Upset, store
  <2> QED BY <1>1, <1>2, <2>1, <2>2, <2>3
<1> QED BY <1>4, <1>5, <1>6, <1>7, <1>8, <1>9, <1>10, <1>11, <1>12, <1>13, <1>14, <1>15 DEF EngineNext

LEMMA EInvStays == ASSUME EInv, [EngineNext]_evars PROVE EInv'
<1> USE DEF EInv
<1>1. CInv /\ IsSchema(schema) BY DEF SchemaInv
<1>2. CASE UNCHANGED evars
  <2>1. UNCHANGED <<handle, text, job, code, ran, cut, misused, replaced, trans, opened, mode,
         schema, relations>>
    BY <1>2 DEF evars, store, tell, object, past
  <2>2. TextInv' BY <1>1, <2>1 DEF CInv, TextInv, Creating
  <2>3. JobInv' BY <1>1, <2>1 DEF CInv, JobInv
  <2>4. TransInv' BY <1>1, <2>1 DEF CInv, TransInv
  <2>5. CreateInv'
    <3>1. \A k : LeftOf(ran, k) => LeftOf(ran, k)' BY <2>1 DEF LeftOf
    <3>2. \A k : MadeBy(k) => MadeBy(k)' BY <2>1 DEF MadeBy
    <3>3. CASE cut BY <1>1, <2>1, <3>3 DEF CInv, CreateInv, Creating
    <3>4. CASE ~cut BY <1>1, <2>1, <3>1, <3>2, <3>4 DEF CInv, CreateInv, Creating
    <3> QED BY <3>3, <3>4
  <2>6. FreshInv' BY <1>1, <2>1 DEF CInv, FreshInv
  <2> QED BY <2>2, <2>3, <2>4, <2>5, <2>6, SchemaStays DEF CInv
<1>3. CASE OpenHandle \/ Exec \/ Return \/ CloseHandle \/ ProcessEnds
  BY <1>1, <1>3, HandleKeeps, SchemaStays
<1>4. CASE Statement BY <1>1, <1>4, StatementKeeps, SchemaStays
<1>5. CASE CloseOther \/ OpenNamed \/ OpenUnreadable \/ OpenOnNull
  BY <1>1, <1>5, CloseOtherKeeps, OpenNamedKeeps, OpenUnreadableKeeps, OpenOnNullKeeps, SchemaStays
<1>6. CASE AddGroup \/ AddGroupIndex BY <1>1, <1>6, AddGroupKeeps, AddIndexKeeps, SchemaStays
<1>7. CASE DropCloses \/ DropRemoves BY <1>1, <1>7, DropKeeps, SchemaStays
<1>8. CASE DumpGroups \/ DumpRows \/ Upset
  BY <1>1, <1>8, DumpGroupsKeeps, DumpRowsKeeps, UpsetKeeps, SchemaStays
<1> QED BY <1>2, <1>3, <1>4, <1>5, <1>6, <1>7, <1>8 DEF EngineNext

LEMMA AllMade == EInv => CreationsOpen
<1> SUFFICES ASSUME EInv, handle = "idle", ran.op = "create"
             PROVE  IF cut THEN code = "ok" /\ (misused \/ mode = "read_only")
                    ELSE /\ opened = ran.graph
                         /\ \A i \in DOMAIN ran.groups : ran.groups[i] \in DOMAIN schema.cls
                         /\ \A i \in DOMAIN ran.indexes : ran.indexes[i] \in DOMAIN schema.idx
                         /\ replaced \/ ran.edges \subseteq relations
  BY DEF CreationsOpen
<1>1. CInv /\ Creating /\ ran \in Stmts /\ job = <<>> BY DEF EInv, CInv, TextInv, JobInv, Creating
<1>2. CASE cut BY <1>1, <1>2 DEF CInv, CreateInv
<1>3. CASE ~cut
  <2>1. PICK k \in Nat : LeftOf(ran, k) /\ MadeBy(k) BY <1>1, <1>3 DEF CInv, CreateInv
  <2>2. ran.groups \in Seq(ClassName) /\ ran.indexes \in Seq(IndexName)
    BY <1>1, CreateAssumption DEF Creating
  <2>3. k = 1 + Len(ran.groups) + Len(ran.indexes)
    <3>1. Len(job) = 0 BY <1>1
    <3>2. Len(job) + k = 1 + Len(ran.groups) + Len(ran.indexes)
      BY <1>1, <2>1, CallsOfCreate DEF LeftOf, Creating
    <3>3. 0 + k = k BY <2>1
    <3> QED BY <3>1, <3>2, <3>3
  <2>4. /\ k > 0
        /\ \A i \in DOMAIN ran.groups : 1 + i <= k
        /\ \A i \in DOMAIN ran.indexes : 1 + Len(ran.groups) + i <= k
    <3>1. Len(ran.groups) \in Nat /\ Len(ran.indexes) \in Nat BY <2>2
    <3>2. \A i \in DOMAIN ran.groups : i \in Nat /\ i <= Len(ran.groups) BY <2>2
    <3>3. \A i \in DOMAIN ran.indexes : i \in Nat /\ i <= Len(ran.indexes) BY <2>2
    <3>4. \A a, b \in Nat : /\ 1 + a + b > 0
                            /\ \A i \in Nat : i <= a => 1 + i <= 1 + a + b
                            /\ \A i \in Nat : i <= b => 1 + a + i <= 1 + a + b
      OBVIOUS
    <3> QED BY <2>3, <3>1, <3>2, <3>3, <3>4
  <2> QED BY <1>3, <2>1, <2>4 DEF MadeBy
<1> QED BY <1>2, <1>3

(* A text that ends with a creation leaves the graph open with its groups,   *)
(* its indexes and, unless its file had a schema, its relations; a creation  *)
(* is lost only after a statement met a closed store, or when the mode       *)
(* nobody sets was read_only, and is reported as a success then              *)
(* (UtilPlan.cpp:50-111, GQLiteImpl.cpp:81-91, StorageEngine.cpp:675-689).   *)
THEOREM CreationsAlwaysOpen == EngineSpec => []CreationsOpen
<1>1. EngineInit => EInv BY CInit, SchemaInit DEF EInv
<1>2. EInv /\ [EngineNext]_evars => EInv' BY EInvStays
<1> QED BY <1>1, <1>2, AllMade, PTL DEF EngineSpec

-------------------------------------------------------------------------------
(* Rows that were reported stored. *)

MapsOK(m) == m = [n \in DOMAIN m |-> [ordinal |-> m[n].ordinal, data |-> m[n].data]]

\* A cache h of slots s: a handle in it is the slot of its name, and the map is there.
Reached(h, s, m) ==
  /\ \E X : s \in Seq(X)
  /\ \A n \in DOMAIN h : h[n] # Null => h[n] \in DOMAIN s /\ s[h[n]] = n /\ n \in DOMAIN m

RowsIn(acc, m) ==
  \A r \in acc : /\ r.at \in Name \X Key
                 /\ r.at[1] \in DOMAIN m /\ r.at[2] \in DOMAIN m[r.at[1]].data
                 /\ m[r.at[1]].data[r.at[2]] = r.value

\* The handles of an object are good until it opens a second environment.
HandleInv ==
  /\ envs \in {0, 1, 2}
  /\ envs = 0 => opened = NoGraph /\ \A n \in DOMAIN handles : handles[n] = Null
  /\ envs = 1 /\ opened # NoGraph => Reached(handles, slots, maps)

RowInv ==
  /\ MapsOK(maps) /\ \A g \in Graph : MapsOK(disk[g].maps)
  /\ opened # NoGraph => RowsIn(accepted, maps)
  /\ \A g \in Graph : RowsIn(kept[g], disk[g].maps)
  /\ kept = [g \in Graph |-> kept[g]]

\* What an upset writes comes from a statement.
WriteInv ==
  ran.op \in {"dump", "upset"} =>
    \A i \in DOMAIN job : job[i].call = "write" =>
      job[i].on.class \in ClassName /\ job[i].on.vertex.key \in Key

LEMMA NoRows == \A m : RowsIn({}, m)
BY DEF RowsIn

LEMMA EmptyMaps == MapsOK(EmptyMap) /\ \A h, m : (\A n \in DOMAIN h : h[n] = Null) => Reached(h, <<>>, m)
<1>1. MapsOK(EmptyMap) BY DEF MapsOK, EmptyMap
<1>2. <<>> \in Seq({}) OBVIOUS
<1> QED BY <1>1, <1>2 DEF Reached

LEMMA DataWith ==
  ASSUME NEW m, MapsOK(m), NEW t, NEW d
  PROVE  LET m2 == [m EXCEPT ![t].data = d] IN
         /\ MapsOK(m2) /\ DOMAIN m2 = DOMAIN m
         /\ \A x \in DOMAIN m : x # t => m2[x] = m[x]
         /\ t \in DOMAIN m => m2[t].data = d
<1> DEFINE m2 == [m EXCEPT ![t].data = d]
<1>1. DOMAIN m2 = DOMAIN m /\ \A x \in DOMAIN m : x # t => m2[x] = m[x] OBVIOUS
<1>2. \A x \in DOMAIN m : m[x] = [ordinal |-> m[x].ordinal, data |-> m[x].data] BY DEF MapsOK
<1>3. ASSUME t \in DOMAIN m PROVE m2[t] = [ordinal |-> m[t].ordinal, data |-> d]
  <2> DEFINE a == m[t].ordinal
             b == m[t].data
  <2>1. m2[t] = [m[t] EXCEPT !.data = d] BY <1>3
  <2>2. m[t] = [ordinal |-> a, data |-> b] BY <1>2, <1>3
  <2> HIDE DEF a, b
  <2>3. [[ordinal |-> a, data |-> b] EXCEPT !.data = d] = [ordinal |-> a, data |-> d] OBVIOUS
  <2> QED BY <2>1, <2>2, <2>3 DEF a
<1>4. MapsOK(m2)
  <2>1. m2 = [x \in DOMAIN m2 |-> m2[x]] OBVIOUS
  <2>2. \A x \in DOMAIN m2 : m2[x] = [ordinal |-> m2[x].ordinal, data |-> m2[x].data]
    BY <1>1, <1>2, <1>3
  <2> HIDE DEF m2
  <2> QED BY <2>1, <2>2 DEF MapsOK
<1>5. t \in DOMAIN m => m2[t].data = d BY <1>3
<1> HIDE DEF m2
<1> QED BY <1>1, <1>4, <1>5 DEF m2

LEMMA HandleRows ==
  ASSUME NEW n, NEW ordinal, NEW acc, MapsOK(maps)
  PROVE  LET o == Handle(n, ordinal) IN
         /\ MapsOK(o.m) /\ n \in DOMAIN o.h
         /\ RowsIn(acc, maps) => RowsIn(acc, o.m)
         /\ Reached(handles, slots, maps) => Reached(o.h, o.s, o.m)
<1> DEFINE o == Handle(n, ordinal)
<1>1. CASE n \in DOMAIN handles
  <2>1. o.h = handles /\ o.s = slots /\ o.m = maps BY <1>1 DEF Handle
  <2> QED BY <1>1, <2>1
<1>2. CASE n \notin DOMAIN handles /\ ~CanOpen(n)
  <2>1. o.h = Put(handles, n, Null) /\ o.s = slots /\ o.m = maps BY <1>2 DEF Handle
  <2> QED BY <2>1 DEF Reached, Put
<1>3. CASE n \notin DOMAIN handles /\ CanOpen(n)
  <2> DEFINE h == Put(handles, n, Len(slots) + 1)
             s == Append(slots, n)
             m == IF n \in DOMAIN maps THEN maps
                  ELSE Put(maps, n, [ordinal |-> ordinal, data |-> EmptyMap])
  <2>1. o.h = h /\ o.s = s /\ o.m = m BY <1>3 DEF Handle
  <2>2. DOMAIN h = DOMAIN handles \cup {n} /\ h[n] = Len(slots) + 1
        /\ \A x \in DOMAIN handles : x # n => h[x] = handles[x]
    BY DEF Put
  <2>3. DOMAIN m = DOMAIN maps \cup {n} /\ \A x \in DOMAIN maps : m[x] = maps[x]
    BY DEF Put
  <2>4. MapsOK(m)
    <3>1. CASE n \in DOMAIN maps BY <3>1
    <3>2. CASE n \notin DOMAIN maps
      <4>1. m = Put(maps, n, [ordinal |-> ordinal, data |-> EmptyMap]) BY <3>2
      <4>2. m = [x \in DOMAIN m |-> m[x]] BY <4>1 DEF Put
      <4>3. m[n] = [ordinal |-> ordinal, data |-> EmptyMap] BY <4>1 DEF Put
      <4>4. \A x \in DOMAIN maps : maps[x] = [ordinal |-> maps[x].ordinal, data |-> maps[x].data]
        BY DEF MapsOK
      <4>5. \A x \in DOMAIN m : m[x] = [ordinal |-> m[x].ordinal, data |-> m[x].data]
        BY <2>3, <4>3, <4>4
      <4> HIDE DEF m
      <4> QED BY <4>2, <4>5 DEF MapsOK
    <3> QED BY <3>1, <3>2
  <2>5. Reached(handles, slots, maps) => Reached(h, s, m)
    <3>1. SUFFICES ASSUME Reached(handles, slots, maps) PROVE Reached(h, s, m) OBVIOUS
    <3>2. PICK X : slots \in Seq(X) BY <3>1 DEF Reached
    <3>3. slots \in Seq(X \cup {n}) BY <3>2
    <3>4. s \in Seq(X \cup {n}) /\ Len(s) = Len(slots) + 1 /\ s[Len(slots) + 1] = n
          /\ Len(slots) + 1 \in DOMAIN s
      BY <3>3
    <3>5. \A i \in DOMAIN slots : i \in DOMAIN s /\ s[i] = slots[i] BY <3>3
    <3> HIDE DEF h, s, m
    <3>6. ASSUME NEW x \in DOMAIN h, h[x] # Null
          PROVE  h[x] \in DOMAIN s /\ s[h[x]] = x /\ x \in DOMAIN m
      <4>1. CASE x = n BY <2>2, <2>3, <3>4, <4>1
      <4>2. CASE x # n BY <2>2, <2>3, <3>1, <3>5, <3>6, <4>2 DEF Reached
      <4> QED BY <4>1, <4>2
    <3> QED BY <3>4, <3>6 DEF Reached
  <2>6. RowsIn(acc, maps) => RowsIn(acc, m)
    <3> HIDE DEF m
    <3> QED BY <2>3 DEF RowsIn
  <2> HIDE DEF h, s, m
  <2> QED BY <2>1, <2>2, <2>4, <2>5, <2>6
<1> QED BY <1>1, <1>2, <1>3

LEMMA StoreRows ==
  ASSUME NEW n \in Name, NEW k \in Key, NEW v, NEW ordinal, NEW acc, MapsOK(maps),
         Store(Handle(n, ordinal), n, k, v)
  PROVE  /\ MapsOK(maps')
         /\ Reached(handles, slots, maps) => Reached(handles', slots', maps')
         /\ Reached(handles, slots, maps) /\ RowsIn(acc, maps) =>
              /\ RowsIn({r \in acc : r.at # <<n, k>>}, maps')
              /\ reply'.result = "ok" => RowsIn({[at |-> <<n, k>>, value |-> v]}, maps')
<1> DEFINE o == Handle(n, ordinal)
           t == Target(o, n)
           d == Put(o.m[t].data, k, v)
<1>1. handles' = o.h /\ slots' = o.s BY DEF Store, Uses
<1>2. /\ MapsOK(o.m) /\ n \in DOMAIN o.h
      /\ RowsIn(acc, maps) => RowsIn(acc, o.m)
      /\ Reached(handles, slots, maps) => Reached(o.h, o.s, o.m)
  BY HandleRows
<1>3. \/ maps' = [o.m EXCEPT ![t].data = d] /\ o.h[n] \in DOMAIN o.s
      \/ maps' = o.m /\ reply'.result = "fail"
  BY DEF Store, Fits, Reaches, Answer
<1>4. t = o.s[o.h[n]] BY DEF Target
<1>5. /\ k \in DOMAIN d /\ d[k] = v
      /\ \A x \in DOMAIN o.m[t].data : x \in DOMAIN d /\ (x # k => d[x] = o.m[t].data[x])
  BY DEF Put
<1> HIDE DEF o, t, d
<1>6. CASE maps' = o.m /\ reply'.result = "fail"
  <2>1. RowsIn(acc, o.m) => RowsIn({r \in acc : r.at # <<n, k>>}, o.m) BY DEF RowsIn
  <2> QED BY <1>1, <1>2, <1>6, <2>1
<1>7. CASE maps' = [o.m EXCEPT ![t].data = d] /\ o.h[n] \in DOMAIN o.s
  <2>1. /\ MapsOK(maps') /\ DOMAIN maps' = DOMAIN o.m
        /\ \A x \in DOMAIN o.m : x # t => maps'[x] = o.m[x]
        /\ t \in DOMAIN o.m => maps'[t].data = d
    BY <1>2, <1>7, DataWith
  <2>2. Reached(o.h, o.s, o.m) => Reached(o.h, o.s, maps') BY <2>1 DEF Reached
  <2>3. ASSUME Reached(o.h, o.s, o.m), RowsIn(acc, o.m)
        PROVE  /\ RowsIn({r \in acc : r.at # <<n, k>>}, maps')
               /\ RowsIn({[at |-> <<n, k>>, value |-> v]}, maps')
    <3>1. o.h[n] # Null
      <4>1. PICK X : o.s \in Seq(X) BY <2>3 DEF Reached
      <4>2. DOMAIN o.s \subseteq Nat \ {0} BY <4>1
      <4> QED BY <1>7, <4>2 DEF Null
    <3>2. t = n /\ n \in DOMAIN o.m BY <1>2, <1>4, <2>3, <3>1 DEF Reached
    <3>3. maps'[n].data = d /\ n \in DOMAIN maps' BY <2>1, <3>2
    <3>4. RowsIn({[at |-> <<n, k>>, value |-> v]}, maps')
      <4>1. <<n, k>> \in Name \X Key /\ <<n, k>>[1] = n /\ <<n, k>>[2] = k OBVIOUS
      <4> QED BY <1>5, <3>3, <4>1 DEF RowsIn
    <3>5. ASSUME NEW r \in acc, r.at # <<n, k>>
          PROVE  /\ r.at \in Name \X Key
                 /\ r.at[1] \in DOMAIN maps' /\ r.at[2] \in DOMAIN maps'[r.at[1]].data
                 /\ maps'[r.at[1]].data[r.at[2]] = r.value
      <4>1. /\ r.at \in Name \X Key
            /\ r.at[1] \in DOMAIN o.m /\ r.at[2] \in DOMAIN o.m[r.at[1]].data
            /\ o.m[r.at[1]].data[r.at[2]] = r.value
        BY <2>3 DEF RowsIn
      <4>2. CASE r.at[1] = n
        <5>1. r.at[2] # k BY <3>5, <4>1, <4>2
        <5> QED BY <1>5, <3>2, <3>3, <4>1, <4>2, <5>1
      <4>3. CASE r.at[1] # n BY <2>1, <3>2, <4>1, <4>3
      <4> QED BY <4>2, <4>3
    <3> QED BY <3>4, <3>5 DEF RowsIn
  <2> QED BY <1>1, <1>2, <2>1, <2>2, <2>3
<1> QED BY <1>3, <1>6, <1>7

LEMMA WritesStay == ASSUME CInv, WriteInv, [EngineNext]_evars PROVE WriteInv'
<1>1. ASSUME ran'.op \notin {"dump", "upset"} PROVE WriteInv' BY <1>1 DEF WriteInv
<1>2. ASSUME UNCHANGED ran, job' = job \/ job' = <<>>
      \/ \E c : job' = <<CallOn("rows", c)>> PROVE WriteInv'
  <2>1. CASE job' = job BY <1>2, <2>1 DEF WriteInv
  <2>2. CASE job' = <<>> BY <2>2 DEF WriteInv
  <2>3. ASSUME NEW c, job' = <<CallOn("rows", c)>> PROVE WriteInv'
    <3>1. \A i \in DOMAIN job' : job'[i] = CallOn("rows", c) BY <2>3
    <3>2. CallOn("rows", c).call # "write" BY DEF CallOn
    <3>3. \A i \in DOMAIN job' : job'[i].call # "write" BY <3>1, <3>2
    <3> QED BY <3>3 DEF WriteInv
  <2> QED BY <1>2, <2>1, <2>2, <2>3
<1>3. CASE OpenHandle \/ Return \/ UNCHANGED evars
  BY <1>2, <1>3 DEF OpenHandle, Return, past, evars, tell
<1>4. CASE Exec \/ CloseHandle \/ ProcessEnds
  <2>1. ran' = None BY <1>4 DEF Exec, CloseHandle, ProcessEnds, Forgets
  <2>2. None.op = "none" BY DEF None
  <2>3. ran'.op \notin {"dump", "upset"} BY <2>1, <2>2
  <2> QED BY <1>1, <2>3
<1>5. CASE Statement
  <2> DEFINE s == Head(text)
  <2>1. UNCHANGED <<job, ran>> \/ (job' = CallsOf(s) /\ ran' = s) BY <1>5 DEF Statement
  <2>2. s \in Stmts
    <3>1. text \in Seq(Stmts) /\ text # <<>> BY <1>5 DEF Statement, CInv, TextInv
    <3> QED BY <3>1
  <2> HIDE DEF s
  <2>3. CASE UNCHANGED <<job, ran>> BY <1>2, <2>3
  <2>4. ASSUME job' = CallsOf(s), ran' = s, s.op = "dump" PROVE WriteInv'
    <3>1. job' = <<Call0("groups")>> BY <2>4 DEF CallsOf
    <3>2. \A i \in DOMAIN job' : job'[i] = Call0("groups") BY <3>1
    <3>3. Call0("groups").call # "write" BY DEF Call0
    <3>4. \A i \in DOMAIN job' : job'[i].call # "write" BY <3>2, <3>3
    <3> QED BY <3>4 DEF WriteInv
  <2>5. ASSUME job' = CallsOf(s), ran' = s, s.op = "upset" PROVE WriteInv'
    <3>1. job' = <<CallOn("write", s.on)>> BY <2>5 DEF CallsOf
    <3>2. \A i \in DOMAIN job' : job'[i] = CallOn("write", s.on) BY <3>1
    <3>3. CallOn("write", s.on).on = s.on BY DEF CallOn
    <3>4. \A i \in DOMAIN job' : job'[i].on = s.on BY <3>2, <3>3
    <3>5. s.on.class \in ClassName /\ s.on.vertex.key \in Key BY <2>2, <2>5, UpsetAssumption
    <3> QED BY <3>4, <3>5 DEF WriteInv
  <2> QED BY <1>1, <2>1, <2>3, <2>4, <2>5
<1>6. CASE CloseOther \/ OpenNamed \/ OpenUnreadable \/ OpenOnNull \/ AddGroup \/ AddGroupIndex
  <2>1. Creating /\ UNCHANGED ran
    BY <1>6, WhoCalls DEF CloseOther, OpenNamed, OpenUnreadable, OpenOnNull, AddGroup,
        AddGroupIndex, Quiet
  <2> QED BY <1>1, <2>1 DEF Creating
<1>7. CASE DropCloses \/ DropRemoves
  <2>1. ran.op = "drop" /\ UNCHANGED ran BY <1>7, WhoCalls DEF DropCloses, DropRemoves, Quiet
  <2> QED BY <1>1, <2>1
<1>8. CASE DumpGroups
  <2>1. UNCHANGED ran /\ (job' = job \/ job' = <<>> \/ \E c : job' = <<CallOn("rows", c)>>)
    BY <1>8 DEF DumpGroups, Done, Undefined, Quiet
  <2> QED BY <1>2, <2>1
<1>9. CASE DumpRows
  <2>1. UNCHANGED ran BY <1>9 DEF DumpRows, Quiet
  <2>2. job' = job \/ job' = <<>> \/ \E c : job' = <<CallOn("rows", c)>>
    BY <1>9 DEF DumpRows, Done, Throws
  <2> QED BY <1>2, <2>1, <2>2
<1>10. CASE Upset
  <2>1. UNCHANGED ran BY <1>10 DEF Upset, Quiet
  <2>2. WriteRow => job' = <<>> BY DEF WriteRow, Throws, Done
  <2>3. WriteNowhere => job' = <<>> BY DEF WriteNowhere, Throws, Done
  <2>4. job' = job \/ job' = <<>> BY <1>10, <2>2, <2>3 DEF Upset, Done, Undefined
  <2> QED BY <1>2, <2>1, <2>4
<1> QED BY <1>3, <1>4, <1>5, <1>6, <1>7, <1>8, <1>9, <1>10 DEF EngineNext

RowState == <<disk, opened, maps, slots, handles, envs, accepted, kept>>
AInv == HandleInv /\ RowInv

LEMMA RowsSame == ASSUME AInv, UNCHANGED RowState PROVE AInv'
BY DEF AInv, RowState, HandleInv, RowInv, Reached

LEMMA RowsClosed ==
  ASSUME AInv, DiskInv, NEW keep \in BOOLEAN, ClosesStore(keep),
         envs' = envs \/ (envs' = 0 /\ ~keep)
  PROVE  AInv'
<1>1. /\ opened # NoGraph /\ opened' = NoGraph /\ maps' = EmptyMap /\ accepted' = {}
      /\ handles' = IF keep THEN handles ELSE EmptyMap
  BY DEF ClosesStore, Ends, Remembers
<1>2. \/ Commit /\ kept' = [kept EXCEPT ![opened] = accepted]
      \/ UNCHANGED <<disk, kept>>
  BY DEF ClosesStore
<1>3. HandleInv'
  <2>1. DOMAIN EmptyMap = {} BY DEF EmptyMap
  <2>2. CASE envs' = envs BY <1>1, <2>2 DEF AInv, HandleInv
  <2>3. CASE envs' = 0 /\ ~keep BY <1>1, <2>1, <2>3 DEF HandleInv
  <2> QED BY <2>2, <2>3
<1>4. RowInv'
  <2>1. CASE UNCHANGED <<disk, kept>> BY <1>1, <2>1, EmptyMaps DEF AInv, RowInv
  <2>2. CASE Commit /\ kept' = [kept EXCEPT ![opened] = accepted]
    <3>1. disk' = [disk EXCEPT ![opened] = [saved |-> TRUE, maps |-> maps, schema |-> schema]]
      BY <2>2 DEF Commit
    <3>2. ASSUME NEW g \in Graph
          PROVE  \/ g = opened /\ disk'[g].maps = maps /\ kept'[g] = accepted
                 \/ disk'[g] = disk[g] /\ kept'[g] = kept[g]
      BY <2>2, <3>1 DEF DiskInv, AInv, RowInv
    <3>3. ASSUME NEW g \in Graph PROVE MapsOK(disk'[g].maps) /\ RowsIn(kept'[g], disk'[g].maps)
      BY <1>1, <3>2 DEF AInv, RowInv
    <3>4. kept' = [g \in Graph |-> kept'[g]] BY <2>2 DEF AInv, RowInv
    <3> QED BY <1>1, <3>3, <3>4, EmptyMaps DEF RowInv
  <2> QED BY <1>2, <2>1, <2>2
<1> QED BY <1>3, <1>4 DEF AInv

LEMMA RowsOpened == ASSUME AInv, NEW g \in Graph, NEW m, OpensStore(g, m) PROVE AInv'
<1>1. /\ opened' = g /\ maps' = disk[g].maps /\ slots' = <<>> /\ accepted' = kept[g]
      /\ envs' = IF envs = 0 THEN 1 ELSE 2
      /\ UNCHANGED <<disk, handles, kept>>
  BY DEF OpensStore, Open
<1>2. HandleInv'
  <2>1. CASE envs = 0 BY <1>1, <2>1, EmptyMaps DEF AInv, HandleInv
  <2>2. CASE envs # 0 BY <1>1, <2>2 DEF HandleInv
  <2> QED BY <2>1, <2>2
<1>3. RowInv' BY <1>1 DEF AInv, RowInv
<1> QED BY <1>2, <1>3 DEF AInv

LEMMA RowsOfNone ==
  ASSUME AInv, NEW n, HandleOfNone(n), opened = NoGraph, UNCHANGED <<envs, accepted, kept>>
  PROVE  AInv'
<1>1. UNCHANGED <<disk, opened, maps, slots>> BY DEF HandleOfNone
<1>2. (\A x \in DOMAIN handles : handles[x] = Null) => (\A x \in DOMAIN handles' : handles'[x] = Null)
  BY DEF HandleOfNone, Put
<1>3. HandleInv' BY <1>1, <1>2 DEF AInv, HandleInv
<1>4. RowInv' BY <1>1 DEF AInv, RowInv
<1> QED BY <1>3, <1>4 DEF AInv

LEMMA RowsOfCursor ==
  ASSUME AInv, NEW n, Cursor(n), UNCHANGED <<envs, accepted, kept>>
  PROVE  AInv'
<1>1. PICK ordinal \in BOOLEAN : Uses(Handle(n, ordinal)) /\ maps' = Handle(n, ordinal).m BY DEF Cursor
<1>2. opened # NoGraph /\ UNCHANGED <<disk, opened>> BY DEF Cursor
<1>3. /\ MapsOK(maps')
      /\ RowsIn(accepted, maps) => RowsIn(accepted, maps')
      /\ Reached(handles, slots, maps) => Reached(handles', slots', maps')
  BY <1>1, HandleRows DEF AInv, RowInv, Uses
<1>4. HandleInv' BY <1>2, <1>3 DEF AInv, HandleInv
<1>5. RowInv' BY <1>2, <1>3 DEF AInv, RowInv
<1> QED BY <1>4, <1>5 DEF AInv

LEMMA RowsWritten ==
  ASSUME AInv, WriteInv, Calling("write"), CInv, WriteRow, UNCHANGED <<envs, kept>>
  PROVE  AInv'
<1>1. Class \in Name /\ Row.key \in Key
  <2>1. ran.op \in {"dump", "upset"} /\ job # <<>> BY WhoCalls
  <2>2. PICK S : job \in Seq(S) BY DEF CInv, JobInv
  <2>3. 1 \in DOMAIN job /\ Head(job) = job[1] BY <2>1, <2>2
  <2>4. Head(job).call = "write" BY DEF Calling
  <2>5. Head(job).on.class \in ClassName /\ Head(job).on.vertex.key \in Key
    BY <2>1, <2>3, <2>4 DEF WriteInv
  <2> QED BY <2>5 DEF Class, Row, Arg, Name
<1> DEFINE n == Class
           k == Row.key
           v == Row.value
           others == {r \in accepted : r.at # <<n, k>>}
           one == {[at |-> <<n, k>>, value |-> v]}
<1>2. opened # NoGraph BY DEF WriteRow
<1>3. \/ NoMoreAttrs /\ UNCHANGED accepted
      \/ ~NoMoreAttrs /\ Told(Reported(reply'.result = "ok"))
  BY DEF WriteRow
<1>4. \/ UNCHANGED <<disk, opened, maps, slots, handles>> /\ (NoMoreAttrs \/ reply'.op # "write")
      \/ ~NoMoreAttrs /\ \E ordinal : Store(Handle(n, ordinal), n, k, v)
  <2>1. CASE Row.attr = NoAttr
    <3>1. WriteEmptyJson(n, k, v) BY <2>1 DEF WriteRow
    <3>2. ~NoMoreAttrs BY <2>1 DEF NoMoreAttrs
    <3>3. CASE k \in StrKey BY <3>1, <3>2, <3>3 DEF WriteEmptyJson
    <3>4. CASE k \notin StrKey
      <4>1. reply' = Answer("write nothing", <<n, k>>, "ok")
            /\ UNCHANGED <<disk, opened, maps, slots, handles>>
        BY <3>1, <3>4 DEF WriteEmptyJson
      <4>2. reply'.op = "write nothing" BY <4>1 DEF Answer
      <4> QED BY <4>1, <4>2
    <3> QED BY <3>3, <3>4
  <2>2. CASE Row.attr # NoAttr
    <3> DEFINE s == Classed(Touched(schema, n, k), n)
               full == Row.attr \notin Known(s, n) /\ Len(s.cls[n].attrs) = MaxAttrs
    <3>1. NoMoreAttrs <=> full BY <2>2 DEF NoMoreAttrs
    <3>2. WriteJson(n, k, Row.attr, v) BY <2>2 DEF WriteRow
    <3>3. CASE full
      <4>1. UNCHANGED <<disk, opened, maps, slots, handles>> BY <3>2, <3>3 DEF WriteJson
      <4> QED BY <3>1, <3>3, <4>1
    <3>4. CASE ~full
      <4>1. Store(Handle(n, k \in IntKey), n, k, v) BY <3>2, <3>4 DEF WriteJson
      <4> QED BY <3>1, <3>4, <4>1
    <3> QED BY <3>3, <3>4
  <2> QED BY <2>1, <2>2
<1>5. Told(Reported(reply'.result = "ok")) =>
        \/ accepted' = {}
        \/ envs # 2 /\ accepted' = others
        \/ envs # 2 /\ reply'.result = "ok" /\ reply'.op = "write" /\ accepted' = others \cup one
  <2>1. reply'.result # "ok" => Reported(reply'.result = "ok") # "ok" BY DEF Reported
  <2> QED BY <2>1 DEF Told
<1>6. envs # 2 => envs = 1 /\ Reached(handles, slots, maps) /\ RowsIn(accepted, maps) /\ MapsOK(maps)
  BY <1>2 DEF AInv, HandleInv, RowInv
<1>7. MapsOK(maps) BY DEF AInv, RowInv
<1> HIDE DEF n, k, v, others, one
<1>8. RowsIn(accepted, maps) => RowsIn(others, maps) BY DEF RowsIn, others
<1>9. CASE UNCHANGED <<disk, opened, maps, slots, handles>> /\ (NoMoreAttrs \/ reply'.op # "write")
  <2>1. accepted' = accepted \/ accepted' = {} \/ accepted' = others BY <1>3, <1>5, <1>9
  <2>2. RowsIn(accepted', maps) BY <1>2, <1>8, <2>1, NoRows DEF AInv, RowInv
  <2>3. HandleInv' BY <1>9 DEF AInv, HandleInv, Reached
  <2>4. RowInv' BY <1>9, <2>2 DEF AInv, RowInv
  <2> QED BY <2>3, <2>4 DEF AInv
<1>10. ASSUME NEW ordinal, ~NoMoreAttrs, Store(Handle(n, ordinal), n, k, v) PROVE AInv'
  <2>1. /\ MapsOK(maps')
        /\ Reached(handles, slots, maps) => Reached(handles', slots', maps')
        /\ Reached(handles, slots, maps) /\ RowsIn(accepted, maps) =>
             RowsIn(others, maps') /\ (reply'.result = "ok" => RowsIn(one, maps'))
    <3>1. n \in Name /\ k \in Key BY <1>1 DEF n, k
    <3> QED BY <1>7, <1>10, <3>1, StoreRows DEF others, one
  <2>2. UNCHANGED <<disk, opened>> BY <1>10 DEF Store
  <2>3. RowsIn(accepted', maps')
    <3>1. CASE accepted' = {} BY <3>1, NoRows
    <3>2. CASE envs # 2 /\ accepted' = others BY <1>6, <2>1, <3>2
    <3>3. CASE envs # 2 /\ reply'.result = "ok" /\ accepted' = others \cup one
      <4>1. RowsIn(others, maps') /\ RowsIn(one, maps') BY <1>6, <2>1, <3>3
      <4> QED BY <3>3, <4>1 DEF RowsIn
    <3> QED BY <1>3, <1>5, <1>10, <3>1, <3>2, <3>3
  <2>4. HandleInv' BY <1>2, <2>1, <2>2 DEF AInv, HandleInv
  <2>5. RowInv' BY <2>1, <2>2, <2>3 DEF AInv, RowInv
  <2> QED BY <2>4, <2>5 DEF AInv
<1> QED BY <1>4, <1>9, <1>10 DEF n, k, v

LEMMA RowsOfOpen == ASSUME EInv, AInv, OpenNamed \/ OpenUnreadable PROVE AInv'
<1>1. CASE OpenNamed
  <2>1. Arg \in Graph
    <3>1. Arg = ran.graph /\ ran \in Stmts /\ ran.op = "create"
      BY <1>1, OpenFirst DEF EInv, OpenNamed, Creating
    <3> QED BY <3>1, CreateAssumption
  <2>2. PICK m \in {"read_only", "read_write"} : OpensStore(Arg, m) BY <1>1 DEF OpenNamed
  <2> HIDE DEF Arg
  <2> QED BY <2>1, <2>2, RowsOpened
<1>2. CASE OpenUnreadable
  <2>1. /\ accepted' = {} /\ maps' = EmptyMap /\ slots' = <<>> /\ opened = NoGraph
        /\ (envs' = envs /\ opened' = NoGraph) \/ envs' = IF envs = 0 THEN 1 ELSE 2
        /\ UNCHANGED <<disk, handles, kept>>
    BY <1>2 DEF OpenUnreadable
  <2>2. HandleInv'
    <3>1. CASE envs' = envs /\ opened' = NoGraph BY <2>1, <3>1 DEF AInv, HandleInv
    <3>2. CASE envs = 0 /\ envs' = 1 BY <2>1, <3>2, EmptyMaps DEF AInv, HandleInv
    <3>3. CASE envs' = 2 BY <3>3 DEF HandleInv
    <3> QED BY <2>1, <3>1, <3>2, <3>3
  <2>3. RowInv' BY <2>1, EmptyMaps, NoRows DEF AInv, RowInv
  <2> QED BY <2>2, <2>3 DEF AInv
<1> QED BY <1>1, <1>2

LEMMA RowsGone ==
  ASSUME AInv, opened' = NoGraph, envs' = 0, handles' = EmptyMap,
         maps' = EmptyMap \/ maps' = maps, UNCHANGED <<disk, kept>>
  PROVE  AInv'
<1>1. HandleInv'
  <2>1. DOMAIN EmptyMap = {} BY DEF EmptyMap
  <2> QED BY <2>1 DEF HandleInv
<1>2. RowInv' BY EmptyMaps DEF AInv, RowInv
<1> QED BY <1>1, <1>2 DEF AInv

LEMMA RowsRemoved == ASSUME EInv, AInv, DropRemoves PROVE AInv'
<1>1. UNCHANGED <<opened, maps, slots, handles, envs, accepted>> BY DEF DropRemoves, object
<1>2. HandleInv' BY <1>1 DEF AInv, HandleInv, Reached
<1> DEFINE none == [saved |-> FALSE, maps |-> EmptyMap, schema |-> NoSchema]
<1>3. \/ UNCHANGED <<disk, kept>>
      \/ disk' = [disk EXCEPT ![Arg] = none] /\ kept' = [kept EXCEPT ![Arg] = {}]
  BY DEF DropRemoves
<1>4. none.maps = EmptyMap OBVIOUS
<1> HIDE DEF none, Arg
<1>5. CASE UNCHANGED <<disk, kept>> BY <1>1, <1>2, <1>5 DEF AInv, RowInv
<1>6. CASE disk' = [disk EXCEPT ![Arg] = none] /\ kept' = [kept EXCEPT ![Arg] = {}]
  <2>1. ASSUME NEW g \in Graph
        PROVE  \/ disk'[g] = none /\ kept'[g] = {}
               \/ disk'[g] = disk[g] /\ kept'[g] = kept[g]
    BY <1>6 DEF EInv, DiskInv, AInv, RowInv
  <2>2. ASSUME NEW g \in Graph PROVE MapsOK(disk'[g].maps) /\ RowsIn(kept'[g], disk'[g].maps)
    BY <1>4, <2>1, EmptyMaps, NoRows DEF AInv, RowInv
  <2>3. kept' = [g \in Graph |-> kept'[g]] BY <1>6 DEF AInv, RowInv
  <2>4. RowInv' BY <1>1, <2>2, <2>3 DEF AInv, RowInv
  <2> QED BY <1>2, <2>4 DEF AInv
<1> QED BY <1>3, <1>5, <1>6

LEMMA RowsStay == ASSUME EInv, AInv, WriteInv, [EngineNext]_evars PROVE AInv'
<1>1. CASE UNCHANGED evars BY <1>1, RowsSame DEF RowState, evars, store, object, rows
<1>2. CASE Statement \/ Exec \/ Return \/ DumpGroups \/ OpenOnNull \/ AddGroup \/ AddGroupIndex
  <2>1. CASE Statement BY <2>1, RowsSame DEF Statement, RowState, store, rows
  <2>2. CASE Exec \/ Return \/ DumpGroups
    BY <2>2, RowsSame DEF Exec, Return, DumpGroups, SameStore, RowState, store, object, rows
  <2>3. CASE OpenOnNull BY <2>3, RowsSame DEF OpenOnNull, RowState, rows
  <2>4. CASE AddGroup BY <2>4, RowsSame DEF AddGroup, AddMap, RowState, object, rows
  <2>5. CASE AddGroupIndex BY <2>5, RowsSame DEF AddGroupIndex, AddIndex, RowState, object, rows
  <2> QED BY <1>2, <2>1, <2>2, <2>3, <2>4, <2>5
<1>3. CASE CloseOther \/ DropCloses
  <2>1. (ClosesStore(TRUE) \/ ClosesNothing) /\ UNCHANGED envs BY <1>3 DEF CloseOther, DropCloses
  <2>2. CASE ClosesStore(TRUE) BY <2>1, <2>2, RowsClosed DEF EInv
  <2>3. CASE ClosesNothing BY <2>1, <2>3, RowsSame DEF ClosesNothing, RowState, store, rows
  <2> QED BY <2>1, <2>2, <2>3
<1>4. CASE CloseHandle \/ ProcessEnds
  <2>1. envs' = 0 BY <1>4 DEF CloseHandle, ProcessEnds, Forgets
  <2>2. \/ ClosesStore(FALSE)
        \/ Crash /\ UNCHANGED kept
        \/ ClosedObject
    BY <1>4 DEF CloseHandle, ProcessEnds
  <2>3. CASE ClosesStore(FALSE) BY <2>1, <2>3, RowsClosed DEF EInv
  <2>4. CASE Crash /\ UNCHANGED kept BY <2>1, <2>4, RowsGone DEF Crash, Ends, Remembers
  <2>5. CASE ClosedObject BY <2>1, <2>5, RowsGone DEF ClosedObject, Remembers, rows
  <2> QED BY <2>2, <2>3, <2>4, <2>5
<1>5. CASE OpenHandle
  <2>1. CASE SameStore BY <2>1, RowsSame DEF SameStore, RowState, store, object, rows
  <2>2. CASE \E g \in Graph : OpensStore(g, "read_write") BY <2>2, RowsOpened
  <2> QED BY <1>5, <2>1, <2>2 DEF OpenHandle
<1>6. CASE OpenNamed \/ OpenUnreadable BY <1>6, RowsOfOpen
<1>7. CASE DropRemoves BY <1>7, RowsRemoved
<1>8. CASE DumpRows
  <2>1. UNCHANGED <<envs, accepted, kept>> BY <1>8 DEF DumpRows, rows
  <2>2. PICK n : (opened = NoGraph /\ HandleOfNone(n)) \/ Cursor(n) BY <1>8 DEF DumpRows
  <2> QED BY <2>1, <2>2, RowsOfNone, RowsOfCursor
<1>9. CASE Upset
  <2>1. UNCHANGED <<envs, kept>> /\ Calling("write") BY <1>9 DEF Upset
  <2>2. \/ UNCHANGED <<store, accepted>>
        \/ WriteRow
        \/ WriteNowhere
    BY <1>9 DEF Upset
  <2>3. CASE UNCHANGED <<store, accepted>> BY <2>1, <2>3, RowsSame DEF RowState, store
  <2>4. CASE WriteRow BY <2>1, <2>4, RowsWritten DEF EInv
  <2>5. CASE WriteNowhere
    <3>1. opened = NoGraph /\ UNCHANGED accepted BY <2>5 DEF WriteNowhere
    <3>2. UNCHANGED <<disk, opened, maps, slots, handles>> \/ HandleOfNone(Class)
      BY <2>5 DEF WriteNowhere
    <3> HIDE DEF Class
    <3> QED BY <2>1, <3>1, <3>2, RowsSame, RowsOfNone DEF RowState
  <2> QED BY <2>2, <2>3, <2>4, <2>5
<1> QED BY <1>1, <1>2, <1>3, <1>4, <1>5, <1>6, <1>7, <1>8, <1>9 DEF EngineNext

LEMMA RowsInit == EngineInit => AInv /\ WriteInv
<1> SUFFICES ASSUME EngineInit PROVE AInv /\ WriteInv OBVIOUS
<1>1. /\ disk = [g \in Graph |-> [saved |-> FALSE, maps |-> EmptyMap, schema |-> NoSchema]]
      /\ opened = NoGraph /\ maps = EmptyMap /\ handles = EmptyMap
      /\ envs = 0 /\ accepted = {} /\ kept = [g \in Graph |-> {}] /\ job = <<>>
  BY DEF EngineInit, Init
<1>2. HandleInv
  <2>1. DOMAIN EmptyMap = {} BY DEF EmptyMap
  <2> QED BY <1>1, <2>1 DEF HandleInv
<1>3. RowInv BY <1>1, EmptyMaps, NoRows DEF RowInv
<1>4. WriteInv BY <1>1 DEF WriteInv
<1> QED BY <1>2, <1>3, <1>4 DEF AInv

LEMMA RowsAreEntries ==
  ASSUME NEW acc, NEW m, RowsIn(acc, m)
  PROVE  \A r \in acc : r.at \in DOMAIN EntriesOf(m) /\ EntriesOf(m)[r.at] = r.value
<1> SUFFICES ASSUME NEW r \in acc
             PROVE  r.at \in DOMAIN EntriesOf(m) /\ EntriesOf(m)[r.at] = r.value
  OBVIOUS
<1>1. /\ r.at \in Name \X Key
      /\ r.at[1] \in DOMAIN m /\ r.at[2] \in DOMAIN m[r.at[1]].data
      /\ m[r.at[1]].data[r.at[2]] = r.value
  BY DEF RowsIn
<1> QED BY <1>1 DEF EntriesOf

\* A row that a call reported stored, the last of its text, is in the graph that
\* is open and, once that was committed, in its file (GQLiteImpl.cpp:37-69,
\* UtilPlan.cpp:95-127), whatever is created, dropped or left by a crash.
THEOREM AcceptedRowsAlwaysStay == EngineSpec => []AcceptedRowsStay
<1>1. EngineInit => EInv /\ AInv /\ WriteInv BY CInit, SchemaInit, RowsInit DEF EInv
<1>2. EInv /\ AInv /\ WriteInv /\ [EngineNext]_evars => (EInv /\ AInv /\ WriteInv)'
  BY EInvStays, RowsStay, WritesStay DEF EInv
<1>3. AInv => AcceptedRowsStay
  BY RowsAreEntries DEF AInv, RowInv, AcceptedRowsStay
<1> QED BY <1>1, <1>2, <1>3, PTL DEF EngineSpec
===============================================================================
