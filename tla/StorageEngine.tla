----------------------------- MODULE StorageEngine ----------------------------
(***************************************************************************)
(* GStorageEngine on libmdbx: src/src/StorageEngine/StorageEngine.cpp.     *)
(*                                                                         *)
(* open starts the one transaction of a session, close writes the schema   *)
(* and commits it.  A map of the database is reached through a handle, a   *)
(* slot number of the open environment; the engine caches the handles by   *)
(* name.  The calling thread is the one that opened the engine: nothing in *)
(* the program starts a transaction for another one.  libmdbx is modelled  *)
(* by what the code relies on: slots are numbered in the order the maps    *)
(* are opened, a map created for integer keys refuses others, a commit is  *)
(* atomic.                                                                 *)
(***************************************************************************)
EXTENDS Integers, Sequences, FiniteSets

CONSTANTS
  Graph, NoGraph,  (* database files                                        *)
  ClassName,       (* names addMap is called with                           *)
  IndexName,       (* names addIndex is called with                         *)
  IntKey, StrKey,  (* keys of the two overloads                             *)
  Value, Empty,    (* what is written; Empty has no bytes                   *)
  Attr,            (* attribute names of json values                        *)
  MaxAttrs,        (* 256: an attribute's number is one byte                *)
  MaxMaps,         (* maps one environment can open beside the schema's     *)
  Reuse,           (* does one engine object open several graphs in turn?   *)
  MaxCalls,        (* bound on the calls of one session                     *)
  MaxSessions      (* bound on the calls of open                            *)

ASSUME NameAssumption == NoGraph \notin Graph /\ IntKey \cap StrKey = {}
ASSUME LimitAssumption == MaxAttrs \in Nat /\ MaxMaps \in Nat /\ Reuse \in BOOLEAN
ASSUME BoundAssumption == MaxCalls \in Nat /\ MaxSessions \in Nat

VARIABLES
  disk,     (* the committed state of each graph                            *)
  opened,   (* the graph of _env, NoGraph when closed                       *)
  mode,     (* ReadWriteOption of the session                               *)
  maps,     (* the maps as the transaction sees them                        *)
  slots,    (* the names of the maps open in the environment, by slot       *)
  handles,  (* _mHandles: name -> slot, Null for a map that did not open    *)
  schema,   (* _schema: the classes and the indexes                         *)
  groups,   (* the keys of _groupsMap                                       *)
  reply,    (* the last answer                                              *)
  calls,    (* bounded: the calls of the session                            *)
  sessions  (* bounded: the sessions so far                                 *)

vars == <<disk, opened, mode, maps, slots, handles, schema, groups, reply,
          calls, sessions>>

Name == ClassName \cup IndexName
Key == IntKey \cup StrKey
Null == 0
KeyType == {"Uninitialize", "Integer", "Byte", "null"}
IndexType == {"Uninitialize", "Number", "Word", "Vector"}

EmptyMap == [x \in {} |-> Null]
Put(f, k, v) == [x \in DOMAIN f \cup {k} |-> IF x = k THEN v ELSE f[x]]
Remove(f, k) == [x \in DOMAIN f \ {k} |-> f[x]]

NoSchema == [cls |-> EmptyMap, idx |-> EmptyMap]
Answer(op, p, res) == [op |-> op, at |-> p, result |-> res]

-------------------------------------------------------------------------------
(* Handles *)

CanOpen(n) == (n \in DOMAIN maps \/ mode = "read_write") /\ Len(slots) < MaxMaps

\* getOrCreateHandle: the cache, the slots and the maps afterwards. A map opens
\* with the key mode it was created with; a failure is caught and cached.
Handle(n, ordinal) ==
  IF n \in DOMAIN handles THEN [h |-> handles, s |-> slots, m |-> maps]
  ELSE IF ~CanOpen(n) THEN [h |-> Put(handles, n, Null), s |-> slots, m |-> maps]
  ELSE [h |-> Put(handles, n, Len(slots) + 1), s |-> Append(slots, n),
        m |-> IF n \in DOMAIN maps THEN maps
              ELSE Put(maps, n, [ordinal |-> ordinal, data |-> EmptyMap])]

\* libmdbx takes the number for what it is in the environment that is open.
Reaches(o, n) == o.h[n] \in DOMAIN o.s
Target(o, n) == o.s[o.h[n]]

Fits(o, n, k) == Reaches(o, n) /\ (o.m[Target(o, n)].ordinal => k \in IntKey)

Uses(o) == slots' = o.s /\ handles' = o.h

-------------------------------------------------------------------------------
(* The schema *)

\* addMap registers a class, addIndex an index; neither creates a map.
AddMap(n, t) ==
  /\ opened # NoGraph
  /\ schema' = IF n \in DOMAIN schema.cls THEN schema
               ELSE [schema EXCEPT !.cls = Put(@, n, [key |-> t, attrs |-> <<>>])]
  /\ groups' = groups \cup {n}
  /\ UNCHANGED <<disk, opened, mode, maps, slots, handles, reply>>

AddIndex(n) ==
  /\ opened # NoGraph
  /\ schema' = IF n \in DOMAIN schema.idx THEN schema
               ELSE [schema EXCEPT !.idx = Put(@, n, "Uninitialize")]
  /\ UNCHANGED <<disk, opened, mode, maps, slots, handles, groups, reply>>

UpdateIndexType(n, t) ==
  /\ opened # NoGraph /\ n \in DOMAIN schema.idx
  /\ schema' = IF schema.idx[n] # "Uninitialize" THEN schema
               ELSE [schema EXCEPT !.idx[n] = t]
  /\ UNCHANGED <<disk, opened, mode, maps, slots, handles, groups, reply>>

\* Faulty variant: a class takes the key type of an index.
TouchedAsIndex(s, n, k) ==
  LET t == IF k \in IntKey THEN "Number" ELSE "Word"
  IN  IF n \in DOMAIN s.cls /\ s.cls[n].key = "Uninitialize" THEN [s EXCEPT !.cls[n].key = t]
      ELSE IF n \in DOMAIN s.idx /\ s.idx[n] = "Uninitialize" THEN [s EXCEPT !.idx[n] = t]
      ELSE s

\* The first lines of every write: tryInitKeyType, or updateIndexType. A class
\* that a json write made without a key type keeps none.
Touched(s, n, k) ==
  IF n \in DOMAIN s.cls
  THEN IF s.cls[n].key # "Uninitialize" THEN s
       ELSE [s EXCEPT !.cls[n].key = IF k \in IntKey THEN "Integer" ELSE "Byte"]
  ELSE IF n \in DOMAIN s.idx /\ s.idx[n] = "Uninitialize"
  THEN [s EXCEPT !.idx[n] = IF k \in IntKey THEN "Number" ELSE "Word"]
  ELSE s

\* attributes = _schema["cls"][name]["val_type"]: the access creates the class.
Classed(s, n) ==
  IF n \in DOMAIN s.cls THEN s
  ELSE [s EXCEPT !.cls = Put(@, n, [key |-> "null", attrs |-> <<>>])]

\* Faulty variant: no look at what the class has already.
KnownNone(s, n) == {}

Known(s, n) == {s.cls[n].attrs[i] : i \in DOMAIN s.cls[n].attrs}

-------------------------------------------------------------------------------
(* Entries *)

\* ::put through the handle; it reports an error, it does not throw.
Store(o, n, k, v) ==
  /\ Uses(o)
  /\ IF mode = "read_write" /\ Fits(o, n, k)
     THEN /\ maps' = [o.m EXCEPT ![Target(o, n)].data = Put(@, k, v)]
          /\ reply' = Answer("write", <<n, k>>, "ok")
     ELSE /\ maps' = o.m
          /\ reply' = Answer("write", <<n, k>>, "fail")
  /\ UNCHANGED <<disk, opened, mode, groups>>

\* write of bytes
Write(n, k, v) ==
  /\ opened # NoGraph
  /\ schema' = Touched(schema, n, k)
  /\ Store(Handle(n, k \in IntKey), n, k, v)

\* write of a json value with one attribute, new to the class or not.
WriteJson(n, k, a, v) ==
  /\ opened # NoGraph
  /\ LET s == Classed(Touched(schema, n, k), n) IN
       IF a \in Known(s, n)
       THEN schema' = s /\ Store(Handle(n, k \in IntKey), n, k, v)
       ELSE IF Len(s.cls[n].attrs) = MaxAttrs
       THEN \* tryInitAttributeType throws
            /\ schema' = s /\ reply' = Answer("write", <<n, k>>, "fail")
            /\ UNCHANGED <<disk, opened, mode, maps, slots, handles, groups>>
       ELSE /\ schema' = [s EXCEPT !.cls[n].attrs = Append(@, a)]
            /\ Store(Handle(n, k \in IntKey), n, k, v)

\* write of an empty json value: under an integer key success and no entry,
\* under a string key the entry "null".
WriteEmptyJson(n, k, v) ==
  /\ opened # NoGraph
  /\ schema' = Classed(Touched(schema, n, k), n)
  /\ IF k \in StrKey THEN Store(Handle(n, FALSE), n, k, v)
     ELSE /\ reply' = Answer("write nothing", <<n, k>>, "ok")
          /\ UNCHANGED <<disk, opened, mode, maps, slots, handles, groups>>

\* The assertion of read and del.
Registered(n) == n \in DOMAIN schema.cls \/ n \in DOMAIN schema.idx

Read(n, k) ==
  /\ opened # NoGraph /\ Registered(n)
  /\ LET o == Handle(n, k \in IntKey)
         d == o.m[Target(o, n)].data
     IN  /\ Uses(o) /\ maps' = o.m
         /\ reply' = Answer("read", <<n, k>>,
                       IF ~Fits(o, n, k) THEN "error"
                       ELSE IF k \in DOMAIN d /\ d[k] # Empty THEN d[k] ELSE "absent")
  /\ UNCHANGED <<disk, opened, mode, schema, groups>>

Del(n, k) ==
  /\ opened # NoGraph /\ Registered(n)
  /\ LET o == Handle(n, k \in IntKey)
         d == o.m[Target(o, n)].data
     IN  /\ Uses(o)
         /\ IF ~Fits(o, n, k) \/ mode # "read_write"
            THEN maps' = o.m /\ reply' = Answer("del", <<n, k>>, "error")
            ELSE IF k \in DOMAIN d
            THEN /\ maps' = [o.m EXCEPT ![Target(o, n)].data = Remove(@, k)]
                 /\ reply' = Answer("del", <<n, k>>, "ok")
            ELSE maps' = o.m /\ reply' = Answer("del", <<n, k>>, "fail")
  /\ UNCHANGED <<disk, opened, mode, schema, groups>>

\* getMapCursor and getIndexCursor open the map in the mode the schema says.
Cursor(n) ==
  /\ opened # NoGraph
  /\ \E ordinal \in BOOLEAN :
       /\ \/ n \in DOMAIN schema.cls /\ schema.cls[n].key # "null"
             /\ ordinal = (schema.cls[n].key = "Integer")
          \/ n \in DOMAIN schema.idx /\ ordinal = (schema.idx[n] # "Word")
       /\ LET o == Handle(n, ordinal) IN Uses(o) /\ maps' = o.m
  /\ UNCHANGED <<disk, opened, mode, schema, groups, reply>>

-------------------------------------------------------------------------------
(* Sessions *)

Exists(g) == disk[g].saved

\* open of a closed engine; an open one is closed first. A schema replaces the
\* one in memory only if the file holds one. initMap's class "__basic" is the
\* same in every schema and left out.
Open(g, m) ==
  /\ opened = NoGraph
  /\ m = "read_only" => Exists(g)
  /\ opened' = g /\ mode' = m
  /\ maps' = disk[g].maps /\ slots' = <<>>
  /\ schema' = IF Exists(g) THEN disk[g].schema ELSE schema
  /\ reply' = Answer("open", g, "ok")
  /\ UNCHANGED <<disk, handles, groups>>

\* Faulty variant: the cache of handles outlives the engine, a static one.
RemembersHandles(keep) ==
  /\ handles' = handles
  /\ schema' = IF keep THEN schema ELSE NoSchema
  /\ groups' = IF keep THEN groups ELSE {}

\* What the engine object remembers once it is closed: everything, unless it is
\* a new one that is opened next.
Remembers(keep) ==
  /\ handles' = IF keep THEN handles ELSE EmptyMap
  /\ schema' = IF keep THEN schema ELSE NoSchema
  /\ groups' = IF keep THEN groups ELSE {}

\* The transaction and the environment are gone.
Ends(keep, result) ==
  /\ opened' = NoGraph /\ maps' = EmptyMap /\ slots' = <<>>
  /\ reply' = Answer("close", opened, result)
  /\ Remembers(keep)
  /\ UNCHANGED mode

\* Faulty variant: the transaction is dropped instead of committed.
CommitForgotten == UNCHANGED disk

\* The schema goes into the transaction that close commits.
Commit ==
  disk' = [disk EXCEPT ![opened] = [saved |-> TRUE, maps |-> maps, schema |-> schema]]

Close ==
  /\ opened # NoGraph
  /\ IF mode = "read_write" THEN Commit ELSE UNCHANGED disk
  /\ Ends(Reuse, "saved")

\* The commit throws: close prints the error and goes on.
CloseFails ==
  /\ opened # NoGraph /\ mode = "read_write"
  /\ UNCHANGED disk
  /\ Ends(Reuse, "lost")

Crash ==
  /\ opened # NoGraph
  /\ UNCHANGED disk
  /\ Ends(FALSE, "lost")

Init ==
  /\ disk = [g \in Graph |-> [saved |-> FALSE, maps |-> EmptyMap, schema |-> NoSchema]]
  /\ opened = NoGraph /\ mode = "read_write"
  /\ maps = EmptyMap /\ slots = <<>> /\ handles = EmptyMap
  /\ schema = NoSchema /\ groups = {}
  /\ reply = Answer("none", NoGraph, "ok")
  /\ calls = 0 /\ sessions = 0

Call ==
  \/ \E n \in ClassName, t \in {"Uninitialize", "Integer", "Byte"} : AddMap(n, t)
  \/ \E n \in IndexName : AddIndex(n) \/ \E t \in {"Number", "Word", "Vector"} : UpdateIndexType(n, t)
  \/ \E n \in Name, k \in Key :
       \/ \E v \in Value : Write(n, k, v)
       \/ \E v \in Value \ {Empty} :
            WriteEmptyJson(n, k, v) \/ \E a \in Attr : WriteJson(n, k, a, v)
       \/ Read(n, k) \/ Del(n, k)
  \/ \E n \in Name : Cursor(n)

OpenSome == \E g \in Graph, m \in {"read_only", "read_write"} : Open(g, m)

Next ==
  \/ calls < MaxCalls /\ calls' = calls + 1 /\ Call /\ UNCHANGED sessions
  \/ sessions < MaxSessions /\ sessions' = sessions + 1 /\ calls' = 0 /\ OpenSome
  \/ (Close \/ CloseFails \/ Crash) /\ UNCHANGED <<calls, sessions>>

Spec == Init /\ [][Next]_vars

-------------------------------------------------------------------------------
Entries == [key : KeyType, attrs : Seq(Attr)]

TypeOK ==
  /\ opened \in Graph \cup {NoGraph} /\ mode \in {"read_only", "read_write"}
  /\ DOMAIN maps \subseteq Name
  /\ \A n \in DOMAIN maps : /\ maps[n].ordinal \in BOOLEAN
                            /\ DOMAIN maps[n].data \subseteq Key
  /\ slots \in Seq(Name)
  /\ DOMAIN handles \subseteq Name /\ \A n \in DOMAIN handles : handles[n] \in Nat
  /\ DOMAIN schema.cls \subseteq Name
  /\ \A n \in DOMAIN schema.cls : schema.cls[n] \in Entries
  /\ DOMAIN schema.idx \subseteq IndexName
  /\ \A n \in DOMAIN schema.idx : schema.idx[n] \in IndexType
  /\ groups \subseteq ClassName

(* A cached handle reaches the map of its name in the open environment, so   *)
(* no call touches another map than the one it names. The cache outlives the *)
(* environment: this holds of an engine that opens one graph only            *)
(* (StorageEngine.cpp:414-425).                                              *)
HandlesReachTheirMap ==
  opened # NoGraph =>
    \A n \in DOMAIN handles :
      handles[n] # Null => handles[n] \in DOMAIN slots /\ slots[handles[n]] = n

(* The number of an attribute, its position, is its own and fits in a byte,  *)
(* across the sessions that add attributes (StorageEngine.cpp:344-381).      *)
AttributesNumbered ==
  \A n \in DOMAIN schema.cls :
    LET a == schema.cls[n].attrs
    IN  Len(a) <= MaxAttrs /\ \A i, j \in DOMAIN a : a[i] = a[j] => i = j

-------------------------------------------------------------------------------
(* The engine implements GraphStore. *)

EntriesOf(m) ==
  [p \in {q \in Name \X Key : q[1] \in DOMAIN m /\ q[2] \in DOMAIN m[q[1]].data} |->
     m[p[1]].data[p[2]]]

Abstract == INSTANCE GraphStore WITH
  Place <- Name \X Key,
  stored <- [g \in Graph |-> EntriesOf(disk[g].maps)],
  view <- EntriesOf(maps)

(* Sessions see what earlier sessions saved, under the names and keys it was *)
(* saved with; a session that ends in a crash or a failed commit leaves no   *)
(* trace. AddMap, AddIndex and Cursor change no entry.                       *)
ImplementsGraphStore == Abstract!Spec

-------------------------------------------------------------------------------
(* StorageEngine.h:116-126: an entry belongs to the class it was written     *)
(* for. A read that returns a value returns the one under that name and key. *)
ReadsTheNamedEntry ==
  reply.op = "read" /\ reply.result \in Value =>
    LET e == EntriesOf(maps)
    IN  reply.at \in DOMAIN e /\ e[reply.at] = reply.result
===============================================================================
