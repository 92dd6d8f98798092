-------------------------------- MODULE Engine --------------------------------
(***************************************************************************)
(* The life of a handle of the library: gqlite_open, gqlite_exec and       *)
(* gqlite_close (gqlite.cpp, GQLiteImpl.cpp), the statements of a text as  *)
(* the parser hands them to execAST (gql.y, VirtualEngine.cpp), and the    *)
(* plans of creation, drop and dump (UtilPlan.cpp), on the storage engine  *)
(* below.  A statement becomes a list of calls, each a step, since the     *)
(* process may end between two of them.                                    *)
(*                                                                         *)
(* Rows are written by upsets of one vertex; removals, queries and the     *)
(* entries of indexes are in Statements and Scan, so the attributes that   *)
(* are written here have no index.                                         *)
(***************************************************************************)
EXTENDS StorageEngine

CONSTANTS
  Texts,     (* what a caller passes to gqlite_exec: sequences of statements *)
  MaxTexts,  (* bound on the texts that are executed                         *)
  NoAttr     (* a vertex without attributes                                  *)

Stmts == UNION {{t[i] : i \in DOMAIN t} : t \in Texts}

ASSUME TextAssumption == Texts \subseteq Seq(Stmts)
ASSUME CreateAssumption ==
  \A s \in Stmts : s.op = "create" =>
    s.graph \in Graph /\ s.groups \in Seq(ClassName) /\ s.indexes \in Seq(IndexName)
ASSUME UpsetAssumption ==
  \A s \in Stmts : s.op = "upset" => s.on.class \in ClassName /\ s.on.vertex.key \in Key

VARIABLES
  handle,    (* the gqlite of the caller                                     *)
  text,      (* the statements that are not parsed yet                       *)
  job,       (* the calls the current statement has left                     *)
  code,      (* _errorCode                                                   *)
  trans,     (* the entry of _txns: in step with the environment, null, or   *)
             (* null below an open environment                               *)
  known,     (* does _schema hold anything?                                  *)
  files,     (* the graphs that have a file                                  *)
  relations, (* the edge classes in _schema["edge"]                          *)
  filed,     (* ... and in the schema of each file                           *)
  ran,       (* history: the last statement of the text that was executed    *)
  cut,       (* history: an exception ended the text                         *)
  misused,   (* history: a statement met a closed store                      *)
  replaced,  (* history: the last creation found the schema of a file        *)
  envs,      (* history: environments the object has opened, up to two       *)
  accepted,  (* history: rows of the open graph that were reported stored    *)
  kept,      (* history: ... of each graph, when it was last committed       *)
  texts      (* bounded: the texts so far                                    *)

store == <<disk, opened, mode, maps, slots, handles, schema, groups, reply>>
bound == <<calls, sessions>>
tell == <<handle, text, job, code>>
object == <<trans, known, envs>>
onDisk == <<files, filed>>
rows == <<accepted, kept>>
past == <<ran, cut, misused, replaced, texts>>
evars == <<store, bound, tell, object, onDisk, relations, rows, past>>

None == [op |-> "none"]
Call0(c) == [call |-> c]
CallOn(c, n) == [call |-> c, on |-> n]

EngineInit ==
  /\ Init
  /\ handle = "none" /\ text = <<>> /\ job = <<>> /\ code = "ok"
  /\ trans = "ok" /\ known = FALSE /\ envs = 0
  /\ files = {} /\ relations = {} /\ filed = [g \in Graph |-> {}]
  /\ ran = None /\ cut = FALSE /\ misused = FALSE /\ replaced = FALSE
  /\ accepted = {} /\ kept = [g \in Graph |-> {}] /\ texts = 0

-----------------------------------------------------------------------------
(* Statements *)

Negative == {"broken", "skip"}

(* The reductions of creation, dump and show reset the code before the     *)
(* statement is executed.  An array that is no json leaves a code that     *)
(* skips its statement, an error before a brace one that ends the text.    *)
Reduced(s) ==
  CASE s.op \in {"create", "dump", "show"} -> "ok"
    [] s.op = "badarray" -> "skip"
    [] s.op = "broken" -> "broken"
    [] OTHER -> code

CallsOf(s) ==
  CASE s.op = "create" ->
         <<CallOn("open", s.graph)>> \o [i \in DOMAIN s.groups |-> CallOn("map", s.groups[i])]
           \o [i \in DOMAIN s.indexes |-> CallOn("index", s.indexes[i])]
    [] s.op = "drop" -> <<Call0("close"), CallOn("remove", s.graph)>>
    [] s.op = "dump" -> <<Call0("groups")>>
    [] s.op = "upset" -> <<CallOn("write", s.on)>>

(* One statement: the line rule of the grammar and execAST up to its plan. *)
(* The plan of a creation puts the relations of its edge groups into the   *)
(* schema that is there, and open comes later.                             *)
Statement ==
  /\ handle = "busy" /\ job = <<>> /\ text # <<>>
  /\ LET s == Head(text) IN
     /\ code' = IF s.op = "truncated" THEN code ELSE Reduced(s)
     /\ text' = IF s.op \in {"broken", "truncated"} THEN <<>> ELSE Tail(text)
     /\ IF s.op \in {"create", "drop", "dump", "upset"} /\ code' \notin Negative
        THEN /\ job' = CallsOf(s) /\ ran' = s
             /\ relations' = IF s.op = "create" THEN relations \cup s.edges ELSE relations
             /\ known' = (known \/ (s.op = "create" /\ s.edges # {}))
             /\ misused' = (misused \/ (s.op \in {"dump", "upset"} /\ opened = NoGraph))
        ELSE UNCHANGED <<job, ran, relations, known, misused>>
  /\ UNCHANGED <<handle, store, bound, trans, envs, onDisk, rows, cut, replaced, texts>>

Calling(c) == handle = "busy" /\ job # <<>> /\ Head(job).call = c
Arg == Head(job).on

(* The statement ends with a result, which the line rule makes the code.   *)
Done(result) == job' = <<>> /\ code' = result /\ UNCHANGED <<handle, text, cut>>
(* The next call, or the end of the statement.                             *)
GoesOn ==
  /\ job' = Tail(job) /\ code' = IF Tail(job) = <<>> THEN "ok" ELSE code
  /\ UNCHANGED <<handle, text, cut>>
(* GQLiteImpl::exec catches it: the rest of the text is not executed, and  *)
(* the code stays what it was.                                             *)
Throws == job' = <<>> /\ text' = <<>> /\ cut' = TRUE /\ UNCHANGED <<handle, code>>

-----------------------------------------------------------------------------
(* The store below *)

Quiet == UNCHANGED <<bound, ran, texts>>
SameStore == UNCHANGED <<store, object, onDisk, relations, rows>>

(* Faulty variant: the handles are remembered for the process.             *)
ClosesStoreKeeping(keep) ==
  /\ opened # NoGraph
  /\ \/ /\ mode = "read_write" /\ Commit
        /\ filed' = [filed EXCEPT ![opened] = relations]
        /\ kept' = [kept EXCEPT ![opened] = accepted]
     \/ UNCHANGED <<disk, filed, kept>>
  /\ opened' = NoGraph /\ maps' = EmptyMap /\ slots' = <<>> /\ RemembersHandles(keep)
  /\ UNCHANGED <<mode, reply, files>> /\ accepted' = {}

(* GStorageEngine::close of an open store; a commit that throws is caught. *)
ClosesStore(keep) ==
  /\ opened # NoGraph
  /\ \/ /\ mode = "read_write" /\ Commit
        /\ filed' = [filed EXCEPT ![opened] = relations]
        /\ kept' = [kept EXCEPT ![opened] = accepted]
     \/ UNCHANGED <<disk, filed, kept>>
  /\ Ends(keep, "saved") /\ accepted' = {} /\ UNCHANGED files

(* ... of a closed one, or of one whose transaction is null: the exception *)
(* of its flags is caught, and the entry is gone.                          *)
ClosesNothing ==
  opened = NoGraph /\ UNCHANGED <<store, onDisk, rows>>

OpensStore(g, m) ==
  /\ Open(g, m) /\ accepted' = kept[g] /\ files' = files \cup {g}
  /\ relations' = IF Exists(g) THEN filed[g] ELSE relations
  /\ known' = TRUE /\ envs' = IF envs = 0 THEN 1 ELSE 2
  /\ UNCHANGED <<trans, filed, kept>>

-----------------------------------------------------------------------------
(* Creation: open closes what is open, and the option it is given has a    *)
(* mode nobody has set.                                                    *)

CloseOther ==
  /\ Calling("open") /\ (opened # NoGraph \/ trans = "stuck")
  /\ ClosesStore(TRUE) \/ ClosesNothing
  /\ trans' = "ok" /\ misused' = FALSE
  /\ UNCHANGED <<tell, known, envs, relations, cut, replaced>> /\ Quiet

OpenNamed ==
  /\ Calling("open") /\ opened = NoGraph /\ trans = "ok"
  /\ \E m \in {"read_only", "read_write"} : OpensStore(Arg, m)
  /\ misused' = FALSE /\ replaced' = Exists(Arg) /\ GoesOn /\ Quiet

(* A file without a schema cannot be opened to be read.  The environment   *)
(* of one that is there stays open.                                        *)
OpenUnreadable ==
  /\ Calling("open") /\ opened = NoGraph /\ trans = "ok" /\ ~Exists(Arg)
  /\ mode' = "read_only" /\ accepted' = {}
  /\ opened' = IF Arg \in files THEN Arg ELSE NoGraph
  /\ maps' = EmptyMap /\ slots' = <<>>
  /\ envs' = IF Arg \notin files THEN envs ELSE IF envs = 0 THEN 1 ELSE 2
  /\ Throws /\ misused' = FALSE
  /\ UNCHANGED <<disk, handles, schema, groups, reply, trans, known, onDisk, relations, kept,
                 replaced>> /\ Quiet

(* startTrans keeps the null transaction it finds, and the schema cannot   *)
(* be read.                                                                *)
OpenOnNull ==
  /\ Calling("open") /\ trans = "null"
  /\ \E m \in {"read_only", "read_write"} :
       /\ mode' = m
       /\ IF m = "read_only" /\ Arg \notin files THEN UNCHANGED <<trans, files>>
          ELSE trans' = "stuck" /\ files' = files \cup {Arg}
  /\ Throws
  /\ UNCHANGED <<disk, opened, maps, slots, handles, schema, groups, reply, known, envs, filed,
                 relations, rows, misused, replaced>> /\ Quiet

AddGroup ==
  /\ Calling("map") /\ AddMap(Arg, "Uninitialize") /\ GoesOn
  /\ UNCHANGED <<object, onDisk, relations, rows, misused, replaced>> /\ Quiet

AddGroupIndex ==
  /\ Calling("index") /\ AddIndex(Arg) /\ GoesOn
  /\ UNCHANGED <<object, onDisk, relations, rows, misused, replaced>> /\ Quiet

-----------------------------------------------------------------------------
(* Drop closes the graph that is open, whichever it names. *)

(* Faulty variant: the entry of a null transaction stays.                  *)
DropClosesHalf ==
  /\ Calling("close") /\ (ClosesStore(TRUE) \/ ClosesNothing)
  /\ trans' = trans /\ misused' = FALSE /\ GoesOn
  /\ UNCHANGED <<known, envs, relations, replaced>> /\ Quiet

DropCloses ==
  /\ Calling("close") /\ (ClosesStore(TRUE) \/ ClosesNothing)
  /\ trans' = "ok" /\ misused' = FALSE /\ GoesOn
  /\ UNCHANGED <<known, envs, relations, replaced>> /\ Quiet

DropRemoves ==
  /\ Calling("remove")
  /\ IF Arg \notin files THEN Done("missing") /\ UNCHANGED <<disk, onDisk, kept>>
     ELSE \/ Done("undropped") /\ UNCHANGED <<disk, onDisk, kept>>
          \/ /\ disk' = [disk EXCEPT ![Arg] = [saved |-> FALSE, maps |-> EmptyMap, schema |-> NoSchema]]
             /\ files' = files \ {Arg} /\ filed' = [filed EXCEPT ![Arg] = {}]
             /\ kept' = [kept EXCEPT ![Arg] = {}] /\ Done("ok")
  /\ UNCHANGED <<opened, mode, maps, slots, handles, schema, groups, reply, object, relations,
                 accepted, misused, replaced>> /\ Quiet

-----------------------------------------------------------------------------
(* Dump *)

(* The process is gone, or goes on with memory that is not its own.        *)
Undefined == handle' = "undefined" /\ UNCHANGED <<text, job, code, cut>>

(* The creation that is printed: without a group its last byte is taken    *)
(* from an empty string.                                                   *)
DumpGroups ==
  /\ Calling("groups")
  /\ IF ~known \/ DOMAIN schema.cls = {} THEN Undefined
     ELSE LET typed == {n \in DOMAIN schema.cls : schema.cls[n].key \in {"Integer", "Byte"}} IN
          IF typed = {} THEN Done("ok")
          ELSE /\ job' = <<CallOn("rows", typed)>> /\ UNCHANGED <<handle, text, code, cut>>
  /\ SameStore /\ UNCHANGED <<misused, replaced>> /\ Quiet

(* A name of a handle that could not be had is remembered as such, and the *)
(* map of transactions has a null one for the thread.                      *)
HandleOfNone(n) ==
  /\ handles' = IF n \in DOMAIN handles THEN handles ELSE Put(handles, n, Null)
  /\ trans' = IF trans = "ok" THEN "null" ELSE trans
  /\ UNCHANGED <<disk, opened, mode, maps, slots, groups>>

(* The rows of the classes, in the order of their names: any order here.   *)
DumpRows ==
  /\ Calling("rows")
  /\ \E n \in Arg :
       IF opened = NoGraph
       THEN HandleOfNone(n) /\ UNCHANGED <<schema, reply>> /\ Throws
       ELSE /\ Cursor(n) /\ UNCHANGED trans
            /\ IF handles'[n] \notin DOMAIN slots' THEN Throws
               ELSE IF Arg = {n} THEN Done("ok")
               ELSE job' = <<CallOn("rows", Arg \ {n})>> /\ UNCHANGED <<handle, text, code, cut>>
  /\ UNCHANGED <<known, envs, onDisk, relations, rows, misused, replaced>> /\ Quiet

-----------------------------------------------------------------------------
(* Upset of one vertex *)

Row == Arg.vertex
Class == Arg.class
Mismatch ==
  schema.cls[Class].key = IF Row.key \in IntKey THEN "Byte" ELSE "Integer"
NoMoreAttrs ==
  LET s == Classed(Touched(schema, Class, Row.key), Class) IN
  Row.attr # NoAttr /\ Row.attr \notin Known(s, Class) /\ Len(s.cls[Class].attrs) = MaxAttrs

(* A row under an integer key is reported stored only if some class has an *)
(* index.                                                                  *)
Reported(stored) ==
  IF stored /\ (Row.key \in StrKey \/ DOMAIN schema.idx # {}) THEN "ok" ELSE "fail"

(* What the caller is told, when the text ends here.                       *)
Told(result) ==
  LET others == {r \in accepted : r.at # <<Class, Row.key>>} IN
  accepted' =
    IF envs = 2 THEN {}
    ELSE IF result # "ok" \/ text # <<>> \/ reply'.op # "write" THEN others
    ELSE others \cup {[at |-> <<Class, Row.key>>, value |-> Row.value]}

WriteRow ==
  /\ opened # NoGraph
  /\ IF Row.attr = NoAttr THEN WriteEmptyJson(Class, Row.key, Row.value)
     ELSE WriteJson(Class, Row.key, Row.attr, Row.value)
  /\ IF NoMoreAttrs THEN Throws /\ UNCHANGED accepted
     ELSE LET result == Reported(reply'.result = "ok") IN Done(result) /\ Told(result)
  /\ UNCHANGED trans

(* The schema is touched, then the write finds no transaction.             *)
WriteNowhere ==
  /\ opened = NoGraph
  /\ LET s == Touched(schema, Class, Row.key) IN
     schema' = IF Row.attr = NoAttr \/ Row.attr \in Known(s, Class) \/ NoMoreAttrs THEN s
               ELSE [s EXCEPT !.cls[Class].attrs = Append(@, Row.attr)]
  /\ IF NoMoreAttrs THEN Throws /\ UNCHANGED <<disk, opened, mode, maps, slots, handles, groups, trans>>
     ELSE IF Row.attr = NoAttr /\ Row.key \in IntKey
     THEN Done(Reported(TRUE)) /\ UNCHANGED <<disk, opened, mode, maps, slots, handles, groups, trans>>
     ELSE Done("fail") /\ HandleOfNone(Class)
  /\ UNCHANGED <<reply, accepted>>

Upset ==
  /\ Calling("write")
  /\ IF ~known THEN Done("fail") /\ UNCHANGED <<store, trans, accepted>>
     ELSE IF Class \notin DOMAIN schema.cls THEN Undefined /\ UNCHANGED <<store, trans, accepted>>
     ELSE IF Mismatch THEN Done("fail") /\ UNCHANGED <<store, trans, accepted>>
     ELSE WriteRow \/ WriteNowhere
  /\ UNCHANGED <<known, envs, onDisk, relations, kept, misused, replaced>> /\ Quiet

-----------------------------------------------------------------------------
(* The handle *)

OpenHandle ==
  /\ handle = "none" /\ handle' = "idle" /\ UNCHANGED <<text, job, code>>
  /\ \/ SameStore
     \/ \E g \in Graph : OpensStore(g, "read_write")
  /\ UNCHANGED <<bound, past>>

Exec ==
  /\ handle = "idle" /\ texts < MaxTexts
  /\ handle' = "busy" /\ text' \in Texts /\ code' = "ok" /\ texts' = texts + 1
  /\ ran' = None /\ cut' = FALSE
  /\ SameStore /\ UNCHANGED <<job, misused, replaced, bound>>

Return ==
  /\ handle = "busy" /\ text = <<>> /\ job = <<>> /\ handle' = "idle"
  /\ SameStore /\ UNCHANGED <<text, job, code, past, bound>>

(* The object goes with its schema, its handles and its transaction.       *)
Forgets ==
  /\ handle' = "none" /\ text' = <<>> /\ job' = <<>> /\ code' = "ok"
  /\ trans' = "ok" /\ known' = FALSE /\ envs' = 0 /\ relations' = {}
  /\ ran' = None /\ cut' = FALSE /\ misused' = FALSE /\ replaced' = FALSE
  /\ UNCHANGED <<texts, bound>>
ClosedObject ==
  /\ opened = NoGraph /\ Remembers(FALSE)
  /\ UNCHANGED <<disk, opened, mode, maps, slots, reply, onDisk, rows>>

CloseHandle == handle = "idle" /\ (ClosesStore(FALSE) \/ ClosedObject) /\ Forgets

ProcessEnds ==
  /\ handle # "none"
  /\ \/ Crash /\ accepted' = {} /\ UNCHANGED <<onDisk, kept>>
     \/ ClosedObject
  /\ Forgets

EngineNext ==
  \/ OpenHandle \/ Exec \/ Statement \/ Return \/ CloseHandle \/ ProcessEnds
  \/ CloseOther \/ OpenNamed \/ OpenUnreadable \/ OpenOnNull \/ AddGroup \/ AddGroupIndex
  \/ DropCloses \/ DropRemoves \/ DumpGroups \/ DumpRows \/ Upset

EngineSpec == EngineInit /\ [][EngineNext]_evars

-----------------------------------------------------------------------------
(* A row that a call reported stored, the last of its text, is in the graph *)
(* that is open, and in its file once that was committed, whatever graphs   *)
(* were created, dropped or left by a crash since (GQLiteImpl.cpp:37-69,    *)
(* UtilPlan.cpp:95-127).  It is one of the first graph an object opens: the *)
(* handles of a second one are not its own.                                 *)
AcceptedRowsStay ==
  /\ opened # NoGraph => \A r \in accepted : r.at \in DOMAIN EntriesOf(maps) /\ EntriesOf(maps)[r.at] = r.value
  /\ \A g \in Graph : \A r \in kept[g] :
       r.at \in DOMAIN EntriesOf(disk[g].maps) /\ EntriesOf(disk[g].maps)[r.at] = r.value

(* After a text that ends with a creation the graph is open with its groups *)
(* and indexes, and with the relations of its edge groups unless its file   *)
(* brought another schema.  The creation is lost, and the code a success,   *)
(* only if a statement before it met a closed store, or the unset mode of   *)
(* the option was read_only (UtilPlan.cpp:50-111, StorageEngine.cpp:132).   *)
CreationsOpen ==
  handle = "idle" /\ ran.op = "create" =>
    IF cut THEN code = "ok" /\ (misused \/ mode = "read_only")
    ELSE /\ opened = ran.graph
         /\ \A i \in DOMAIN ran.groups : ran.groups[i] \in DOMAIN schema.cls
         /\ \A i \in DOMAIN ran.indexes : ran.indexes[i] \in DOMAIN schema.idx
         /\ replaced \/ ran.edges \subseteq relations
===============================================================================
