# A verification project for GQLite

GQLite is an embedded graph database: a program links the library, opens a
graph file and sends it statements in a small query language. This directory
holds TLA+ modules for the parts of it whose correctness depends on long
histories of calls, on the order of steps, or on what a crash leaves behind;
TLC configurations that check them on small instances; and proofs for TLAPS.
Every definition is translated from the code under `src/`; `PROJECT.json` names
the lines each one stands for, and lists the hazards the properties are about.

## 1. The system

| part | code | state it keeps | operations | what makes it correct |
|---|---|---|---|---|
| edge store | `StorageEngine.cpp` 729-841, `EntityEdge.h` | the first edge of every node, a record of four links per edge, the change flag of edge objects | `upsetEdge`, `setProperties` | the lists of a node hold edges of this node only; no record is stored that a reader would split inside an id; an assert fails for a known reason only |
| edge queries | `StorageEngine.cpp` 92-121, 843-958 | none | `getVertexInbound`, `-Outbound`, `-Neighbors` | they end, and answer the stored edges of the node, each once |
| storage engine | `StorageEngine.cpp` | the libmdbx environment and transaction, cached handles, the schema | `open`, `close`, `addMap`, `addIndex`, `write`, `read`, `del`, cursors | a handle reaches the map of its name, a closed session is on disk as a whole, a lost one not at all |
| scheduler | `DefaultSchedule.cpp`, `Coroutine.cpp` | the map of coroutines, the next id, the current coroutine | `addCoroutine`, `async`, `run`, `yield`, `resume` | none is lost, one executes at a time, turns are fair, all end |
| network visit | `VirtualNetwork.h` 75-91, `walk/` | the flag that the data is complete; the queue, the visited nodes and the path of a walk | `visit`, the A* and the breadth-first walk | a walk gives up only on all data, finds a shortest path when there is one, and ends |
| statements | `UpsetPlan`, `RemovePlan`, `ScanPlan`, `QueryPlan` | none of their own; the maps, the schema and the index entries | upset, conditional upset, remove, query | keys of one kind per class, index entries complete, success means stored |
| virtual network, nearest neighbours | `VirtualNetwork.cpp`, `HNSW.cpp` | an in-memory graph in layers, a cache of node ids, edge ids | `add`, `query`, `save` | an edge is known at both its ends; neighbour lists stay within their bound; what is saved is what a later session loads |
| query scan | `ScanPlan.cpp`, `WalkVisitor.cpp` | lists of predicates and of attribute names, the row | where clauses, walks, the loop over the rows | a row is reported, once, if and only if it meets the clause |
| engine and plans | `gqlite.cpp`, `GQLiteImpl.cpp`, `VirtualEngine.cpp`, `UtilPlan.cpp` | the error code, the list of plans, the open store, the schema | `gqlite_open`, `gqlite_exec`, `gqlite_close`; create, drop, dump | what is reported a success happened, and stays |
| virtual machine | `base/gvm` | chunks, frames, a stack, globals | compile, interpret | a lambda means what it says, whatever ran before it; the stack and the frames stay within their bounds |
| grammar and tree | `gql.l`, `gql.y`, `base/lang` | the tree | visitors | every item of a list is visited |
| edge ids, text | `gutil.cpp` | none | `make_edge_id`, `to_string`, `to_edge_id`, `split` | decoding gives back what was encoded |
| algorithms | `operand/` | none | PageRank, Hungarian, decision tree | not reached by a statement |

How they interact. `gqlite_exec` parses a text, a visitor makes a list of plans,
and the plans are executed in order on the one thread of the caller. Plans call
the storage engine, which holds one libmdbx transaction per thread from `open` to
`close`. The edge store and its queries are functions on the same engine. Visits
of a network and asynchronous work run as coroutines: `addCoroutine` puts an
object into the scheduler's map, and `run` resumes one after the other until the
map is empty; nothing preempts a coroutine, so two of them interleave at
`yield` only.

The behaviours that are hard: the lists of the edge store are rewired by every
upset according to what was first before and in which role; handles are cached
across sessions; a session that ends early loses everything, and so does one whose
commit fails: `close` prints the error and closes the engine all the same; coroutines add coroutines while the map is walked; loader and
walker of a visit share a flag; statements of different classes meet in the index
entries and in the modes maps are created with; a lambda that fails leaves a frame
in the machine that the next one finds, and whose code is deleted with its query; an exception ends a text and leaves the
code of a success; predicates and the attributes they are about are kept in two
lists and meet by counting.

## 2. Modules

| module | models | state and actions |
|---|---|---|
| `EdgeList` | the edge store | `head`, `rec`, `obj`, `aborted`; `Create`, `SetProperties`, `Upset` (all of `upsetEdge`, its asserts included: a failed one sets `aborted`). A record is what a reader gets of it, the pieces between the commas; `early` remembers that an edge was upset which its object did not call new and which was not stored |
| `EdgeQueries` | the three queries | walks over the links as recursive functions, with the code's own end conditions |
| `EdgeRing` | the edge store and its history | adds `order`, which edge was attached when, `settled`, whether one was upset again, and `renewed`, whether a stored edge was given a second object; `RingShape` says what the links form |
| `AdjacencyRing` | what the lists promise | one variable, one action: a new edge enters after the first |
| `EdgeAnswers` | queries over `EdgeRing` | no state; the query properties and the refinement mapping, step by step: a step that leaves lists of one role is a step of `AdjacencyRing` |
| `Scheduler` | scheduler and coroutines | `coroutines`, `status`, `ident`, `maxID`, `current`, `cores`, the iterator of `run`, who executes; one action per step of `run`, `resume`, `yield`, the entry function, `async`, `init` |
| `CountedBodies` | coroutines that yield some times and add others | extends `Scheduler` |
| `NetworkVisit` | `GVirtualNetwork::visit` | extends `Scheduler` with the bodies of loader and walker |
| `NetworkWalk` | A* and breadth-first walks of a `VirtualNetwork` inside a visit | `net`, `queue`, `visited`, `order`, `path` of each visit; `LoadBatch`, `Stand`, one action per turn of the loop of `walk` |
| `StorageEngine` | the storage engine on libmdbx | `disk`, the transaction's `maps`, `slots` of the environment, `handles`, `schema`; one action per call, `Crash` and `CloseFails` |
| `GraphStore` | what a session promises | a committed and a working copy of the entries; a crash drops the working copy |
| `Statements` | the plans | `rows`, `edges`, `posts` (index entries), `keyType`, `mode` (how each map was created), `cut`; one action per statement |
| `VirtualNetwork` | the in-memory graph | no variables: a graph is a value, `addNode`, `addEdge`, `deleteEdge` and `neighbors` are operators on it |
| `Hnsw` | the nearest-neighbour index | `vectors` and `layers` in the store; `status`, `cache`, `net`, `ids`, `updated` of the object; `job`, the call that executes; one action per loaded link, per new link, per layer, so that an exception or an assert can end a call anywhere; `Save`, `Open`, `Close` |
| `GVM` | the virtual machine | `stack`, `top`, `frames`, `frameSize`, `cur`, `globals`; one action per instruction, ends and failures included. A frame has an `owner`: the plan of the query under way, nobody (a function inside a lambda is never deleted), or a plan that is freed |
| `ByteCode` | compiler and visitors | no state: from the tree of a lambda to its chunk. A lambda is the sequence of its statements, a block one that is opened and closed; a statement is turned to what its visit has the compiler do, and `Do` is one of these, as an exception may end the visit at any of them. `Trees` are the expressions with all their parts and `Depth` their depths, so that what a visitor makes of them is a recursive function |
| `Conditions` | where clauses | no state: `PatternVisitor` as a fold over what it meets, `predictVertex` |
| `EdgeIds` | edge ids and the walks compared with them | no state: `MakeEdgeId`, `GetFrom`, `GetTo`, the pattern of a walk, `predictEdge` |
| `Scan` | queries of a session | `query`, `clause`, `row`, `answers`, `lastKey` over the state of `GVM`; a lambda runs instruction by instruction before each vertex is judged |
| `ScanMeaning` | what clauses and walks mean | no state: what a condition and a walk ask of a row, without the lists and ids the code makes of them |
| `LambdaMeaning` | what a lambda means | no state: an environment of nested scopes in place of slots, `Runs` in place of the chunk; `Tidy` and the property that the machine does what a tidy lambda means |
| `Engine` | texts on a handle | `handle`, `text`, `job` (the calls the statement has left), `code`, `trans`, `files`, `relations` over the state of `StorageEngine`; one action per call |
| `*Proofs` | the theorems | extend the module they are about |
| `MC*` | instances for TLC | graphs, visits, edges, lambdas, texts, symmetry |

`EdgeRing` composes the edge store with its use, `EdgeAnswers` composes that with
the queries, `CountedBodies` and `NetworkVisit` compose the scheduler with two
kinds of bodies, `NetworkWalk` composes visits with networks and the walks over
them, `Hnsw` composes a network with a store, `Scan` composes the machine with
clauses and edge ids, and `Engine` composes texts with the storage engine.
`AdjacencyRing` and `GraphStore` are abstract specifications; `EdgeAnswers` and
`StorageEngine` instantiate them with a mapping and are checked to implement them.

In `EdgeList` an id is two bytes of header and the eight bytes of each end, as they
are in memory, and stands for the pair of its ends. `upsetEdge` joins the four ids of
a record with `,` (`StorageEngine.cpp` 796 and 827) and every reader splits it at `,`
again, so an end with a byte 0x2C, such as 44, 300 or 11264, has its ids cut into
pieces, of which `to_edge_id` asserts the length (`gutil.cpp` 244). `Commas` is the
number of these bytes in an end, `Record` the join and the split, `Readable` what
`debugInfo` reads back after each of the two updates. Asserts are taken to be enabled,
as in the Debug build of `.github/workflows/cmake.yml`: a failed one ends the process, and libmdbx drops what
its transaction wrote.

In `GVM` a number is an int, a long, a uint64 or a double, and an operation is defined
for the pairs of kinds that `Value.cpp` has a handler for (`Sums`, `Common`): no product
of longs, an int plus a long but not a long plus an int; for the others the visit
throws. Two numbers make a double, so division is real. What number an operation makes
is a constant, `Arith`, since nothing but the test of a divisor depends on it; the
overflow of two ints, which C++ leaves undefined, is part of it. A literal keeps its
kind in what a `let` or an assignment stores and in the arguments of a call, and is a
double in what is returned or evaluated for nothing. At the end of a query `CleanPlan`
deletes its lambda, as `cleanPlans`, `~GPlan` and `~Compiler` do; a return into a frame
that a failed run of an earlier query has left reads that memory (`GVM.cpp` 240), and
the model stops there as undefined (`Dangling`). The plan of a query that an exception
ends is lost and never deleted.

What libmdbx does is modelled by what the code relies on: slots are numbered in
the order in which maps are opened, a map created in ordinal mode takes only keys
of the length of an integer, a commit is atomic. In `Statements` and
`StorageEngine` values and keys are opaque; text keys of exactly four or eight
bytes, which an ordinal map would take, are left out. `Engine` leaves out that
`substr` throws for the index of another class whose name is shorter than the class
that is cut off it; `Statements` has it. In `EdgeIds` texts that `strtoull` reads as numbers though they begin with a space
or a sign, and labels spelled like an arrow, are left out.

In `Hnsw` a vector is its node and a metric is a constant. The layer of a new
node, which the code draws at random, is any layer. `queryLayer` is a fold over
its loop with the maps the code keeps, distances as their keys: of two candidates
equally far one is forgotten. Its list of elements is a set: inside the templates
of `gutil.h` the comparisons declared in `HNSW.cpp` are not found, so that the
list is in the order of the ids and nothing is erased from it.

## 3. Runs

| run | question | instance and why it is enough |
|---|---|---|
| `edge_ring` | for which reasons does an assert of `upsetEdge` fail, is a record ever stored that is read differently, does a list leave its node? Are the lists rings, do the queries end and answer soundly, do the lists implement `AdjacencyRing`? | an application stores one of two graphs: four edges at one node, one of them a loop, where the shape changes at the fourth edge and every order of attachment and update occurs, and one more from node 300, whose id is cut, which ends the process wherever it is stored; or three sources, three destinations and five edges, with lists of length three on both sides. With two objects of the first graph the application does everything in every order, with three it makes second objects for stored edges |
| `edge_comma` (violation) | has every id that is read from a record its length? | the first graph; one upset of the edge from 300 to 1 is enough |
| `neighbors_end` (violation) | does `getVertexNeighbors` end? | the graph of `test/storage.cpp`; it does not end at a node that is the destination of a later edge of another node |
| `scheduler` | is a coroutine lost, run twice, starved? | three objects, ids modulo 3 instead of 256, so ids wrap and run out; six additions, one core |
| `network_visit` | does a visit give up too early, does it end, is the path a shortest one, does a walk miss what is there? | all networks of four nodes on a line whose pairs have no edge, one as long as the distance, and a longer or a one-way one, for both kinds of walk; and two concurrent visits with loaders of up to two batches. `IdMod` is 4, so that ids of coroutines wrap and a walker may have its turn before its loader; `OrderMod` is 6 for 65536, so that the breadth-first rank overflows |
| `storage_engine` | handles, attribute numbers, implementation of `GraphStore` | one graph, one class, one index, two sessions of two calls with crashes and failed commits between; three attributes, two numbers where the code has 256. An environment opens one map (`MaxMaps`), so that the second name meets the limit; what two maps do to each other is in `storage_other_map`, `engine` and `SessionsRefine` |
| `storage_other_map` (violation) | does a read answer the entry it names? | two classes, an engine object that is closed and opened again |
| `statements` | keys of one kind, complete index entries, success, edges that go | two classes, an index, three keys of two kinds, three statements of up to two rows; `cut` takes every meaning a foreign index name can have |
| `statements_assert` (violation) | can a statement fail an assertion? | two upsets of one key and a query |
| `hnsw` | is the network symmetric and bounded, is what was saved what is loaded, what do exceptions leave behind? | four vectors, some equally far apart, in two layers; `M` is 3 where the code has 16, so that lists are full after two links and clipping, double clipping and lost nodes all occur; any number of sessions |
| `scan` | does a lambda mean what it says, is a clause met, is a walk matched, what do failed runs leave behind, does a scan end? | lambdas of up to four statements in two scopes, compiled by `ByteCode`, with numbers that are fractions: every operation on numbers of every two kinds, assigned and returned, and the quotient of a quotient; clauses of up to two conditions and alternatives; walks against edges whose ends need more than their length field. `MaxFrame` is 4 for 64: three rows of a lambda that fails fill all but one, so that frames run out and the lambda of a second query returns into those of the first; `MaxStack` is 36 for 4096, more than the longest chunk, as 4096 is more than the 1024 bytes of a chunk, `Bytes` 12 for 256, `FromLens` 4 for 16, `Lens` 8 for 256, `IntSize` 2 for 8; two queries, the second of which meets the machine the first has left |
| `engine` | what does a success mean for the rows that were written and the graph that was created? | four texts out of fourteen on one handle or on several, two graphs, two classes, an index, attribute numbers up to one for 256; the process may end between any two calls |

Bounds. `MaxYields`, `MaxAdds`, `MaxLoads`, `MaxCalls`, `MaxSessions`, `MaxNamed`,
`MaxQueries`, `MaxTexts` bound counters that the code leaves open and are named in
the modules. `IdMod`, `MaxAttrs`, `MaxMaps`, `MaxCores`, `MaxFrame`, `MaxStack`, `Bytes`, `FromLens`,
`Lens`, `IntSize` and `OrderMod` stand for the code's own limits (256 ids, 256
attributes, the maps an environment can open, a list that only grows, 64 frames, 4096 cells, the values of a byte, four and eight bits,
eight bytes, sixteen bits). In `network_visit` the address that `new` returns is
chosen: nothing in a visit depends on it. Three statements are enough for the
properties of `run statements`: each is violated, when the code is changed, by a
statement that writes, one that changes what was written, and one that looks.
`SaveAgain` is off in `hnsw`: every caller saves an object once. With it on, a
second save keeps the record of a node that has lost its links, and
`LoadsWhatWasSaved` and `NeighborsBounded` fail (a hazard).

No run checks deadlock: the system may stop in each of them, with a failed assert of
the edge store, with every coroutine gone, or with the last call of a bound.

What holds, in words. The lists of the edge store never leave their node if
properties are set after the first upset. An assert fails only for an edge with the
byte 0x2C in an end or after properties were set too early, and does so before a
record is stored that would be read in other pieces. The growing links form
a ring whose second edge is the newest, until an edge is upset again, too early or by
a second object, except that
from the fourth edge on a change of role skips edges; inbound queries are complete
for nodes that keep one role. The scheduler loses no coroutine, and no coroutine
has two turns while another waits. A visit gives up only after it has walked over
everything its loader brought. A session is on disk as a whole or not at all. Rows
of a class have keys of one kind, and the entries of an index name every text key
with the value. The network of an index is symmetric and its lists are bounded; an
object that loads finds the links that were saved; only the longest link of a full
end goes; queries answer stored vectors. A lambda that declares before it does
anything else and returns means what it says as long as none failed before it, and
fails exactly where an operation has no handler for its two values or divides by zero;
the frames in the machine are those that failed runs left. A text that ends
with a creation leaves the graph open with its groups and indexes, unless a statement
met a closed store before; a row reported stored stays. An A* walk finds a shortest
path although nodes wait in its queue several times, a breadth-first walk one with
the fewest edges.

What the models show besides, without a property: an upset after `setProperties` of an
edge that is not stored fails an assert where an end has no first edge
(`StorageEngine.cpp` 805), and elsewhere links an edge that has no record; a second
object for a stored edge overwrites its links, after which a query may never end; outbound queries see the first
two edges of a node; index entries of integer keys are cut to one byte; entries of
replaced rows stay; edges of a removed vertex with a text key stay, unless the
other end is an integer with a zero low byte; an edge map that a removal created
refuses edges for ever; an index queried before its first entry refuses values for
ever; a query of the index answers more nodes than it was asked for, not in the order
of their distance, and may miss the very vector it is given; a node that clipping
left without links of its own fails the assert of `addEdge` in every later session.
They are listed as hazards with the reason why no document contradicts them.

Of lambdas that are not tidy: the index of a constant is emitted as a byte (`Compiler.h`
34-38), so that from the 257th constant of a chunk on another one is pushed; `TidyLambdas`
has the number of constants as a premise. Code longer than `MAX_BYTE_CODE` is written
past the end of the vector (`Chunk.h` 41-43); the model has no such chunk.

Further, of a text and its handle: an exception ends the text and is reported as a
success when nothing failed before it. `gqlite_version` answers 1 after a drop,
though `gqlite.h:115-120` says that 0 means no database is opened; the schema of
the dropped graph stays in the object. A dump is not a text that can be executed:
it prints `{class: []}`, which `string_list` (`gql.y:453-464`) refuses, and rows as
`[key, {...}]`, which `gql.y:540-576` refuses. Of a statement with several edges only
the first is stored, where `README.md:164-171` of the repository shows two.

Of walks: the node a selector is told to start at is ignored (`stand` takes the first
of the map). A walk over a network that is not empty goes to its end in its first
turn and never sees what is loaded later; over an empty one `stand` reads the end of a
map, which happens when the loader brings nothing, or has its turn after the walker
because ids have wrapped. After 65536 pushes the breadth-first order is lost.

## 4. Fairness

Safety properties need none. `EveryCoroutineEnds` and `WalksEnd` assume weak
fairness of the loop: `run` and the bodies are straight-line code of one thread,
which goes on whenever it can, and the application calls `run` when there are
coroutines, as every caller in the repository does. Bodies end because their
yields are counted and a loader's data is finite; nothing is assumed about the
order in which `run` meets coroutines beyond the order of its map. `EveryQueryEnds`
assumes weak fairness of the steps of a scan: the loop over the rows and the machine
it calls are one thread's straight-line code, and no query has to be asked.

## 5. Proofs

| module | theorems | assumption |
|---|---|---|
| `Recursions` | none of the model: lemmas on least numbers and on functions defined by recursion over 1, 2, 3, ... or over things that have a depth | |
| `EdgeAnswersProofs` | `TypeCorrect`, `NoCutStored`, `ListsStay`, `AssertsHold`, `RingShapeHolds`, `InboundIsComplete`, `AnswersAreSound`, `ListsAreRings` | the constants' own, for ends with any number of separator bytes and calls in any order; the last three: there are finitely many edge ids |
| `NetworkWalkProofs` | `NothingIsLost`, `OnlyOneRuns`, `TurnsAreFair`, `GivingUpIsLate`, `NoPathIsMissed`, `PathsFoundAreShortest` | the constants' own; `GivingUpIsLate`: no network has two visits; `PathsFoundAreShortest`: `HeightsFit`, which `MCNetworkWalk` assumes so that TLC evaluates it |
| `StatementsProofs` | `TypeCorrect`, `KeysStayOfOneKind`, `PostingsStayComplete`, `SuccessIsComplete`, `EdgesGoAlong` | the constants' own; `PostingsComplete` is about histories without an exception, of classes whose indexes are not mistaken for another's (`clean` and `OwnIndexes`, premises of the property) |
| `HnswProofs` | `TypeCorrect`, `ListsAlwaysAgree`, `LinksDisplaceTheLongest`, `BoundedUntilLoaded`, `OnlyLostNodesAbort`, `AnswersAreStored`, `HalfDoneOnlyLoaded`, `LoadedAsSaved`, `AlwaysBounded` | the constants' own: layers from 0 up, finitely many nodes and layers, `M` at least 2, distances are numbers and null is none; `LoadedAsSaved` and `AlwaysBounded`: `~SaveAgain`, an object is saved at most once |
| `ScanProofs` | `FramesLeftByFailures`, `MachineStaysInBounds`, `EveryRowReportedOnce`, `TypeCorrect`, `ClausesFindTheirVertices`, `WalksFindTheirEdges`, `DecodingGivesBack`, `LongStartsAreCut` | chunks are typed and call chunks only (`ChunkAssumption`), the lambda of a query is a chunk; clauses are sequences of tokens the visitor meets (`QueryAssumption`); walks are of labels that are not empty, numbers in them have one digit (`WalkAssumption`); the tokens of a clause are those of its conditions, in one of three orders, and numbers of rows are integers (`WhereAssumption`); the two theorems on ids are about an end that fits its four bits, and one that does not |
| `LambdaProofs` | `TidyLambdasMean` | expressions are finite trees of literals, operators, calls and lambdas (`TreeAssumption`); a lambda is a sequence of statements whose blocks are closed after they are opened, and its script is what `ByteCode` makes of it (`SourceAssumption`); a byte has more than two values; the stack is longer than a chunk (`StackAssumption`) |
| `EngineProofs` | of the storage engine `TypeCorrect`, `NumbersStayDistinct`, `HandlesReach`, `SessionsRefine`; of the plans `CreationsAlwaysOpen`, `AcceptedRowsAlwaysStay` | `HandlesReach` and `SessionsRefine`: `~Reuse`, one engine object opens one graph; the plans: the texts are sequences of statements whose names are graphs, classes, indexes and keys (`TextAssumption`, `CreateAssumption`, `UpsetAssumption`), and the storage engine's own |

The inductive invariants and the arguments.

*Edge store and queries.* `BInv` of `EdgeAnswersProofs` is what every order of calls
keeps: only edges whose id is not cut are first edges, are stored and occur in records
(`Uncut`, `HeadType`, `RecType`), and every first edge is stored and ends at its node. An upset of a cut edge
stores nothing, because `debugInfo` reads back a record that names it (`UpsetEnds`).
`IInv` adds that links stay at their node. It holds until an edge is upset that is
neither new to its object nor stored, which writes the pieces of a link that is not
there; so the invariant of the store is `EInv`, `BInv` with `IInv` as long as not
`early`, and the reason of a failed assert. `RIInv` adds the ring in the same way, as
long as no edge was upset again or given a second object either. `RingInv` ties the links of every edge to its place in the history;
it is needed because the new record copies links of the first edge, so the shape
after a step depends on the whole shape before. A walk over the links is a recursive
function. `Recursions` proves by least counterexample that such a function exists and
is the only one, so that what it computes can be found step by step: a walk jumps from
the first edge to some place of the history and from there only to earlier ones
(`Leads`, `Trail`), so that it comes back to the first and meets no edge twice; while
no edge is upset again and the node keeps one role, it goes once round the ring.
`AInv` says what this needs of the state, updates included: where the links of a list
lead (`ListAt`, `LinksOf`), and that the history holds what is stored (`InOrder`,
`StoredOnce`). `ListsAreRings` shows of every step that it is one of `AdjacencyRing`
or leaves the rings as they are (`WalksAreRings`).

*Scheduler and walks.* `IInv` of `NetworkWalkProofs` adds to type correctness where
the iterator may stand (`IteratorOK`) and that the history of turns is consistent with
the statuses (`TurnOrder`). `GaveUpInv` adds to the property that a network whose flag says that its
data is complete is not being loaded. For the walks, `NetsInv` says that every network
is one that `addNode` and `addEdge` build, `Own` that the bodies of visits are
different coroutines, each waiting for its turn while it has work, `FirstTurn` that a
loader that has loaded nothing has not had its turn in this pass; and `SearchInv` that
a walk with paths in its queue is the one that executes, so that nothing is loaded
under it, and that every neighbour of a node it visited is visited or the end of a
path in its queue. When the queue is empty the visited nodes are closed under links,
and a route to the target would have to leave them.

That paths are shortest is proved of a search that takes the path of the least cost
and guess first, once for lengths and heights and once for edges counted one by one.
`Frontier` says that a shortest way to a visited node goes on in the queue: whatever
route is taken to a node, the first of its nodes that is not visited ends a path in
the queue that costs no more up to there (`Rising`, `NotMore`), so the path at the top
is a shortest one to its end (`TakenIsShortest`), whichever of equals it is. For A*
the guesses have to fit the lengths: `HeightsFit` says so of the plan, of networks
whose edges are listed at both ends and are told apart by their ids, and `NetsSound`
keeps it through every load. It is what A* asks of a heuristic that marks a node once;
nothing in the code checks it. For the breadth-first walk the
ranks are not the numbers of edges; `BreadthQueue` says that they order the paths in
the queue as those do, and lie within what was pushed so far, from which first in,
first out follows until `_order` wraps. `ShortInv` says this of every walk under way.

*Storage engine.* `IInv` says that every cached handle is a slot of its name and that
a closed engine caches none. `TInv` adds the types of what is on disk and of what is
read back from it, and that the numbers of attributes are distinct (`Numbered`), on
disk too, since the schema of a session is the one an earlier session left. `RInv`
adds `ViewInv`, that the slots of the environment are maps of the transaction; with it
every call is a step of `GraphStore` or a stutter of it. `SessionsRefine` is the
refinement `ImplementsGraphStore` for any number of maps.

*Statements.* `KInv` adds to the kinds of the keys that a class has rows only once its
key type is set and that no class of vertices gets the key type of edges; `PInv` adds
that the name of a class's own index is cut to its attribute (`CutOwn`), without which
an entry would be written under another attribute. One lemma, `WriteRowsPosts`, says
that writing rows together with the entries they post keeps the entries complete, and
serves every statement that writes. `TypeInv` are the types of rows and entries. Of
an upset, the set of keys that were written before the loop ended is characterised by
the least key that throws (`FirstOf`, `AllReached`): a success has none.
`Together` compares the edges that go in a step with the vertices that go (`GoneAt`).

*Nearest neighbours.* `Inv` of `HnswProofs` adds to the agreement of lists and edges
that edge ids are not used twice, that a link is never asked of a node with itself and
no node was saved as its own neighbour, and that edges without a length come from
loading. A search is treated by what contains it: a set of nodes that is closed under
neighbours and holds the entry (`Closed`, `Searches`) holds everything the search
visits and finds, through all turns of its loop and all layers; nothing else is
assumed of what it finds, so the theorems hold for any selection of neighbours.
`Recorded` says what the network, the cache and the saved records may name and what an
assert fails for, `LoadOK` what a call still has to load, and `CacheOK` that the cache
holds nodes of the network, or of the records before they are loaded. For `LoadedAsSaved`, `LoadInv` keeps
that the records of two ends agree (`Mirrored`), which holds of what a first save
writes, and that the edges without a length are the pairs whose records were loaded
(`LinksLoaded`); a clip never takes one of them, it throws. `BoundInv` carries the
bound of the lists through a save and a load, for `AlwaysBounded`: no node is joined to `M`
others by the records, since a save writes only what is linked, and a load makes one edge
of each pair that the records join.

*Scan.* For the frames, `FrameInv` keeps the sum of failed runs and calls inside runs;
for the bounds, `BoundInv` says that every frame, cell and global is typed and every
function in them a chunk, since a call takes its chunk from a cell, and the deletion
of a plan changes nothing but owners (`BoundClean`); for the rows,
`ReportInv` says that answers end where the row counter stands. The folds of the
code (`parseConditions`, the visitor of a walk) are given by the library as recursions
over sets of positions; `FoldExists` proves that such a recursion goes through the
sequence one element after the other, so that what a clause is parsed to is typed
token by token (`TypeInv`). For the walks, `QueryInv` says that the clause is what the
walk's tokens are parsed to and `AnswersAreJudged` that the answers of a finished scan
are the rows judged "yes"; the rest is what `DecodingGivesBack` says of an id, label by
label (`EdgeMeans`). For the clauses, one condition adds one predicate and, unless it
is an id, one name to the list that is current, wherever in the clause it stands
(`ConditionAdds`): its own name is the last one the visitor met, though it may have
come with the condition before. `KeptTo` carries this through the list: there is a
position of a condition for every predicate, in which no condition is left out, and
the name that is reached by counting is the name of that condition. It needs
`Aligned`, the premise of the property: a lambda in place of a value leaves a name
without a predicate. With it the verdict on a row is what the conditions say of it
(`VerdictMeans`, `AndsMean`, `OrsMean`).

*Lambdas.* That a tidy lambda does what it means relates four things: its statements,
what their visits have the compiler do, the chunk, and the machine in the middle of it.
`Recursions` gives the functions on trees their equations, by depth. Of the compiler it
is shown that a visit keeps what is compiled so far (`DoGoes`, `RunExtends`), so that the
instruction a visit emits is where the final chunk has it (`Emissions`), with an argument
that fits its byte: the locals do because one too many throws, the constants because
`Tidy` says so. `Linked` says that the locals of the compiler are the names of the
environment in the order of their slots; it holds at each statement that is reached,
through declarations, blocks and what a return leaves unvisited (`LinkedAll`), and
makes the slot that `Resolve` finds the innermost binding of the name. The machine is
then followed by its `Position`, statement by statement and step by step: the slots hold
the values the environment binds to the locals, and above them lies what the statement
has pushed so far; one lemma per kind of step brings a run to its next instruction
(`StepOf`, `PushGoes` and those after it). A plain
tree is turned to steps as a value, with literals of their kinds, or as an expression,
with doubles (`Visited`, `Turned`); either way the steps leave on the stack what
`Meaning` gives of it, or fail where it gives nothing (`PlainEvaluates`). The handlers
the machine looks up are those the meaning names, by the kinds of the two values
(`KindsOfPairs`, `ResultIs`); of `Arith` nothing is assumed. `SessionInv` carries it from lambda to lambda: while only tidy ones
ran and none failed, the machine is idle without frames when the next one begins, so that no return of
such a lambda reaches a frame that is freed.

*Engine.* `EInv` says that the job is what is left of the statement after some `k`
calls and that the first `k` have made their part (`CreateInv`); that a null
transaction has a statement to blame (`TransInv`); and that schemas have the shape
the store gives them. For the rows, `AInv` of `EngineProofs` adds that the handles of
an object are good until it opens a second environment (`HandleInv`), without which a
row could be written into another map, and that every row reported stored is in the
map of its class (`RowInv`). `TypeOK` of `Scheduler` is part of `NothingIsLost`; it and
`TypeOK` of `EdgeList` (`TypeCorrect`) are not checked by a run besides.

Only model-checked: the liveness properties (`EveryCoroutineEnds`, `WalksEnd`,
`EveryQueryEnds`), which are out of the prover's reach. Every safety and action property
a passing run checks is stated by a theorem.

## 6. Not modelled, and why

Floating-point algorithms (PageRank, Hungarian, decision tree): no statement
reaches them. The grammar: its generated parser keeps no state beyond the tree.
The range read of the storage engine: nothing calls it, and it does not advance
its cursor. In statements, indexes on numbers, dates and vectors: the entries are
written by the same calls with other keys; a statement that indexes vectors makes a
`GHNSW` and deletes it without `save`; `deleteNode`, `getEdgeID` and the detaching of nodes
of `GVirtualNetwork` are not reached by the index. Two threads: the engine keeps
a transaction per thread, but nothing in the repository starts a second one.
Machine contexts of coroutines: vendored assembly. Futures: `setCallback` is
commented out, `getFuture` is called by commented-out code only, and the `std::async`
of `addNode` is waited for at once and runs a function that does nothing. The text a
dump prints, profiles, imports and the tree dump: they change no state. A scan that is
paused, a second save of an index and a second visit of a network: nothing calls them
(`Hnsw` has the second save, under `SaveAgain`). What a visitor is
called with during a walk: no walk calls it.

## 7. What is left

The parts whose correctness depends on histories, on order or on crashes are
modelled. What could still be added, in the order of what matters most:

1. Statements over `Engine` in place of its upsets of one vertex, so that crashes
   meet index entries and edges.
2. An abstract specification of `Hnsw`, a set of vectors with a neighbour relation,
   and what a query answers against what `HNSW.h` says of it.
3. `deleteNode` and `getEdgeID` of the virtual network, should anything come to use
   them.
