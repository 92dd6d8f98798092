--------------------------------- MODULE Scan ---------------------------------
(***************************************************************************)
(* A session of queries on one open graph: GScanPlan (ScanPlan.cpp) from   *)
(* the plan that is made of a query to the last row it reports, with the   *)
(* lambda of the query run by the one virtual machine before each vertex   *)
(* is judged.  The rows stay as they are.  A scan that is paused or        *)
(* stopped is left out: nothing in src/ calls pause, and stop is not       *)
(* called while a scan runs.                                               *)
(***************************************************************************)
EXTENDS GVM, Conditions, EdgeIds

CONSTANTS
  First,     (* the queries a session may begin with                        *)
  Later,     (* the queries that may follow                                 *)
  MaxQueries,(* bound on the queries of a session                           *)
  Vertices,  (* the rows of the vertex group, in the order of its map       *)
  EdgeRows   (* the rows of the edge group                                  *)

(* Rows are stored with an id whose memory holds it.                       *)
ASSUME RowsFit == \A i \in DOMAIN EdgeRows : ~Overruns(EdgeRows[i].from, EdgeRows[i].to)

ASSUME RowAssumption == Vertices \in Seq(ToSet(Vertices)) /\ EdgeRows \in Seq(ToSet(EdgeRows))

(* A session has a query, and a clause is a list of what the visitor meets *)
IsToken(t) ==
  /\ t.tok \in {"and", "or", "id", "cmp", "near", "name"}
  /\ t.tok = "name" => t.lits \in Seq(ToSet(t.lits))
IsClause(tokens) == tokens \in Seq(ToSet(tokens)) /\ \A i \in DOMAIN tokens : IsToken(tokens[i])
ASSUME QueryAssumption ==
  /\ MaxQueries \in Nat \ {0}
  /\ \A q \in First \cup Later : q.kind # "edge" => IsClause(q.tokens)

VARIABLES
  query,     (* the query of the scan                                       *)
  clause,    (* what parseConditions made of it                             *)
  row,       (* the next row                                                *)
  phase,     (* where the scan is                                           *)
  answers,   (* the rows given to the callback, with their status           *)
  lastKey,   (* last_key of PatternVisitor, which is static                 *)
  asked      (* history: the queries so far                                 *)

scan == <<query, clause, row, phase, answers, lastKey, asked>>
vars == <<machine, scan>>

NoScript == [err |-> FALSE, chunk |-> NoChunk]

(* The lambda of a query is one of the chunks.                             *)
ASSUME ScriptAssumption ==
  \A q \in First \cup Later : q.script # NoScript => q.script.chunk \in Chunks

Script == query.script
HasScript == Script # NoScript
Rows == IF query.kind = "edge" THEN EdgeRows ELSE Vertices

Init ==
  /\ MachineInit
  /\ query = [kind |-> "vertex", tokens |-> <<>>, script |-> NoScript]
  /\ clause = NoClause("") /\ row = 1 /\ phase = "done" /\ answers = <<>> /\ lastKey = ""
  /\ asked = <<>>

(* The constructor of GScanPlan and the lambda that PlanVisitor compiles   *)
(* after it: when that throws, the plan is lost and nothing is scanned.    *)
(* More than one edge makes the query a match, which does nothing.         *)
Start(q) ==
  /\ phase \in {"done", "aborted"} /\ mode = "idle"
  /\ query' = q /\ row' = 1 /\ answers' = <<>> /\ asked' = Append(asked, q)
  /\ IF q.kind = "edge"
     THEN /\ clause' = [edges |-> WalkPattern(q.tokens)] /\ UNCHANGED lastKey
          /\ phase' = IF Len(WalkPattern(q.tokens)) > 1 THEN "done" ELSE "begin"
     ELSE LET parsed == ParseConditions(q.tokens, lastKey) IN
          /\ clause' = parsed /\ lastKey' = parsed.last
          /\ phase' = IF q.script.err THEN "aborted" ELSE "begin"
  /\ UNCHANGED machine

(* predictVertex runs the lambda of the plan first.  What interpret throws *)
(* before its run leaves the scan, and what the run returns is not used.   *)
RunScript ==
  /\ phase = "begin" /\ query.kind = "vertex" /\ HasScript /\ row <= Len(Rows)
  /\ Interpret(Script.chunk)
  /\ phase' = IF mode' = "idle" THEN "aborted" ELSE "judge"
  /\ UNCHANGED <<query, clause, row, answers, lastKey, asked>>

RunStep == phase = "judge" /\ MachineStep /\ UNCHANGED scan

(* Faulty variant: the iterator does not pass a row that is not found.     *)
ReportStuck(found) ==
  IF found = "undefined" THEN Undefined /\ UNCHANGED scan
  ELSE /\ answers' = IF found = "no" THEN answers ELSE Append(answers, [row |-> row, status |-> found])
       /\ row' = (IF found = "no" THEN row ELSE row + 1) /\ phase' = "begin"
       /\ UNCHANGED <<machine, query, clause, lastKey, asked>>

(* One turn of the loop: a row that is found, or whose comparison throws,  *)
(* goes to the callback.                                                   *)
Report(found) ==
  IF found = "undefined" THEN Undefined /\ UNCHANGED scan
  ELSE /\ answers' = IF found = "no" THEN answers ELSE Append(answers, [row |-> row, status |-> found])
       /\ row' = row + 1 /\ phase' = "begin"
       /\ UNCHANGED <<machine, query, clause, lastKey, asked>>
JudgeVertex ==
  /\ query.kind = "vertex" /\ row <= Len(Rows) /\ mode = "idle"
  /\ phase = IF HasScript THEN "judge" ELSE "begin"
  /\ \E found \in {PredictVertex(clause, Rows[row].key, Rows[row].attrs)} : Report(found)
JudgeEdge ==
  /\ query.kind = "edge" /\ row <= Len(Rows) /\ phase = "begin"
  /\ LET e == Rows[row] IN
     \E found \in {PredictEdge(MakeEdgeId(e.directed, e.from, e.to), clause.edges)} : Report(found)

(* The end of the loop and of execAST, where the plan is cleaned.  A query *)
(* that is aborted never comes to it: its plan is lost.  No function of a  *)
(* lost plan is read later: there is none, or the frames are full.         *)
EndScan ==
  /\ phase = "begin" /\ row > Len(Rows) /\ phase' = "done" /\ CleanPlan
  /\ UNCHANGED <<query, clause, row, answers, lastKey, asked>>

Next ==
  \/ asked = <<>> /\ \E q \in First : Start(q)
  \/ asked # <<>> /\ Len(asked) < MaxQueries /\ \E q \in Later : Start(q)
  \/ RunScript \/ RunStep \/ JudgeVertex \/ JudgeEdge \/ EndScan

(* One thread runs the scan and the machine to the end.                    *)
Progress == RunScript \/ RunStep \/ JudgeVertex \/ JudgeEdge \/ EndScan
Spec == Init /\ [][Next]_vars /\ WF_vars(Progress)

-----------------------------------------------------------------------------
TypeOK ==
  /\ MachineTypeOK
  /\ phase \in {"begin", "judge", "done", "aborted"} /\ row \in 1 .. Len(Rows) + 1
  /\ Len(asked) <= MaxQueries
  /\ \A i \in DOMAIN answers : answers[i].status \in {"yes", "mismatch"} /\ answers[i].row < row
  /\ mode = "running" => phase = "judge"

(* What is thought of a row.                                               *)
Judged(i) ==
  IF query.kind = "edge"
  THEN PredictEdge(MakeEdgeId(EdgeRows[i].directed, EdgeRows[i].from, EdgeRows[i].to), clause.edges)
  ELSE PredictVertex(clause, Vertices[i].key, Vertices[i].attrs)

(* The rows that are passed are reported once each, in their order and     *)
(* with their own judgement, whatever lambda ran between them; a scan that *)
(* is done has passed all of them, unless it is a match.                   *)
RowsReported ==
  /\ \A n \in DOMAIN answers :
       answers[n].row \in 1 .. row - 1 /\ Judged(answers[n].row) = answers[n].status
  /\ \A m, n \in DOMAIN answers : m < n => answers[m].row < answers[n].row
  /\ \A i \in 1 .. row - 1 : Judged(i) # "no" => \E n \in DOMAIN answers : answers[n].row = i
  /\ phase = "done" /\ asked # <<>> =>
       row > Len(Rows) \/ (query.kind = "edge" /\ Len(clause.edges) > 1)

(* Every query that is started ends, with its last row or by an exception, *)
(* unless a comparison or a run of its lambda comes to something undefined,*)
(* such as a return into the lambda of an earlier query (GVM.cpp:184-294,  *)
(* ScanPlan.cpp:77-190).                                                   *)
EveryQueryEnds == (phase \notin {"done", "aborted"}) ~> (phase \in {"done", "aborted"} \/ mode = "undefined")
=============================================================================
