------------------------------ MODULE LambdaMeaning ------------------------------
(***************************************************************************)
(* What a lambda means on its own, without the chunk the code makes of it, *)
(* and that the machine of Scan does what it means.                        *)
(***************************************************************************)
EXTENDS ScanMeaning, ByteCode

(* The value of an expression: void if its arithmetic has none.  Sums and  *)
(* products are for the numbers that are int or double, and a few others   *)
(* can be added, in one order only (Value.cpp).                            *)
Meaning(typed) ==
  LET of[e \in Trees] ==
        IF e.ex = "lit" THEN IF typed THEN e.v ELSE AsDouble(e.v)
        ELSE IF e.ex # "bin" THEN Void
        ELSE LET l == of[e.l]
                 r == of[e.r]
                 numbers == {l.kind, r.kind} \subseteq {"int", "double"}
                 mixed == \/ l.kind = "int" /\ r.kind = "long"
                          \/ l.kind \in {"long", "uint64"} /\ r.kind = "double"
             IN CASE (numbers \/ mixed) /\ e.op = "+" -> Double(Arith("ADD", l, r))
                  [] numbers /\ e.op = "-" -> Double(Arith("SUBTRACT", l, r))
                  [] numbers /\ e.op = "*" -> Double(Arith("MULTIPLY", l, r))
                  [] numbers /\ e.op = "/" /\ r.val # Zero -> Double(Arith("DIVIDE", l, r))
                  [] l.kind = "str" /\ r.kind = "str" /\ e.op = "+" -> Str(l.val \o r.val)
                  [] OTHER -> Void
  IN of

(* Integers keep their types in what is assigned; elsewhere each number is *)
(* a double.                                                               *)
ValueOf(s) == Meaning(s.st \in {"let", "assign"})[s.e]
Fails(s) == ValueOf(s).kind = "void"

(* An environment is a sequence of scopes, the innermost last; a name is   *)
(* that of the innermost scope that has it.                                *)
Bind(env, i, name, v) ==
  [env EXCEPT ![i] = [x \in DOMAIN @ \cup {name} |-> IF x = name THEN v ELSE @[x]]]
Innermost(env, name) == Max({i \in DOMAIN env : name \in DOMAIN env[i]})
ValueIn(env, e) == IF e.ex = "lit" THEN e.v ELSE env[Innermost(env, e.name)][e.name]

(* A result is the value of the first return and all that was printed      *)
(* before it.                                                              *)
Nothing == [env |-> <<<<>>>>, out |-> <<>>, value |-> Void, ended |-> FALSE, failed |-> FALSE]
RunStatement(r, s) ==
  IF r.ended \/ r.failed THEN r
  ELSE IF s.st \in {"let", "assign", "return"} /\ Fails(s) THEN [r EXCEPT !.failed = TRUE]
  ELSE CASE s.st = "open" -> [r EXCEPT !.env = Append(@, <<>>)]
         [] s.st = "close" -> [r EXCEPT !.env = SubSeq(@, 1, Len(@) - 1)]
         [] s.st = "let" -> [r EXCEPT !.env = Bind(@, Len(@), s.name, ValueOf(s))]
         [] s.st = "assign" -> [r EXCEPT !.env = Bind(@, Innermost(@, s.name), s.name, ValueOf(s))]
         [] s.st = "return" -> [r EXCEPT !.ended = TRUE, !.value = ValueOf(s)]
         [] s.st = "expr" /\ s.e.ex \in {"lit", "bin"} -> [r EXCEPT !.failed = Fails(s)]
         [] s.st = "expr" /\ s.e.ex = "call" /\ s.e.fn = "console.info" ->
              [r EXCEPT !.out = @ \o [i \in DOMAIN s.e.args |-> ValueIn(r.env, s.e.args[i])]]
         [] OTHER -> r
Runs(body) ==
  LET after[i \in 0 .. Len(body)] == IF i = 0 THEN Nothing ELSE RunStatement(after[i - 1], body[i])
  IN after
MeaningOf(body) == Runs(body)[Len(body)]

(* The names each scope has when the first i statements are passed.        *)
PassStatement(open, s) ==
  CASE s.st = "open" -> Append(open, {})
    [] s.st = "close" -> SubSeq(open, 1, Len(open) - 1)
    [] s.st = "let" -> [open EXCEPT ![Len(open)] = @ \cup {s.name}]
    [] OTHER -> open
Scopes(body) ==
  LET after[i \in 0 .. Len(body)] == IF i = 0 THEN <<{}>> ELSE PassStatement(after[i - 1], body[i])
  IN after

(* Lambdas that can be written: blocks are closed after they are opened.   *)
IsBody(body) ==
  /\ body \in Seq(ToSet(body)) /\ Len(Scopes(body)[Len(body)]) = 1
  /\ \A i \in DOMAIN body :
       LET s == body[i] IN
       /\ s.st \in {"expr", "let", "decl", "assign", "return", "open", "close"}
       /\ s.st \in {"expr", "let", "assign", "return"} => s.e \in Trees
       /\ s.st = "close" => Len(Scopes(body)[i - 1]) > 1
ASSUME SourceAssumption ==
  \A q \in First \cup Later :
    IF q.source = <<>> THEN q.script = NoScript ELSE IsBody(q.source) /\ q.script = Lambda(q.source)

(* What fits a chunk fits the stack: MAX_BYTE_CODE is less than MAX_STACK. *)
ASSUME StackAssumption == \A q \in First \cup Later : Len(q.script.chunk.code) < MaxStack

(* A lambda is tidy when it declares before it does anything else, reads   *)
(* only what it declared, declares nothing twice in one block and returns, *)
(* and when the numbers of its constants are bytes.                        *)
Plain[e \in Trees] == e.ex = "lit" \/ (e.ex = "bin" /\ Plain[e.l] /\ Plain[e.r])
Reads(s) ==
  IF s.st = "assign" THEN {s.name}
  ELSE IF s.st = "expr" /\ s.e.ex = "call"
  THEN {s.e.args[i].name : i \in {j \in DOMAIN s.e.args : s.e.args[j].ex = "var"}} ELSE {}
Tidy(q) ==
  LET body == q.source
      scopes == Scopes(body)
  IN
  /\ body[Len(body)].st = "return" /\ Len(q.script.chunk.values) <= Bytes
  /\ \A i \in DOMAIN body :
       LET s == body[i]
           open == scopes[i - 1]
       IN
       /\ s.st # "decl"
       /\ s.st \in {"let", "assign", "return"} => Plain[s.e]
       /\ s.st = "expr" => Plain[s.e] \/ s.e.ex = "lambda" \/ (s.e.ex = "call" /\ s.e.fn \in Natives)
       /\ s.st = "let" => /\ s.name \notin open[Len(open)]
                          /\ \A j \in 1 .. i - 1 : body[j].st \in {"let", "open", "close"}
       /\ Reads(s) \subseteq UNION ToSet(open)

(* As long as only tidy lambdas have run and none of them failed, a run    *)
(* prints and returns what the lambda means, and fails exactly when its    *)
(* arithmetic is undefined; nothing undefined is reached, unless comparing *)
(* the row is (ByteCodeVisitor.cpp, Compiler.cpp, GVM.cpp:152-283).        *)
Ran == {i \in DOMAIN asked : asked[i].source # <<>> /\ ~asked[i].script.err}
Fine(q) == Tidy(q) /\ ~MeaningOf(q.source).failed
TidyLambdas ==
  LET n == Len(asked)
      q == Last(asked)
  IN
  /\ \A i \in Ran \ {n} : Fine(asked[i])
  /\ n \in Ran /\ Tidy(q) /\ (row = 1 \/ Fine(q))
  => /\ mode = "undefined" => Judged(row) = "undefined"
     /\ mode # "running" /\ phase = "judge" =>
          LET r == MeaningOf(q.source) IN
          printed = r.out /\ outcome = [code |-> IF r.failed THEN "fail" ELSE "success", value |-> r.value]
=============================================================================
