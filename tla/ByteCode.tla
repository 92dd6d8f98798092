-------------------------------- MODULE ByteCode --------------------------------
(***************************************************************************)
(* From a lambda to its chunk: the visitors of ByteCodeVisitor.cpp and     *)
(* VariantVisitor.cpp over the syntax tree of gql.y, Compiler.cpp, and the *)
(* end GVirtualEngine::PlanVisitor gives a lambda.  A lambda is the        *)
(* sequence of its statements, a block one that is opened and closed:      *)
(*   [st |-> "expr", e]  [st |-> "let", name, e]  [st |-> "decl", name]    *)
(*   [st |-> "assign", name, e]  [st |-> "return", e]                      *)
(*   [st |-> "open"]  [st |-> "close"]                                     *)
(* An expression is a literal, a binary expression, a call or a lambda;    *)
(* the arguments of a call are literals or variables.  What is compiled    *)
(* for a lambda inside another is thrown away, so its body is left out.    *)
(***************************************************************************)
EXTENDS Integers, Sequences, SequencesExt

CONSTANTS
  Trees,  (* the expressions of the lambdas, with all their parts          *)
  Depth,  (* the depth of each of them                                     *)
  Bytes   (* the values of a byte, 256                                     *)

LiteralKinds == {"int", "long", "uint64", "double", "str"}
IsLeaf(e) == (e.ex = "lit" /\ e.v.kind \in LiteralKinds) \/ e.ex = "var"
IsTree(e) ==
  \/ IsLeaf(e) \/ e.ex = "lambda"
  \/ e.ex = "bin" /\ e.op \in {"+", "-", "*", "/"}
     /\ {e.l, e.r} \subseteq Trees /\ Depth[e.l] < Depth[e] /\ Depth[e.r] < Depth[e]
  \/ e.ex = "call" /\ e.args \in Seq(ToSet(e.args)) /\ \A a \in ToSet(e.args) : IsLeaf(a)

(* Trees are finite: a part is less deep than the whole.                   *)
ASSUME TreeAssumption == Depth \in [Trees -> Nat] /\ \A e \in Trees : IsTree(e)
ASSUME ByteAssumption == Bytes \in Nat \ {0, 1, 2}

Natives == {"clock", "console.info"}

-----------------------------------------------------------------------------
(* What the visitors have the compiler do, in the order of their visit.    *)
Operator(op) ==
  CASE op = "+" -> "ADD" [] op = "-" -> "SUBTRACT" [] op = "*" -> "MULTIPLY" [] op = "/" -> "DIVIDE"

Operation(e) == [do |-> "emit", op |-> Operator(e.op), n |-> 0]
AsDouble(v) == IF v.kind = "str" THEN v ELSE [kind |-> "double", val |-> v.val]
Leaf(e) == IF e.ex = "lit" THEN [do |-> "value", v |-> e.v] ELSE [do |-> "get", name |-> e.name]

(* GVariantVisitor: values.  An integer keeps the first type it fits, int, *)
(* long or uint64.  A call or a lambda in a value leaves nothing.          *)
Variant[e \in Trees] ==
  IF e.ex = "bin" THEN Variant[e.l] \o Variant[e.r] \o <<Operation(e)>>
  ELSE IF e.ex \in {"lit", "var"} THEN <<Leaf(e)>> ELSE <<>>

(* GByteCodeVisitor: to it a variable is a declaration and every number a  *)
(* double (GetLiteral), but for the arguments of a call.                   *)
Single(e) ==
  CASE e.ex = "lit" -> <<[do |-> "value", v |-> AsDouble(e.v)]>>
    [] e.ex = "var" -> <<[do |-> "declare", name |-> e.name]>>
    [] e.ex = "call" -> <<[do |-> "callee", fn |-> e.fn, n |-> Len(e.args)]>>
                        \o [i \in DOMAIN e.args |-> Leaf(e.args[i])]
                        \o <<[do |-> "emit", op |-> "CALL", n |-> Len(e.args)]>>
    [] e.ex = "lambda" -> <<>>
Expression[e \in Trees] ==
  IF e.ex = "bin" THEN Expression[e.l] \o Expression[e.r] \o <<Operation(e)>> ELSE Single(e)

(* The left side of an assignment is a literal of its own: its name is     *)
(* pushed like a value, under the value that is assigned.                  *)
Statement(s) ==
  CASE s.st = "expr" -> Expression[s.e]
    [] s.st = "decl" -> <<[do |-> "declare", name |-> s.name]>>
    [] s.st = "let" -> <<[do |-> "declare", name |-> s.name]>> \o Variant[s.e]
    [] s.st = "assign" -> <<[do |-> "value", v |-> [kind |-> "str", val |-> s.name]]>>
                          \o Variant[s.e] \o <<[do |-> "set", name |-> s.name]>>
    [] s.st = "return" -> Expression[s.e] \o <<[do |-> "return"]>>
    [] s.st \in {"open", "close"} -> <<[do |-> s.st]>>

-----------------------------------------------------------------------------
(* Compiler: the chunk, the declared locals behind the reserved one, the   *)
(* depth of the scope; a compile error is kept in err, a visited return in *)
(* ret (_return of the visitor).                                           *)
NewCompiler ==
  [code |-> <<>>, values |-> <<>>, locals |-> <<>>, depth |-> 0, err |-> FALSE, ret |-> FALSE]

(* An argument is a byte: what does not fit is cut off.                    *)
Emit(c, op, arg) == [c EXCEPT !.code = Append(@, [op |-> op, arg |-> arg % Bytes])]
EmitConstant(c, v) == Emit([c EXCEPT !.values = Append(@, v)], "CONSTANT", Len(c.values))

(* Faulty variant: the first local with the name.                          *)
ResolveFirst(c, name) ==
  LET slots == {i \in DOMAIN c.locals : c.locals[i].name = name} IN
  IF slots = {} THEN -1 ELSE Min(slots)

(* resolveLocal: the last one declared with the name; locals start at slot *)
(* 1.  A name that is no local is emitted with the index -1, byte 255.     *)
Resolve(c, name) ==
  LET slots == {i \in DOMAIN c.locals : c.locals[i].name = name} IN
  IF slots = {} THEN -1 ELSE Max(slots)
Named(c, name, local, global) ==
  LET slot == Resolve(c, name) IN Emit(c, IF slot = -1 THEN global ELSE local, slot)

(* declLocal: a second declaration in one scope throws, and so does one    *)
(* local too many.                                                         *)
DeclLocal(c, name) ==
  LET new == [name |-> name, depth |-> c.depth] IN
  IF new \in ToSet(c.locals) \/ Len(c.locals) + 1 = Bytes - 1
  THEN [c EXCEPT !.err = TRUE] ELSE [c EXCEPT !.locals = Append(@, new)]

(* A native that the machine knows, or a function whose chunk is what has  *)
(* been compiled so far.                                                   *)
Called(c, fn, n) ==
  IF n >= Bytes - 1 THEN [c EXCEPT !.err = TRUE]
  ELSE EmitConstant(c, IF fn \in Natives THEN [kind |-> "native", val |-> fn]
         ELSE [kind |-> "fn", val |-> [arity |-> n, code |-> c.code, values |-> c.values]])

(* The end of a block: one OP_POP for each local of its scope.             *)
CloseScope(c) ==
  LET keep == Max({0} \cup {i \in DOMAIN c.locals : c.locals[i].depth < c.depth}) IN
  [c EXCEPT !.locals = SubSeq(@, 1, keep), !.depth = @ - 1,
            !.code = @ \o [i \in 1 .. Len(c.locals) - keep |-> [op |-> "POP", arg |-> 0]]]

(* One step of a visitor; an exception ends the visit.                     *)
Do(c, d) ==
  IF c.err THEN c
  ELSE CASE d.do = "value" -> EmitConstant(c, d.v)
         [] d.do = "get" -> Named(c, d.name, "GET_LOCAL", "GET_GLOBAL")
         [] d.do = "set" -> Named(c, d.name, "SET_LOCAL", "SET_GLOBAL")
         [] d.do = "emit" -> Emit(c, d.op, d.n)
         [] d.do = "callee" -> Called(c, d.fn, d.n)
         [] d.do = "declare" -> DeclLocal(c, d.name)
         [] d.do = "open" -> [c EXCEPT !.depth = @ + 1]
         [] d.do = "close" -> CloseScope(c)
         [] d.do = "return" -> [Emit(c, "RETURN", 0) EXCEPT !.ret = TRUE]

Visits(body) ==
  <<[do |-> "open"]>> \o FlattenSeq([i \in DOMAIN body |-> Statement(body[i])]) \o <<[do |-> "close"]>>
Compiled(visits) ==
  LET after[k \in 0 .. Len(visits)] ==
        IF k = 0 THEN NewCompiler ELSE Do(after[k - 1], visits[k])
  IN after

(* PlanVisitor::apply of a lambda: a return at the end if none was seen.   *)
Lambda(body) ==
  LET c == Compiled(Visits(body))[Len(Visits(body))]
      d == IF c.ret THEN c ELSE Emit(c, "RETURN", 0)
  IN [err |-> d.err, chunk |-> [arity |-> 0, code |-> d.code, values |-> d.values]]
=============================================================================
