------------------------------ MODULE LambdaProofs ------------------------------
(***************************************************************************)
(* What a tidy lambda means is what the machine does with its chunk: for   *)
(* every lambda whose expressions are trees, every size of a byte and any  *)
(* rows.  The compiler is followed visit by visit, beside the environment  *)
(* of the meaning; the machine is followed instruction by instruction,     *)
(* beside the visit that emitted each of them.                             *)
(***************************************************************************)
EXTENDS LambdaMeaning, ScanProofs

-------------------------------------------------------------------------------
(* What an expression means, and the steps it is turned to, level by level.*)

(* One level of the functions on trees.                                    *)
LiteralOf(typed, e) == IF typed THEN e.v ELSE AsDouble(e.v)
MeaningOnce(typed, e, f) ==
  IF e.ex = "lit" THEN IF typed THEN e.v ELSE AsDouble(e.v)
  ELSE IF e.ex # "bin" THEN Void
  ELSE LET l == f[e.l]
           r == f[e.r]
           numbers == {l.kind, r.kind} \subseteq {"int", "double"}
           mixed == \/ l.kind = "int" /\ r.kind = "long"
                    \/ l.kind \in {"long", "uint64"} /\ r.kind = "double"
       IN CASE (numbers \/ mixed) /\ e.op = "+" -> Double(Arith("ADD", l, r))
            [] numbers /\ e.op = "-" -> Double(Arith("SUBTRACT", l, r))
            [] numbers /\ e.op = "*" -> Double(Arith("MULTIPLY", l, r))
            [] numbers /\ e.op = "/" /\ r.val # Zero -> Double(Arith("DIVIDE", l, r))
            [] l.kind = "str" /\ r.kind = "str" /\ e.op = "+" -> Str(l.val \o r.val)
            [] OTHER -> Void

LEMMA TreeParts ==
  ASSUME NEW e \in Trees, e.ex = "bin"
  PROVE  /\ e.l \in Trees /\ e.r \in Trees /\ e.op \in {"+", "-", "*", "/"}
         /\ Depth[e.l] < Depth[e] /\ Depth[e.r] < Depth[e]
         /\ Depth[e] \in Nat /\ Depth[e.l] \in Nat /\ Depth[e.r] \in Nat
BY TreeAssumption DEF IsTree, IsLeaf

LEMMA MeaningDeepens ==
  ASSUME NEW typed, NEW e \in Trees, NEW f, NEW g, \A x \in Trees : Depth[x] < Depth[e] => f[x] = g[x]
  PROVE  MeaningOnce(typed, e, f) = MeaningOnce(typed, e, g)
<1>1. CASE e.ex = "bin"
  <2>1. f[e.l] = g[e.l] /\ f[e.r] = g[e.r] BY <1>1, TreeParts
  <2> QED BY <1>1, <2>1 DEF MeaningOnce
<1>2. CASE e.ex # "bin" BY <1>2 DEF MeaningOnce
<1> QED BY <1>1, <1>2

MeansTo(typed, g, n) == \A e \in Trees : Depth[e] < n => g[e] = MeaningOnce(typed, e, g)

LEMMA MeaningsAgree ==
  ASSUME NEW typed, NEW n \in Nat, NEW g, MeansTo(typed, g, n), NEW m \in Nat, NEW h, MeansTo(typed, h, m)
  PROVE  \A e \in Trees : Depth[e] < n /\ Depth[e] < m => g[e] = h[e]
<1> DEFINE Bad == {Depth[e] : e \in {x \in Trees : Depth[x] < n /\ Depth[x] < m /\ g[x] # h[x]}}
<1> SUFFICES ASSUME Bad # {} PROVE FALSE OBVIOUS
<1>0. \A x \in Trees : Depth[x] \in Nat BY TreeAssumption
<1>1. Bad \in SUBSET Nat BY <1>0
<1> HIDE DEF Bad
<1>2. PICK k \in Bad : \A y \in Bad : k <= y BY <1>1, Least
<1>3. PICK e \in Trees : Depth[e] = k /\ Depth[e] < n /\ Depth[e] < m /\ g[e] # h[e] BY <1>2 DEF Bad
<1>4. ASSUME NEW x \in Trees, Depth[x] < Depth[e] PROVE g[x] = h[x]
  <2> SUFFICES ASSUME g[x] # h[x] PROVE FALSE OBVIOUS
  <2>1. Depth[x] \in Nat /\ Depth[e] \in Nat BY <1>0
  <2>2. Depth[x] < n /\ Depth[x] < m BY <1>3, <1>4, <2>1
  <2>3. Depth[x] \in Bad BY <2>2 DEF Bad
  <2> QED BY <1>2, <1>3, <1>4, <2>1, <2>3
<1>5. MeaningOnce(typed, e, g) = MeaningOnce(typed, e, h) BY <1>4, MeaningDeepens
<1>6. g[e] = MeaningOnce(typed, e, g) /\ h[e] = MeaningOnce(typed, e, h) BY <1>3 DEF MeansTo
<1> QED BY <1>3, <1>5, <1>6

LEMMA MeaningExists == ASSUME NEW typed, NEW M \in Nat PROVE \E g : MeansTo(typed, g, M)
<1> DEFINE U == {m \in 0 .. M : \E g : MeansTo(typed, g, m)}
<1>0. \A x \in Trees : Depth[x] \in Nat BY TreeAssumption
<1>1. 0 \in U
  <2>1. MeansTo(typed, Trees, 0) BY <1>0 DEF MeansTo
  <2> QED BY <2>1
<1>2. ASSUME NEW m \in 0 .. M - 1, m \in U PROVE m + 1 \in U
  <2>1. PICK g : MeansTo(typed, g, m) BY <1>2
  <2> DEFINE h == [e \in Trees |-> IF Depth[e] < m THEN g[e] ELSE MeaningOnce(typed, e, g)]
  <2>2. ASSUME NEW e \in Trees, Depth[e] < m + 1 PROVE h[e] = MeaningOnce(typed, e, h)
    <3>1. \A x \in Trees : Depth[x] < Depth[e] => g[x] = h[x] BY <1>0, <2>2
    <3> HIDE DEF h
    <3>2. MeaningOnce(typed, e, g) = MeaningOnce(typed, e, h) BY <3>1, MeaningDeepens
    <3>3. h[e] = MeaningOnce(typed, e, g)
      <4>1. CASE Depth[e] < m BY <2>1, <4>1 DEF h, MeansTo
      <4>2. CASE ~(Depth[e] < m) BY <4>2 DEF h
      <4> QED BY <4>1, <4>2
    <3> QED BY <3>2, <3>3
  <2> HIDE DEF h
  <2>3. MeansTo(typed, h, m + 1) BY <2>2 DEF MeansTo
  <2> QED BY <2>3
<1> HIDE DEF U
<1>3. 0 .. M \subseteq U BY <1>1, <1>2, UpTo
<1> QED BY <1>3 DEF U

(* Meaning exists: it is what each tree means of the meanings of its parts.*)
LEMMA MeaningIs ==
  ASSUME NEW typed PROVE \A e \in Trees : Meaning(typed)[e] = MeaningOnce(typed, e, Meaning(typed))
<1> DEFINE c == [e \in Trees |-> CHOOSE g : MeansTo(typed, g, Depth[e] + 1)]
           f == [e \in Trees |-> c[e][e]]
<1>0. \A x \in Trees : Depth[x] \in Nat BY TreeAssumption
<1>1. ASSUME NEW e \in Trees PROVE MeansTo(typed, c[e], Depth[e] + 1)
  <2>1. Depth[e] + 1 \in Nat BY <1>0
  <2>2. \E g : MeansTo(typed, g, Depth[e] + 1) BY <2>1, MeaningExists
  <2> QED BY <2>2
<1> HIDE DEF c
<1>2. ASSUME NEW e \in Trees PROVE f[e] = MeaningOnce(typed, e, f)
  <2>1. ASSUME NEW x \in Trees, Depth[x] < Depth[e] PROVE f[x] = c[e][x]
    <3>1. Depth[x] + 1 \in Nat /\ Depth[e] + 1 \in Nat /\ Depth[x] < Depth[x] + 1 /\ Depth[x] < Depth[e] + 1
      BY <1>0, <2>1
    <3>2. MeansTo(typed, c[x], Depth[x] + 1) /\ MeansTo(typed, c[e], Depth[e] + 1) BY <1>1
    <3>3. \A y \in Trees : Depth[y] < Depth[x] + 1 /\ Depth[y] < Depth[e] + 1 => c[x][y] = c[e][y]
      BY <3>1, <3>2, MeaningsAgree
    <3>4. c[x][x] = c[e][x] BY <3>1, <3>3
    <3> QED BY <3>4
  <2>2. Depth[e] < Depth[e] + 1 BY <1>0
  <2>3. c[e][e] = MeaningOnce(typed, e, c[e]) BY <1>1, <2>2 DEF MeansTo
  <2> HIDE DEF f
  <2>4. MeaningOnce(typed, e, c[e]) = MeaningOnce(typed, e, f) BY <2>1, MeaningDeepens
  <2> QED BY <2>3, <2>4 DEF f
<1> HIDE DEF f
<1> DEFINE P(g) == g = [e \in Trees |-> MeaningOnce(typed, e, g)]
<1>3. P(f)
  <2>1. f = [e \in Trees |-> f[e]] BY DEF f
  <2> QED BY <1>2, <2>1, Zenon
<1>4. Meaning(typed) = CHOOSE g : P(g) BY DEF Meaning, MeaningOnce
<1>5. P(Meaning(typed))
  <2> HIDE DEF P
  <2> QED BY <1>3, <1>4
<1> QED BY <1>5, Zenon

PlainOnce(e, f) == e.ex = "lit" \/ (e.ex = "bin" /\ f[e.l] /\ f[e.r])

LEMMA PlainIs == \A e \in Trees : Plain[e] = PlainOnce(e, Plain) /\ Plain[e] \in BOOLEAN
<1> DEFINE F == [x \in Trees \X [Trees -> BOOLEAN] |-> PlainOnce(x[1], x[2])]
           P(g) == g = [e \in Trees |-> PlainOnce(e, g)]
<1>1. Depth \in [Trees -> Nat] BY TreeAssumption
<1>2. F \in [Trees \X [Trees -> BOOLEAN] -> BOOLEAN]
  <2>1. \A e, g : PlainOnce(e, g) \in BOOLEAN BY DEF PlainOnce
  <2> QED BY <2>1
<1>3. \A e \in Trees, g \in [Trees -> BOOLEAN] : F[<<e, g>>] = PlainOnce(e, g) OBVIOUS
<1> HIDE DEF F
<1>4. Deepens(Trees, BOOLEAN, Depth, F)
  <2> SUFFICES ASSUME NEW e \in Trees, NEW g \in [Trees -> BOOLEAN], NEW h \in [Trees -> BOOLEAN],
                      \A x \in Trees : Depth[x] < Depth[e] => g[x] = h[x]
               PROVE  F[<<e, g>>] = F[<<e, h>>]
    BY DEF Deepens
  <2>1. CASE e.ex = "bin"
    <3>1. g[e.l] = h[e.l] /\ g[e.r] = h[e.r] BY <2>1, TreeParts
    <3> QED BY <1>3, <3>1 DEF PlainOnce
  <2>2. CASE e.ex # "bin" BY <1>3, <2>2 DEF PlainOnce
  <2> QED BY <2>1, <2>2
<1>5. PICK f \in [Trees -> BOOLEAN] : \A e \in Trees : f[e] = F[<<e, f>>]
  <2>1. DeepStep(Trees, BOOLEAN, Depth, F) BY <1>1, <1>2, <1>4 DEF DeepStep
  <2>2. PICK f : DeepRun(f, Trees, BOOLEAN, F) BY <2>1, DepthRecursion
  <2> QED BY <2>2 DEF DeepRun
<1>6. P(f)
  <2>1. f = [e \in Trees |-> f[e]] OBVIOUS
  <2>2. \A e \in Trees : f[e] = PlainOnce(e, f) BY <1>3, <1>5
  <2> QED BY <2>1, <2>2, Zenon
<1>7. Plain = CHOOSE g : P(g) BY DEF Plain, PlainOnce
<1>8. P(Plain)
  <2> HIDE DEF P
  <2> QED BY <1>6, <1>7
<1>9. \A e \in Trees : Plain[e] = PlainOnce(e, Plain) BY <1>8, Zenon
<1>10. \A e, g : PlainOnce(e, g) \in BOOLEAN BY DEF PlainOnce
<1> QED BY <1>9, <1>10

(* The steps a tree is turned to.                                          *)
Does == {"value", "get", "set", "emit", "callee", "declare", "open", "close", "return"}
VariantSteps == {Leaf(e) : e \in Trees} \cup {Operation(e) : e \in Trees}
VariantOnce(e, f) ==
  IF e.ex = "bin" THEN f[e.l] \o f[e.r] \o <<Operation(e)>>
  ELSE IF e.ex \in {"lit", "var"} THEN <<Leaf(e)>> ELSE <<>>

(* What the visit of a value does: the visits of its parts, then itself.   *)
LEMMA VariantIs ==
  \A e \in Trees : Variant[e] = VariantOnce(e, Variant) /\ Variant[e] \in Seq(VariantSteps)
<1> DEFINE S == Seq(VariantSteps)
           D == [Trees -> S]
           F == [x \in Trees \X D |-> VariantOnce(x[1], x[2])]
           P(g) == g = [e \in Trees |-> VariantOnce(e, g)]
<1>1. Depth \in [Trees -> Nat] BY TreeAssumption
<1>2. \A e \in Trees, g \in D : VariantOnce(e, g) \in S
  <2> TAKE e \in Trees, g \in D
  <2>0. Leaf(e) \in VariantSteps /\ Operation(e) \in VariantSteps BY DEF VariantSteps
  <2>1. CASE e.ex \in {"lit", "var"} BY <2>0, <2>1 DEF VariantOnce
  <2>2. CASE e.ex = "bin"
    <3>1. g[e.l] \in S /\ g[e.r] \in S /\ <<Operation(e)>> \in S BY <2>0, <2>2, TreeParts
    <3>2. g[e.l] \o g[e.r] \o <<Operation(e)>> \in S BY <3>1, ConcatProperties
    <3> QED BY <2>2, <3>2 DEF VariantOnce
  <2>3. CASE e.ex \notin {"lit", "var", "bin"} BY <2>3 DEF VariantOnce
  <2> QED BY <2>1, <2>2, <2>3
<1>3. F \in [Trees \X D -> S]
  <2> HIDE DEF D, S
  <2> QED BY <1>2
<1>4. \A e \in Trees, g \in D : F[<<e, g>>] = VariantOnce(e, g)
  <2> HIDE DEF D
  <2> QED OBVIOUS
<1>5. S # {}
  <2>1. <<>> \in S OBVIOUS
  <2> QED BY <2>1
<1> HIDE DEF F, S
<1>6. Deepens(Trees, S, Depth, F)
  <2> SUFFICES ASSUME NEW e \in Trees, NEW g \in D, NEW h \in D,
                      \A x \in Trees : Depth[x] < Depth[e] => g[x] = h[x]
               PROVE  F[<<e, g>>] = F[<<e, h>>]
    BY DEF Deepens
  <2> HIDE DEF D
  <2>1. CASE e.ex = "bin"
    <3>1. g[e.l] = h[e.l] /\ g[e.r] = h[e.r] BY <2>1, TreeParts
    <3>2. VariantOnce(e, g) = VariantOnce(e, h) BY <2>1, <3>1 DEF VariantOnce
    <3> QED BY <1>4, <3>2
  <2>2. CASE e.ex # "bin"
    <3>1. VariantOnce(e, g) = VariantOnce(e, h) BY <2>2 DEF VariantOnce
    <3> QED BY <1>4, <3>1
  <2> QED BY <2>1, <2>2
<1>7. PICK f \in D : \A e \in Trees : f[e] = F[<<e, f>>]
  <2>1. DeepStep(Trees, S, Depth, F) BY <1>1, <1>3, <1>5, <1>6 DEF DeepStep
  <2>2. PICK f : DeepRun(f, Trees, S, F) BY <2>1, DepthRecursion
  <2> QED BY <2>2 DEF DeepRun
<1>8. P(f)
  <2>1. f = [e \in Trees |-> f[e]] OBVIOUS
  <2>2. \A e \in Trees : f[e] = VariantOnce(e, f)
    <3> HIDE DEF D
    <3> QED BY <1>4, <1>7
  <2> QED BY <2>1, <2>2, Zenon
<1>9. Variant = CHOOSE g : P(g) BY DEF Variant, VariantOnce
<1>10. P(Variant)
  <2> HIDE DEF P
  <2> QED BY <1>8, <1>9
<1>11. \A e \in Trees : Variant[e] = VariantOnce(e, Variant) BY <1>10, Zenon
<1> HIDE DEF P
<1> DEFINE A == {e \in Trees : Variant[e] \in S}
<1>12. ASSUME NEW e \in Trees, \A x \in Trees : Depth[x] < Depth[e] => x \in A PROVE e \in A
  <2>1. CASE e.ex = "bin"
    <3>1. Variant[e.l] \in S /\ Variant[e.r] \in S BY <1>12, <2>1, TreeParts
    <3>2. Operation(e) \in VariantSteps BY DEF VariantSteps
    <3>3. Variant[e.l] \o Variant[e.r] \o <<Operation(e)>> \in S BY <3>1, <3>2, ConcatProperties DEF S
    <3> QED BY <1>11, <2>1, <3>3 DEF VariantOnce
  <2>2. CASE e.ex # "bin"
    <3>1. Leaf(e) \in VariantSteps BY DEF VariantSteps
    <3>2. <<>> \in S /\ <<Leaf(e)>> \in S BY <3>1 DEF S
    <3> QED BY <1>11, <2>2, <3>2 DEF VariantOnce
  <2> QED BY <2>1, <2>2
<1>13. Trees \subseteq A
  <2> HIDE DEF A
  <2> QED BY <1>1, <1>12, DepthInduction
<1> QED BY <1>11, <1>13 DEF S

Calls == {e \in Trees : e.ex = "call"}
CalleeStep(e) == [do |-> "callee", fn |-> e.fn, n |-> Len(e.args)]
CallStep(e) == [do |-> "emit", op |-> "CALL", n |-> Len(e.args)]
ArgSteps(e) == [i \in DOMAIN e.args |-> Leaf(e.args[i])]
Declare(name) == [do |-> "declare", name |-> name]
ExpressionSteps ==
  VariantSteps \cup {[do |-> "value", v |-> AsDouble(e.v)] : e \in Trees} \cup {Declare(e.name) : e \in Trees} \cup {CalleeStep(e) : e \in Calls} \cup {CallStep(e) : e \in Calls}
  \cup UNION {{Leaf(e.args[i]) : i \in DOMAIN e.args} : e \in Calls}
ExpressionOnce(e, f) ==
  IF e.ex = "bin" THEN f[e.l] \o f[e.r] \o <<Operation(e)>> ELSE Single(e)

LEMMA CallParts ==
  ASSUME NEW e \in Calls
  PROVE  /\ Single(e) = <<CalleeStep(e)>> \o ArgSteps(e) \o <<CallStep(e)>>
         /\ e.args \in Seq(ToSet(e.args)) /\ Len(e.args) \in Nat /\ DOMAIN e.args = 1 .. Len(e.args)
         /\ \A i \in 1 .. Len(e.args) : IsLeaf(e.args[i])
         /\ ArgSteps(e) \in Seq(ExpressionSteps) /\ Len(ArgSteps(e)) = Len(e.args)
         /\ CalleeStep(e) \in ExpressionSteps /\ CallStep(e) \in ExpressionSteps
<1>1. e \in Trees /\ e.ex = "call" BY DEF Calls
<1>2. e.args \in Seq(ToSet(e.args)) /\ \A a \in ToSet(e.args) : IsLeaf(a)
  BY <1>1, TreeAssumption DEF IsTree, IsLeaf
<1>3. Len(e.args) \in Nat /\ DOMAIN e.args = 1 .. Len(e.args) BY <1>2
<1>4. \A i \in DOMAIN e.args : e.args[i] \in ToSet(e.args) BY DEF ToSet
<1>5. Single(e) = <<CalleeStep(e)>> \o ArgSteps(e) \o <<CallStep(e)>>
  BY <1>1 DEF Single, CalleeStep, ArgSteps, CallStep
<1>6. \A i \in DOMAIN e.args : Leaf(e.args[i]) \in ExpressionSteps BY DEF ExpressionSteps
<1>7. ArgSteps(e) \in Seq(ExpressionSteps) /\ Len(ArgSteps(e)) = Len(e.args)
  <2> HIDE DEF ExpressionSteps
  <2> QED BY <1>3, <1>6 DEF ArgSteps
<1>8. CalleeStep(e) \in ExpressionSteps /\ CallStep(e) \in ExpressionSteps BY DEF ExpressionSteps
<1> QED BY <1>2, <1>3, <1>4, <1>5, <1>7, <1>8

LEMMA SingleIsTyped == ASSUME NEW e \in Trees, e.ex # "bin" PROVE Single(e) \in Seq(ExpressionSteps)
<1>1. IsTree(e) BY TreeAssumption
<1>2. e.ex \in {"lit", "var", "lambda", "call"} BY <1>1 DEF IsTree, IsLeaf
<1>3. CASE e.ex = "lit"
  <2> DEFINE d == [do |-> "value", v |-> AsDouble(e.v)]
  <2>1. Single(e) = <<d>> /\ d \in ExpressionSteps BY <1>3 DEF Single, ExpressionSteps
  <2> HIDE DEF d
  <2> QED BY <2>1
<1>4. CASE e.ex = "var"
  <2>1. Single(e) = <<Declare(e.name)>> /\ Declare(e.name) \in ExpressionSteps
    BY <1>4 DEF Single, ExpressionSteps, Declare
  <2> QED BY <2>1
<1>5. CASE e.ex = "lambda" BY <1>5 DEF Single
<1>6. CASE e.ex = "call"
  <2>1. e \in Calls BY <1>6 DEF Calls
  <2>2. <<CalleeStep(e)>> \in Seq(ExpressionSteps) /\ <<CallStep(e)>> \in Seq(ExpressionSteps)
    <3>1. CalleeStep(e) \in ExpressionSteps /\ CallStep(e) \in ExpressionSteps BY <2>1, CallParts
    <3> QED BY <3>1
  <2>3. <<CalleeStep(e)>> \o ArgSteps(e) \in Seq(ExpressionSteps) 
    <3>1. ArgSteps(e) \in Seq(ExpressionSteps) BY <2>1, CallParts
    <3> QED BY <2>2, <3>1, ConcatProperties
  <2>4. <<CalleeStep(e)>> \o ArgSteps(e) \o <<CallStep(e)>> \in Seq(ExpressionSteps)
    BY <2>2, <2>3, ConcatProperties
  <2> QED BY <2>1, <2>4, CallParts
<1> QED BY <1>2, <1>3, <1>4, <1>5, <1>6

(* What the visit of an expression does, in the same way.                  *)
LEMMA ExpressionIs ==
  \A e \in Trees : Expression[e] = ExpressionOnce(e, Expression) /\ Expression[e] \in Seq(ExpressionSteps)
<1> DEFINE S == Seq(ExpressionSteps)
           D == [Trees -> S]
           F == [x \in Trees \X D |-> ExpressionOnce(x[1], x[2])]
           P(g) == g = [e \in Trees |-> ExpressionOnce(e, g)]
<1>1. Depth \in [Trees -> Nat] BY TreeAssumption
<1>2. \A e \in Trees, g \in D : ExpressionOnce(e, g) \in S
  <2> TAKE e \in Trees, g \in D
  <2>1. CASE e.ex = "bin"
    <3>1. Operation(e) \in ExpressionSteps BY DEF ExpressionSteps, VariantSteps
    <3>2. g[e.l] \in S /\ g[e.r] \in S /\ <<Operation(e)>> \in S BY <2>1, <3>1, TreeParts
    <3>3. g[e.l] \o g[e.r] \o <<Operation(e)>> \in S BY <3>2, ConcatProperties
    <3> QED BY <2>1, <3>3 DEF ExpressionOnce
  <2>2. CASE e.ex # "bin" BY <2>2, SingleIsTyped DEF ExpressionOnce
  <2> QED BY <2>1, <2>2
<1>3. F \in [Trees \X D -> S]
  <2> HIDE DEF D, S
  <2> QED BY <1>2
<1>4. \A e \in Trees, g \in D : F[<<e, g>>] = ExpressionOnce(e, g)
  <2> HIDE DEF D
  <2> QED OBVIOUS
<1>5. S # {}
  <2>1. <<>> \in S OBVIOUS
  <2> QED BY <2>1
<1> HIDE DEF F, S
<1>6. Deepens(Trees, S, Depth, F)
  <2> SUFFICES ASSUME NEW e \in Trees, NEW g \in D, NEW h \in D,
                      \A x \in Trees : Depth[x] < Depth[e] => g[x] = h[x]
               PROVE  F[<<e, g>>] = F[<<e, h>>]
    BY DEF Deepens
  <2> HIDE DEF D
  <2>1. CASE e.ex = "bin"
    <3>1. g[e.l] = h[e.l] /\ g[e.r] = h[e.r] BY <2>1, TreeParts
    <3>2. ExpressionOnce(e, g) = ExpressionOnce(e, h) BY <2>1, <3>1 DEF ExpressionOnce
    <3> QED BY <1>4, <3>2
  <2>2. CASE e.ex # "bin"
    <3>1. ExpressionOnce(e, g) = ExpressionOnce(e, h) BY <2>2 DEF ExpressionOnce
    <3> QED BY <1>4, <3>1
  <2> QED BY <2>1, <2>2
<1>7. PICK f \in D : \A e \in Trees : f[e] = F[<<e, f>>]
  <2>1. DeepStep(Trees, S, Depth, F) BY <1>1, <1>3, <1>5, <1>6 DEF DeepStep
  <2>2. PICK f : DeepRun(f, Trees, S, F) BY <2>1, DepthRecursion
  <2> QED BY <2>2 DEF DeepRun
<1>8. P(f)
  <2>1. f = [e \in Trees |-> f[e]] OBVIOUS
  <2>2. \A e \in Trees : f[e] = ExpressionOnce(e, f)
    <3> HIDE DEF D
    <3> QED BY <1>4, <1>7
  <2> QED BY <2>1, <2>2, Zenon
<1>9. Expression = CHOOSE g : P(g) BY DEF Expression, ExpressionOnce
<1>10. P(Expression)
  <2> HIDE DEF P
  <2> QED BY <1>8, <1>9
<1>11. \A e \in Trees : Expression[e] = ExpressionOnce(e, Expression) BY <1>10, Zenon
<1> HIDE DEF P
<1> DEFINE A == {e \in Trees : Expression[e] \in S}
<1>12. ASSUME NEW e \in Trees, \A x \in Trees : Depth[x] < Depth[e] => x \in A PROVE e \in A
  <2>1. CASE e.ex = "bin"
    <3>1. Expression[e.l] \in S /\ Expression[e.r] \in S BY <1>12, <2>1, TreeParts
    <3>2. <<Operation(e)>> \in S BY DEF S, ExpressionSteps, VariantSteps
    <3>3. Expression[e.l] \o Expression[e.r] \o <<Operation(e)>> \in S
      BY <3>1, <3>2, ConcatProperties DEF S
    <3> QED BY <1>11, <2>1, <3>3 DEF ExpressionOnce
  <2>2. CASE e.ex # "bin" BY <1>11, <2>2, SingleIsTyped DEF ExpressionOnce, S
  <2> QED BY <2>1, <2>2
<1>13. Trees \subseteq A
  <2> HIDE DEF A
  <2> QED BY <1>1, <1>12, DepthInduction
<1> QED BY <1>11, <1>13 DEF S

(* What the visit of a value or of an expression does to a plain tree.     *)
Turned(typed, e) == IF typed THEN Variant[e] ELSE Expression[e]

LEMMA PlainIsVisited ==
  ASSUME NEW typed \in BOOLEAN, NEW e \in Trees
  PROVE  /\ e.ex = "lit" => Turned(typed, e) = <<[do |-> "value", v |-> LiteralOf(typed, e)]>>
         /\ e.ex = "bin" => Turned(typed, e) = Turned(typed, e.l) \o Turned(typed, e.r) \o <<Operation(e)>>
<1>1. Expression[e] = ExpressionOnce(e, Expression) /\ Variant[e] = VariantOnce(e, Variant)
  BY ExpressionIs, VariantIs
<1>2. CASE typed
  <2>1. Turned(typed, e) = VariantOnce(e, Variant) BY <1>1, <1>2 DEF Turned
  <2>2. ASSUME e.ex = "lit" PROVE VariantOnce(e, Variant) = <<[do |-> "value", v |-> LiteralOf(typed, e)]>>
    BY <1>2, <2>2 DEF VariantOnce, Leaf, LiteralOf
  <2>3. ASSUME e.ex = "bin" PROVE VariantOnce(e, Variant) = Variant[e.l] \o Variant[e.r] \o <<Operation(e)>>
    BY <2>3 DEF VariantOnce
  <2>4. Turned(typed, e.l) = Variant[e.l] /\ Turned(typed, e.r) = Variant[e.r] BY <1>2 DEF Turned
  <2> QED BY <2>1, <2>2, <2>3, <2>4
<1>3. CASE ~typed
  <2>1. Turned(typed, e) = ExpressionOnce(e, Expression) BY <1>1, <1>3 DEF Turned
  <2>2. ASSUME e.ex = "lit" PROVE ExpressionOnce(e, Expression) = <<[do |-> "value", v |-> LiteralOf(typed, e)]>>
    BY <1>3, <2>2 DEF ExpressionOnce, Single, LiteralOf
  <2>3. ASSUME e.ex = "bin"
        PROVE  ExpressionOnce(e, Expression) = Expression[e.l] \o Expression[e.r] \o <<Operation(e)>>
    BY <2>3 DEF ExpressionOnce
  <2>4. Turned(typed, e.l) = Expression[e.l] /\ Turned(typed, e.r) = Expression[e.r] BY <1>3 DEF Turned
  <2> QED BY <2>1, <2>2, <2>3, <2>4
<1> QED BY <1>2, <1>3

(* What it does for the expression of a statement.                         *)
KeepsTypes(s) == s.st \in {"let", "assign"}
Visited(s) == Turned(KeepsTypes(s), s.e)

LEMMA VisitedIs ==
  ASSUME NEW s
  PROVE  /\ KeepsTypes(s) \in BOOLEAN /\ ValueOf(s) = Meaning(KeepsTypes(s))[s.e]
         /\ s.st \in {"let", "assign"} => Visited(s) = Variant[s.e]
         /\ s.st \in {"expr", "return"} => Visited(s) = Expression[s.e]
<1>1. KeepsTypes(s) \in BOOLEAN BY DEF KeepsTypes
<1>2. ValueOf(s) = Meaning(KeepsTypes(s))[s.e] BY DEF ValueOf, KeepsTypes
<1>3. ASSUME s.st \in {"let", "assign"} PROVE Visited(s) = Variant[s.e] BY <1>3 DEF Visited, Turned, KeepsTypes
<1>4. ASSUME s.st \in {"expr", "return"} PROVE Visited(s) = Expression[s.e]
  <2>1. s.st \notin {"let", "assign"} BY <1>4
  <2> QED BY <2>1 DEF Visited, Turned, KeepsTypes
<1> QED BY <1>1, <1>2, <1>3, <1>4

-------------------------------------------------------------------------------
(* Lists, and what each visit does to a compiler.                          *)

(* Sequences of whatever.                                                  *)
IsList(s) == \E S : s \in Seq(S)
Within(s, t) == Len(s) <= Len(t) /\ \A i \in 1 .. Len(s) : t[i] = s[i]

LEMMA ListIs ==
  ASSUME NEW s, IsList(s)
  PROVE  /\ Len(s) \in Nat /\ DOMAIN s = 1 .. Len(s) /\ Within(s, s)
         /\ \A n \in 0 .. Len(s) : /\ IsList(SubSeq(s, 1, n)) /\ Len(SubSeq(s, 1, n)) = n
                                   /\ \A i \in 1 .. n : SubSeq(s, 1, n)[i] = s[i]
<1>1. PICK S : s \in Seq(S) BY DEF IsList
<1>2. Len(s) \in Nat /\ DOMAIN s = 1 .. Len(s) BY <1>1
<1>3. Within(s, s) BY <1>2 DEF Within
<1>4. ASSUME NEW n \in 0 .. Len(s)
      PROVE  /\ IsList(SubSeq(s, 1, n)) /\ Len(SubSeq(s, 1, n)) = n
             /\ \A i \in 1 .. n : SubSeq(s, 1, n)[i] = s[i]
  <2>1. \A i \in 1 .. n : s[i] \in S BY <1>1, <1>2
  <2>2. SubSeq(s, 1, n) \in Seq(S) /\ Len(SubSeq(s, 1, n)) = n /\ \A i \in 1 .. n : SubSeq(s, 1, n)[i] = s[i]
    BY <1>1, <1>2, <2>1, SubSeqProperties
  <2> QED BY <2>2 DEF IsList
<1> QED BY <1>2, <1>3, <1>4

LEMMA SeqGrows == ASSUME NEW S, NEW s \in Seq(S), NEW x PROVE s \in Seq(S \cup {x}) /\ Append(s, x) \in Seq(S \cup {x})
<1>1. S \subseteq S \cup {x} OBVIOUS
<1>2. s \in Seq(S \cup {x}) BY <1>1, SeqMonotonic
<1> QED BY <1>2, AppendProperties

LEMMA ListAppend ==
  ASSUME NEW s, IsList(s), NEW x
  PROVE  /\ IsList(Append(s, x)) /\ Len(Append(s, x)) = Len(s) + 1 /\ Within(s, Append(s, x))
         /\ Append(s, x)[Len(s) + 1] = x
<1>1. PICK S : s \in Seq(S) BY DEF IsList
<1>2. s \in Seq(S \cup {x}) /\ Append(s, x) \in Seq(S \cup {x}) BY <1>1, SeqGrows
<1>3. /\ Len(Append(s, x)) = Len(s) + 1 /\ Append(s, x)[Len(s) + 1] = x
      /\ \A i \in 1 .. Len(s) : Append(s, x)[i] = s[i]
  BY <1>2, AppendProperties
<1>4. Len(s) \in Nat BY <1>1
<1> QED BY <1>2, <1>3, <1>4 DEF IsList, Within

LEMMA ListConcat ==
  ASSUME NEW s, IsList(s), NEW t, IsList(t)
  PROVE  /\ IsList(s \o t) /\ Len(s \o t) = Len(s) + Len(t) /\ Within(s, s \o t)
         /\ \A i \in 1 .. Len(t) : (s \o t)[Len(s) + i] = t[i]
<1>1. PICK S : s \in Seq(S) BY DEF IsList
<1>2. PICK T : t \in Seq(T) BY DEF IsList
<1>3. S \subseteq S \cup T /\ T \subseteq S \cup T OBVIOUS
<1>4. s \in Seq(S \cup T) /\ t \in Seq(S \cup T) BY <1>1, <1>2, <1>3, SeqMonotonic
<1>5. /\ s \o t \in Seq(S \cup T) /\ Len(s \o t) = Len(s) + Len(t)
      /\ \A i \in 1 .. Len(s) : (s \o t)[i] = s[i]
      /\ \A i \in 1 .. Len(t) : (s \o t)[Len(s) + i] = t[i]
  BY <1>4, ConcatProperties
<1>6. Len(s) \in Nat /\ Len(t) \in Nat BY <1>1, <1>2
<1> QED BY <1>5, <1>6 DEF IsList, Within

LEMMA WithinTrans ==
  ASSUME NEW s, IsList(s), NEW t, IsList(t), NEW r, IsList(r), Within(s, t), Within(t, r)
  PROVE  Within(s, r)
<1>1. Len(s) \in Nat /\ Len(t) \in Nat /\ Len(r) \in Nat BY ListIs
<1> QED BY <1>1 DEF Within

LEMMA GreatestOf ==
  ASSUME NEW n \in Nat, NEW s, s \subseteq 0 .. n, s # {}
  PROVE  Max(s) \in s /\ \A x \in s : x <= Max(s)
<1> DEFINE F == {n - x : x \in s}
<1>1. F \in SUBSET Nat /\ F # {}
  <2>1. \A x \in s : n - x \in Nat OBVIOUS
  <2>2. \E x \in s : n - x \in F OBVIOUS
  <2> QED BY <2>1, <2>2
<1>2. PICK y \in F : \A z \in F : y <= z BY <1>1, Least
<1>3. PICK m \in s : y = n - m BY <1>2
<1>4. \A x \in s : m >= x
  <2> TAKE x \in s
  <2>1. n - x \in F OBVIOUS
  <2> QED BY <1>2, <1>3, <2>1
<1>5. Max(s) \in s /\ \A x \in s : Max(s) >= x BY <1>4 DEF Max
<1>6. \A x \in s : x \in Nat OBVIOUS
<1> QED BY <1>5, <1>6

-------------------------------------------------------------------------------
(* What a compiler is, and what a step may do to it.                       *)

IsCompiler(c) ==
  /\ c = [code |-> c.code, values |-> c.values, locals |-> c.locals, depth |-> c.depth, err |-> c.err, ret |-> c.ret]
  /\ IsList(c.code) /\ IsList(c.values) /\ IsList(c.locals)
  /\ c.err \in BOOLEAN /\ c.ret \in BOOLEAN
Extends(c, d) == Within(c.code, d.code) /\ Within(c.values, d.values) /\ (c.err => d.err) /\ (c.ret => d.ret)

LEMMA NewIsCompiler == IsCompiler(NewCompiler)
<1>1. IsList(<<>>)
  <2>1. <<>> \in Seq({}) OBVIOUS
  <2> QED BY <2>1 DEF IsList
<1> QED BY <1>1 DEF IsCompiler, NewCompiler

Instr(op, arg) == [op |-> op, arg |-> arg % Bytes]

LEMMA Emitted ==
  ASSUME NEW c, IsCompiler(c), NEW op, NEW arg
  PROVE  LET d == Emit(c, op, arg) IN
         /\ IsCompiler(d) /\ Extends(c, d) /\ d.values = c.values /\ d.locals = c.locals /\ d.depth = c.depth
         /\ d.err = c.err /\ d.ret = c.ret
         /\ Len(d.code) = Len(c.code) + 1 /\ d.code[Len(c.code) + 1] = Instr(op, arg)
<1> DEFINE d == Emit(c, op, arg)
           i == Instr(op, arg)
<1>0. /\ IsList(c.code) /\ IsList(c.values) /\ IsList(c.locals) /\ c.err \in BOOLEAN /\ c.ret \in BOOLEAN
      /\ c = [code |-> c.code, values |-> c.values, locals |-> c.locals, depth |-> c.depth, err |-> c.err, ret |-> c.ret]
  BY DEF IsCompiler
<1>1. d = [c EXCEPT !.code = Append(c.code, i)] BY DEF Emit, Instr
<1> HIDE DEF d, i
<1>2. d = [code |-> Append(c.code, i), values |-> c.values, locals |-> c.locals, depth |-> c.depth, err |-> c.err, ret |-> c.ret]
  BY <1>0, <1>1
<1>3. /\ d.code = Append(c.code, i) /\ d.values = c.values /\ d.locals = c.locals /\ d.depth = c.depth
      /\ d.err = c.err /\ d.ret = c.ret
  BY <1>2
<1>4. IsCompiler(d) BY <1>0, <1>2, <1>3, ListAppend DEF IsCompiler
<1>5. Extends(c, d) BY <1>0, <1>3, ListAppend, ListIs DEF Extends
<1> QED BY <1>0, <1>3, <1>4, <1>5, ListAppend DEF d, i

LEMMA EmittedConstant ==
  ASSUME NEW c, IsCompiler(c), NEW v
  PROVE  LET d == EmitConstant(c, v) IN
         /\ IsCompiler(d) /\ Extends(c, d) /\ d.locals = c.locals /\ d.depth = c.depth
         /\ d.err = c.err /\ d.ret = c.ret
         /\ Len(d.code) = Len(c.code) + 1 /\ d.code[Len(c.code) + 1] = Instr("CONSTANT", Len(c.values))
         /\ Len(d.values) = Len(c.values) + 1 /\ d.values[Len(c.values) + 1] = v
<1> DEFINE b == [c EXCEPT !.values = Append(c.values, v)]
           d == EmitConstant(c, v)
<1>0. /\ IsList(c.code) /\ IsList(c.values) /\ IsList(c.locals) /\ c.err \in BOOLEAN /\ c.ret \in BOOLEAN
      /\ c = [code |-> c.code, values |-> c.values, locals |-> c.locals, depth |-> c.depth, err |-> c.err, ret |-> c.ret]
  BY DEF IsCompiler
<1>1. d = Emit(b, "CONSTANT", Len(c.values)) BY DEF EmitConstant
<1>2. b = [code |-> c.code, values |-> Append(c.values, v), locals |-> c.locals, depth |-> c.depth, err |-> c.err, ret |-> c.ret]
  BY <1>0
<1> HIDE DEF b, d
<1>3. /\ b.code = c.code /\ b.values = Append(c.values, v) /\ b.locals = c.locals /\ b.depth = c.depth
      /\ b.err = c.err /\ b.ret = c.ret
  BY <1>2
<1>4. IsCompiler(b) BY <1>0, <1>2, <1>3, ListAppend DEF IsCompiler
<1>5. /\ IsCompiler(d) /\ Extends(b, d) /\ d.values = b.values /\ d.locals = b.locals /\ d.depth = b.depth
      /\ d.err = b.err /\ d.ret = b.ret
      /\ Len(d.code) = Len(b.code) + 1 /\ d.code[Len(b.code) + 1] = Instr("CONSTANT", Len(c.values))
  BY <1>1, <1>4, Emitted
<1>6. Extends(c, d) BY <1>0, <1>3, <1>5, ListAppend DEF Extends
<1>7. Len(d.values) = Len(c.values) + 1 /\ d.values[Len(c.values) + 1] = v
  BY <1>0, <1>3, <1>5, ListAppend
<1> QED BY <1>3, <1>5, <1>6, <1>7 DEF d

(* Do as an equation for each visit.                                       *)
LEMMA DoIs ==
  ASSUME NEW c, ~c.err, NEW d
  PROVE  /\ d.do = "value" => Do(c, d) = EmitConstant(c, d.v)
         /\ d.do = "get" => Do(c, d) = Named(c, d.name, "GET_LOCAL", "GET_GLOBAL")
         /\ d.do = "set" => Do(c, d) = Named(c, d.name, "SET_LOCAL", "SET_GLOBAL")
         /\ d.do = "emit" => Do(c, d) = Emit(c, d.op, d.n)
         /\ d.do = "callee" => Do(c, d) = Called(c, d.fn, d.n)
         /\ d.do = "declare" => Do(c, d) = DeclLocal(c, d.name)
         /\ d.do = "open" => Do(c, d) = [c EXCEPT !.depth = @ + 1]
         /\ d.do = "close" => Do(c, d) = CloseScope(c)
         /\ d.do = "return" => Do(c, d) = [Emit(c, "RETURN", 0) EXCEPT !.ret = TRUE]
<1>1. ASSUME d.do = "value" PROVE Do(c, d) = EmitConstant(c, d.v) BY <1>1 DEF Do
<1>2. ASSUME d.do = "get" PROVE Do(c, d) = Named(c, d.name, "GET_LOCAL", "GET_GLOBAL") BY <1>2 DEF Do
<1>3. ASSUME d.do = "set" PROVE Do(c, d) = Named(c, d.name, "SET_LOCAL", "SET_GLOBAL") BY <1>3 DEF Do
<1>4. ASSUME d.do = "emit" PROVE Do(c, d) = Emit(c, d.op, d.n) BY <1>4 DEF Do
<1>5. ASSUME d.do = "callee" PROVE Do(c, d) = Called(c, d.fn, d.n) BY <1>5 DEF Do
<1>6. ASSUME d.do = "declare" PROVE Do(c, d) = DeclLocal(c, d.name) BY <1>6 DEF Do
<1>7. ASSUME d.do = "open" PROVE Do(c, d) = [c EXCEPT !.depth = @ + 1] BY <1>7 DEF Do
<1>8. ASSUME d.do = "close" PROVE Do(c, d) = CloseScope(c) BY <1>8 DEF Do
<1>9. ASSUME d.do = "return" PROVE Do(c, d) = [Emit(c, "RETURN", 0) EXCEPT !.ret = TRUE] BY <1>9 DEF Do
<1> QED BY <1>1, <1>2, <1>3, <1>4, <1>5, <1>6, <1>7, <1>8, <1>9

NewLocal(c, name) == [name |-> name, depth |-> c.depth]
Kept(c) == Max({0} \cup {i \in DOMAIN c.locals : c.locals[i].depth < c.depth})

(* A declaration that does not fail makes the local the last one.          *)
LEMMA Declared ==
  ASSUME NEW c, IsCompiler(c), ~c.err, NEW name
  PROVE  LET d == DeclLocal(c, name)
             new == NewLocal(c, name)
         IN
         /\ IsCompiler(d) /\ Extends(c, d) /\ d.ret = c.ret
         /\ ~d.err => /\ d.code = c.code /\ d.values = c.values /\ d.depth = c.depth
                      /\ d.locals = Append(c.locals, new)
                      /\ \A i \in DOMAIN c.locals : c.locals[i] # new
                      /\ Len(c.locals) + 1 # Bytes - 1
<1> DEFINE d == DeclLocal(c, name)
           new == NewLocal(c, name)
           bad == new \in ToSet(c.locals) \/ Len(c.locals) + 1 = Bytes - 1
<1>0. /\ IsList(c.code) /\ IsList(c.values) /\ IsList(c.locals) /\ c.err \in BOOLEAN /\ c.ret \in BOOLEAN
      /\ c = [code |-> c.code, values |-> c.values, locals |-> c.locals, depth |-> c.depth, err |-> c.err, ret |-> c.ret]
  BY DEF IsCompiler
<1>1. d = IF bad THEN [c EXCEPT !.err = TRUE] ELSE [c EXCEPT !.locals = Append(c.locals, new)]
  BY DEF DeclLocal, NewLocal
<1>2. \A i \in DOMAIN c.locals : c.locals[i] \in ToSet(c.locals) BY DEF ToSet
<1> HIDE DEF d, new, bad
<1>3. CASE bad
  <2>1. d = [code |-> c.code, values |-> c.values, locals |-> c.locals, depth |-> c.depth, err |-> TRUE, ret |-> c.ret]
    BY <1>0, <1>1, <1>3
  <2>2. d.code = c.code /\ d.values = c.values /\ d.locals = c.locals /\ d.err = TRUE /\ d.ret = c.ret
    BY <2>1
  <2>3. IsCompiler(d) BY <1>0, <2>1, <2>2 DEF IsCompiler
  <2>4. Extends(c, d) BY <1>0, <2>2, ListIs DEF Extends
  <2> QED BY <2>2, <2>3, <2>4 DEF d, new
<1>4. CASE ~bad
  <2>1. d = [code |-> c.code, values |-> c.values, locals |-> Append(c.locals, new), depth |-> c.depth, err |-> c.err, ret |-> c.ret]
    BY <1>0, <1>1, <1>4
  <2>2. /\ d.code = c.code /\ d.values = c.values /\ d.locals = Append(c.locals, new) /\ d.depth = c.depth
        /\ d.err = c.err /\ d.ret = c.ret
    BY <2>1
  <2>3. IsCompiler(d) BY <1>0, <2>1, <2>2, ListAppend DEF IsCompiler
  <2>4. Extends(c, d) BY <1>0, <2>2, ListIs DEF Extends
  <2>5. new \notin ToSet(c.locals) /\ Len(c.locals) + 1 # Bytes - 1 BY <1>4 DEF bad
  <2>6. \A i \in DOMAIN c.locals : c.locals[i] # new BY <1>2, <2>5
  <2> QED BY <2>2, <2>3, <2>4, <2>5, <2>6 DEF d, new
<1> QED BY <1>3, <1>4

(* The end of a block drops the locals of its scope and pops each of them. *)
LEMMA Closed ==
  ASSUME NEW c, IsCompiler(c)
  PROVE  LET d == CloseScope(c)
             n == Len(c.locals) - Kept(c)
         IN
         /\ IsCompiler(d) /\ Extends(c, d) /\ d.values = c.values /\ d.depth = c.depth - 1
         /\ d.err = c.err /\ d.ret = c.ret
         /\ Kept(c) \in 0 .. Len(c.locals) /\ n \in Nat
         /\ d.locals = SubSeq(c.locals, 1, Kept(c)) /\ Len(d.locals) = Kept(c)
         /\ \A i \in 1 .. Kept(c) : d.locals[i] = c.locals[i]
         /\ \A i \in DOMAIN c.locals : c.locals[i].depth < c.depth => i <= Kept(c)
         /\ Kept(c) # 0 => c.locals[Kept(c)].depth < c.depth
         /\ Len(d.code) = Len(c.code) + n
         /\ \A i \in 1 .. n : d.code[Len(c.code) + i] = [op |-> "POP", arg |-> 0]
<1> DEFINE d == CloseScope(c)
           k == Kept(c)
           n == Len(c.locals) - k
           pops == [i \in 1 .. n |-> [op |-> "POP", arg |-> 0]]
           s == {0} \cup {i \in DOMAIN c.locals : c.locals[i].depth < c.depth}
<1>0. /\ IsList(c.code) /\ IsList(c.values) /\ IsList(c.locals) /\ c.err \in BOOLEAN /\ c.ret \in BOOLEAN
      /\ c = [code |-> c.code, values |-> c.values, locals |-> c.locals, depth |-> c.depth, err |-> c.err, ret |-> c.ret]
      /\ Len(c.locals) \in Nat /\ DOMAIN c.locals = 1 .. Len(c.locals)
  BY ListIs DEF IsCompiler
<1>1. d = [c EXCEPT !.locals = SubSeq(c.locals, 1, k), !.depth = c.depth - 1, !.code = c.code \o pops]
  BY DEF CloseScope, Kept
<1>2. s \subseteq 0 .. Len(c.locals) /\ s # {} /\ k = Max(s) BY <1>0 DEF Kept
<1>3. k \in s /\ \A x \in s : x <= k
  <2> HIDE DEF s, k
  <2> QED BY <1>0, <1>2, GreatestOf
<1>4. k \in 0 .. Len(c.locals) /\ n \in Nat
  <2>1. k \in 0 .. Len(c.locals) BY <1>2, <1>3
  <2> HIDE DEF k
  <2> QED BY <1>0, <2>1
<1>5. /\ \A i \in DOMAIN c.locals : c.locals[i].depth < c.depth => i <= k
      /\ k # 0 => c.locals[k].depth < c.depth
  <2> HIDE DEF k
  <2> QED BY <1>3
<1> HIDE DEF d, k, s, n
<1>6. IsList(pops) /\ Len(pops) = n
  <2>1. pops \in Seq({[op |-> "POP", arg |-> 0]}) /\ Len(pops) = n BY <1>4
  <2> HIDE DEF pops
  <2> QED BY <2>1 DEF IsList
<1>7. \A i \in 1 .. n : pops[i] = [op |-> "POP", arg |-> 0] OBVIOUS
<1> HIDE DEF pops
<1>8. d = [code |-> c.code \o pops, values |-> c.values, locals |-> SubSeq(c.locals, 1, k), depth |-> c.depth - 1, err |-> c.err, ret |-> c.ret]
  BY <1>0, <1>1
<1>9. /\ d.code = c.code \o pops /\ d.values = c.values /\ d.locals = SubSeq(c.locals, 1, k)
      /\ d.depth = c.depth - 1 /\ d.err = c.err /\ d.ret = c.ret
  BY <1>8
<1>10. IsList(d.locals) /\ Len(d.locals) = k /\ \A i \in 1 .. k : d.locals[i] = c.locals[i]
  BY <1>0, <1>4, <1>9, ListIs
<1>11. /\ IsList(d.code) /\ Len(d.code) = Len(c.code) + n /\ Within(c.code, d.code)
       /\ \A i \in 1 .. n : d.code[Len(c.code) + i] = [op |-> "POP", arg |-> 0]
  <2>1. /\ IsList(c.code \o pops) /\ Len(c.code \o pops) = Len(c.code) + Len(pops) /\ Within(c.code, c.code \o pops)
        /\ \A i \in 1 .. Len(pops) : (c.code \o pops)[Len(c.code) + i] = pops[i]
    <3>1. IsList(c.code) /\ IsList(pops) BY <1>0, <1>6
    <3> QED BY <3>1, ListConcat
  <2>2. d.code = c.code \o pops BY <1>9
  <2>3. ASSUME NEW i \in 1 .. n PROVE d.code[Len(c.code) + i] = [op |-> "POP", arg |-> 0]
    <3>1. i \in 1 .. Len(pops) BY <1>6
    <3>2. d.code[Len(c.code) + i] = pops[i] BY <2>1, <2>2, <3>1
    <3> QED BY <1>7, <3>2
  <2> QED BY <1>6, <2>1, <2>2, <2>3
<1>12. IsCompiler(d) BY <1>0, <1>8, <1>9, <1>10, <1>11 DEF IsCompiler
<1>13. Extends(c, d) BY <1>0, <1>9, <1>11, ListIs DEF Extends
<1> QED BY <1>4, <1>5, <1>9, <1>10, <1>11, <1>12, <1>13 DEF d, k, n

(* What a visit that does not declare or close leaves of the locals.       *)
LEMMA Reached ==
  ASSUME NEW c, IsCompiler(c), ~c.err, NEW fn, NEW n
  PROVE  LET d == Called(c, fn, n) IN
         /\ IsCompiler(d) /\ Extends(c, d) /\ d.ret = c.ret
         /\ ~d.err /\ n \in Nat => n < Bytes - 1
         /\ ~d.err /\ fn \in Natives => d = EmitConstant(c, Native(fn))
<1> DEFINE d == Called(c, fn, n)
           bad == n >= Bytes - 1
           v == IF fn \in Natives THEN [kind |-> "native", val |-> fn]
                ELSE [kind |-> "fn", val |-> [arity |-> n, code |-> c.code, values |-> c.values]]
<1>0. /\ IsList(c.code) /\ IsList(c.values) /\ IsList(c.locals) /\ c.err \in BOOLEAN /\ c.ret \in BOOLEAN
      /\ c = [code |-> c.code, values |-> c.values, locals |-> c.locals, depth |-> c.depth, err |-> c.err, ret |-> c.ret]
  BY DEF IsCompiler
<1>1. d = IF bad THEN [c EXCEPT !.err = TRUE] ELSE EmitConstant(c, v) BY DEF Called
<1>2. fn \in Natives => v = Native(fn) BY DEF Native
<1> HIDE DEF d, v
<1>3. CASE bad
  <2>1. d = [code |-> c.code, values |-> c.values, locals |-> c.locals, depth |-> c.depth, err |-> TRUE, ret |-> c.ret]
    BY <1>0, <1>1, <1>3
  <2>2. d.code = c.code /\ d.values = c.values /\ d.locals = c.locals /\ d.err = TRUE /\ d.ret = c.ret
    BY <2>1
  <2>3. IsCompiler(d) BY <1>0, <2>1, <2>2 DEF IsCompiler
  <2>4. Extends(c, d) BY <1>0, <2>2, ListIs DEF Extends
  <2> QED BY <2>2, <2>3, <2>4 DEF d
<1>4. CASE ~bad
  <2>1. d = EmitConstant(c, v) BY <1>1, <1>4
  <2>2. IsCompiler(d) /\ Extends(c, d) /\ d.ret = c.ret BY <2>1, EmittedConstant
  <2>3. n \in Nat => n < Bytes - 1 BY <1>4, ByteAssumption DEF bad
  <2> QED BY <1>2, <2>1, <2>2, <2>3 DEF d
<1> QED BY <1>3, <1>4

-------------------------------------------------------------------------------
(* What a visit does whatever it is, and the run over all visits.          *)

(* A visit keeps a compiler one and only adds to its chunk.                *)
LEMMA DoGoes ==
  ASSUME NEW c, IsCompiler(c), NEW d, d.do \in Does
  PROVE  IsCompiler(Do(c, d)) /\ Extends(c, Do(c, d))
<1> DEFINE r == Do(c, d)
<1>0. /\ IsList(c.code) /\ IsList(c.values) /\ IsList(c.locals) /\ c.err \in BOOLEAN /\ c.ret \in BOOLEAN
      /\ c = [code |-> c.code, values |-> c.values, locals |-> c.locals, depth |-> c.depth, err |-> c.err, ret |-> c.ret]
  BY DEF IsCompiler
<1>1. CASE c.err
  <2>1. r = c BY <1>1 DEF Do
  <2> HIDE DEF r
  <2>2. Extends(c, c) BY <1>0, ListIs DEF Extends
  <2> QED BY <2>1, <2>2 DEF r
<1>2. CASE ~c.err
  <2> HIDE DEF r
  <2>1. CASE d.do = "value"
    <3>1. r = EmitConstant(c, d.v) BY <1>2, <2>1, DoIs DEF r
    <3> QED BY <3>1, EmittedConstant DEF r
  <2>2. CASE d.do \in {"get", "set"}
    <3>1. \E op, arg : r = Emit(c, op, arg) BY <1>2, <2>2, DoIs DEF r, Named
    <3> QED BY <3>1, Emitted DEF r
  <2>3. CASE d.do = "emit"
    <3>1. r = Emit(c, d.op, d.n) BY <1>2, <2>3, DoIs DEF r
    <3> QED BY <3>1, Emitted DEF r
  <2>4. CASE d.do = "callee"
    <3>1. r = Called(c, d.fn, d.n) BY <1>2, <2>4, DoIs DEF r
    <3> QED BY <1>2, <3>1, Reached DEF r
  <2>5. CASE d.do = "declare"
    <3>1. r = DeclLocal(c, d.name) BY <1>2, <2>5, DoIs DEF r
    <3> QED BY <1>2, <3>1, Declared DEF r
  <2>6. CASE d.do = "open"
    <3>1. r = [c EXCEPT !.depth = @ + 1] BY <1>2, <2>6, DoIs DEF r
    <3>2. r = [code |-> c.code, values |-> c.values, locals |-> c.locals, depth |-> c.depth + 1, err |-> c.err, ret |-> c.ret]
      BY <1>0, <3>1
    <3>3. r.code = c.code /\ r.values = c.values /\ r.locals = c.locals /\ r.err = c.err /\ r.ret = c.ret /\ r.depth = c.depth + 1
      BY <3>2
    <3>4. IsCompiler(r) BY <1>0, <3>2, <3>3 DEF IsCompiler
    <3>5. Extends(c, r) BY <1>0, <3>3, ListIs DEF Extends
    <3> QED BY <3>4, <3>5 DEF r
  <2>7. CASE d.do = "close"
    <3>1. r = CloseScope(c) BY <1>2, <2>7, DoIs DEF r
    <3> QED BY <3>1, Closed DEF r
  <2>8. CASE d.do = "return"
    <3> DEFINE b == Emit(c, "RETURN", 0)
    <3>1. r = [b EXCEPT !.ret = TRUE] BY <1>2, <2>8, DoIs DEF r
    <3>2. /\ IsCompiler(b) /\ Extends(c, b) BY Emitted
    <3> HIDE DEF b
    <3>3. b = [code |-> b.code, values |-> b.values, locals |-> b.locals, depth |-> b.depth, err |-> b.err, ret |-> b.ret]
      BY <3>2 DEF IsCompiler
    <3>4. r = [code |-> b.code, values |-> b.values, locals |-> b.locals, depth |-> b.depth, err |-> b.err, ret |-> TRUE]
      BY <3>1, <3>3
    <3>5. r.code = b.code /\ r.values = b.values /\ r.locals = b.locals /\ r.err = b.err /\ r.ret = TRUE
      BY <3>4
    <3>6. IsCompiler(r) BY <3>2, <3>4, <3>5 DEF IsCompiler
    <3>7. Extends(c, r) BY <3>2, <3>5 DEF Extends
    <3> QED BY <3>6, <3>7 DEF r
  <2> QED BY <2>1, <2>2, <2>3, <2>4, <2>5, <2>6, <2>7, <2>8 DEF Does
<1> QED BY <1>1, <1>2

LEMMA Opened ==
  ASSUME NEW c, IsCompiler(c), ~c.err, NEW d, d.do = "open"
  PROVE  LET r == Do(c, d) IN r.code = c.code /\ r.locals = c.locals
                              /\ r.values = c.values /\ r.depth = c.depth + 1
<1> DEFINE r == Do(c, d)
<1>0. c = [code |-> c.code, values |-> c.values, locals |-> c.locals, depth |-> c.depth, err |-> c.err, ret |-> c.ret]
  BY DEF IsCompiler
<1>1. r = [c EXCEPT !.depth = @ + 1] BY DoIs
<1> HIDE DEF r
<1>2. r = [code |-> c.code, values |-> c.values, locals |-> c.locals, depth |-> c.depth + 1, err |-> c.err, ret |-> c.ret]
  BY <1>0, <1>1
<1> QED BY <1>2 DEF r

LEMMA Ended ==
  ASSUME NEW c, IsCompiler(c), ~c.err, NEW d, d.do = "return"
  PROVE  LET r == Do(c, d) IN Len(r.code) = Len(c.code) + 1 /\ r.code[Len(c.code) + 1] = Instr("RETURN", 0)
<1> DEFINE r == Do(c, d)
           b == Emit(c, "RETURN", 0)
<1>1. r = [b EXCEPT !.ret = TRUE] BY DoIs
<1>2. IsCompiler(b) /\ Len(b.code) = Len(c.code) + 1 /\ b.code[Len(c.code) + 1] = Instr("RETURN", 0)
  BY Emitted
<1> HIDE DEF r, b
<1>3. b = [code |-> b.code, values |-> b.values, locals |-> b.locals, depth |-> b.depth, err |-> b.err, ret |-> b.ret]
  BY <1>2 DEF IsCompiler
<1>4. r.code = b.code BY <1>1, <1>3
<1> QED BY <1>2, <1>4 DEF r

-------------------------------------------------------------------------------
(* The run of the compiler over the visits of a lambda.                    *)

CompilesTo(u, v) == u[0] = NewCompiler /\ \A k \in 1 .. Len(v) : u[k] = Do(u[k - 1], v[k])

LEMMA CompiledGoes == ASSUME NEW v, IsList(v) PROVE CompilesTo(Compiled(v), v)
<1> DEFINE n == Len(v)
           Once(g, k) == IF k = 0 THEN NewCompiler ELSE Do(g[k - 1], v[k])
           P(g) == g = [k \in 0 .. n |-> Once(g, k)]
           U == {m \in 0 .. n : \E g : \A k \in 0 .. m : g[k] = Once(g, k)}
<1>0. n \in Nat BY ListIs
<1>1. 0 \in U
  <2> DEFINE g == [k \in {0} |-> NewCompiler]
  <2>1. \A k \in 0 .. 0 : k = 0 /\ g[k] = NewCompiler OBVIOUS
  <2> HIDE DEF g
  <2>2. \A k \in 0 .. 0 : g[k] = Once(g, k) BY <2>1
  <2> HIDE DEF Once
  <2>3. \E x : \A k \in 0 .. 0 : x[k] = Once(x, k) BY <2>2
  <2> QED BY <1>0, <2>3
<1>2. ASSUME NEW m \in 0 .. n - 1, m \in U PROVE m + 1 \in U
  <2>1. PICK g : \A k \in 0 .. m : g[k] = Once(g, k) BY <1>2
  <2> DEFINE h == [k \in 0 .. m + 1 |-> IF k = m + 1 THEN Do(g[m], v[m + 1]) ELSE g[k]]
  <2>2. m \in Nat BY <1>0
  <2>3. ASSUME NEW k \in 0 .. m + 1 PROVE h[k] = Once(h, k)
    <3>1. CASE k = 0
      <4>1. h[k] = g[k] /\ g[k] = Once(g, k) BY <2>1, <2>2, <3>1
      <4> QED BY <3>1, <4>1
    <3>2. CASE k = m + 1
      <4>1. h[m] = g[m] /\ k - 1 = m /\ k # 0 BY <2>2, <3>2
      <4> QED BY <3>2, <4>1
    <3>3. CASE k # 0 /\ k # m + 1
      <4>1. k - 1 \in 0 .. m /\ k \in 0 .. m /\ k # m + 1 /\ k - 1 # m + 1 /\ k - 1 \in 0 .. m + 1
        BY <2>2, <3>3
      <4>2. h[k] = g[k] /\ h[k - 1] = g[k - 1] BY <4>1
      <4> HIDE DEF h
      <4>3. g[k] = Do(g[k - 1], v[k]) BY <2>1, <3>3, <4>1
      <4> QED BY <3>3, <4>2, <4>3
    <3> QED BY <3>1, <3>2, <3>3
  <2> HIDE DEF h, Once
  <2>4. \E x : \A k \in 0 .. m + 1 : x[k] = Once(x, k) BY <2>3
  <2> QED BY <1>0, <2>2, <2>4
<1>3. 0 .. n \subseteq U
  <2> HIDE DEF U
  <2> QED BY <1>0, <1>1, <1>2, UpTo
<1>4. PICK g : \A k \in 0 .. n : g[k] = Once(g, k)
  <2>1. n \in U BY <1>0, <1>3
  <2> HIDE DEF Once
  <2> QED BY <2>1
<1> DEFINE h == [k \in 0 .. n |-> g[k]]
<1>5. \A k \in 0 .. n : h[k] = Once(h, k)
  <2> TAKE k \in 0 .. n
  <2>1. CASE k = 0 BY <1>4, <2>1
  <2>2. CASE k # 0
    <3>1. k - 1 \in 0 .. n BY <1>0, <2>2
    <3>2. h[k] = g[k] /\ h[k - 1] = g[k - 1] BY <3>1
    <3> HIDE DEF h
    <3> QED BY <1>4, <2>2, <3>2
  <2> QED BY <2>1, <2>2
<1>6. P(h)
  <2>1. h = [k \in 0 .. n |-> h[k]] OBVIOUS
  <2> HIDE DEF h, Once
  <2> QED BY <1>5, <2>1, Zenon
<1>7. Compiled(v) = CHOOSE x : P(x) BY DEF Compiled
<1>8. P(Compiled(v))
  <2> HIDE DEF P, h
  <2> QED BY <1>6, <1>7
<1> DEFINE u == Compiled(v)
<1> HIDE DEF u
<1>9. \A k \in 0 .. n : u[k] = Once(u, k)
  <2>1. P(u) BY <1>8 DEF u
  <2> HIDE DEF Once
  <2> QED BY <2>1, Zenon
<1>10. u[0] = NewCompiler BY <1>0, <1>9
<1>11. ASSUME NEW k \in 1 .. n PROVE u[k] = Do(u[k - 1], v[k])
  <2>1. k \in 0 .. n /\ k # 0 BY <1>0
  <2> QED BY <1>9, <2>1
<1> QED BY <1>10, <1>11 DEF CompilesTo, u

LEMMA ExtendsTrans ==
  ASSUME NEW c, IsCompiler(c), NEW d, IsCompiler(d), NEW e, IsCompiler(e), Extends(c, d), Extends(d, e)
  PROVE  Extends(c, e)
<1>1. Within(c.code, e.code) BY WithinTrans DEF Extends, IsCompiler
<1>2. Within(c.values, e.values) BY WithinTrans DEF Extends, IsCompiler
<1> QED BY <1>1, <1>2 DEF Extends

(* From any visit to any later one the chunk only grows.                   *)
LEMMA RunExtends ==
  ASSUME NEW v, IsList(v), \A k \in 1 .. Len(v) : v[k].do \in Does, NEW u, CompilesTo(u, v)
  PROVE  \A k \in 0 .. Len(v) : IsCompiler(u[k]) /\ Extends(u[k], u[Len(v)])
<1> DEFINE n == Len(v)
           A == {k \in 0 .. n : IsCompiler(u[k])}
           B == {m \in 0 .. n : Extends(u[n - m], u[n])}
<1>0. n \in Nat BY ListIs
<1>1. 0 \in A BY <1>0, NewIsCompiler DEF CompilesTo
<1>2. ASSUME NEW m \in 0 .. n - 1, m \in A PROVE m + 1 \in A
  <2>1. m + 1 \in 1 .. n /\ (m + 1) - 1 = m /\ m + 1 \in 0 .. n BY <1>0
  <2>2. u[m + 1] = Do(u[m], v[m + 1]) BY <2>1 DEF CompilesTo
  <2>3. v[m + 1].do \in Does BY <2>1
  <2>4. IsCompiler(u[m]) BY <1>2
  <2>5. IsCompiler(u[m + 1]) BY <2>2, <2>3, <2>4, DoGoes
  <2> QED BY <2>1, <2>5
<1>3. 0 .. n \subseteq A
  <2> HIDE DEF A
  <2> QED BY <1>0, <1>1, <1>2, UpTo
<1>4. \A k \in 0 .. n : IsCompiler(u[k]) BY <1>3
<1>5. \A k \in 1 .. n : Extends(u[k - 1], u[k])
  <2> TAKE k \in 1 .. n
  <2>1. k - 1 \in 0 .. n /\ u[k] = Do(u[k - 1], v[k]) /\ v[k].do \in Does BY <1>0 DEF CompilesTo
  <2> QED BY <1>4, <2>1, DoGoes
<1>6. 0 \in B
  <2>1. n - 0 = n /\ n \in 0 .. n BY <1>0
  <2>2. Extends(u[n], u[n]) BY <1>4, <2>1, ListIs DEF IsCompiler, Extends
  <2> QED BY <1>0, <2>1, <2>2
<1>7. ASSUME NEW m \in 0 .. n - 1, m \in B PROVE m + 1 \in B
  <2>1. n - m \in 1 .. n /\ (n - m) - 1 = n - (m + 1) /\ m + 1 \in 0 .. n /\ n - m \in 0 .. n
        /\ n - (m + 1) \in 0 .. n /\ n \in 0 .. n
    BY <1>0
  <2>2. Extends(u[(n - m) - 1], u[n - m]) BY <1>5, <2>1
  <2>3. Extends(u[n - (m + 1)], u[n - m]) BY <2>1, <2>2
  <2>4. Extends(u[n - m], u[n]) BY <1>7
  <2>5. Extends(u[n - (m + 1)], u[n]) BY <1>4, <2>1, <2>3, <2>4, ExtendsTrans
  <2> QED BY <2>1, <2>5
<1>8. 0 .. n \subseteq B
  <2> HIDE DEF B
  <2> QED BY <1>0, <1>6, <1>7, UpTo
<1>9. ASSUME NEW k \in 0 .. n PROVE Extends(u[k], u[n])
  <2>1. n - k \in 0 .. n /\ n - (n - k) = k BY <1>0
  <2>2. n - k \in B BY <1>8, <2>1
  <2> QED BY <2>1, <2>2
<1> QED BY <1>4, <1>9

(* A chunk and the compiler that made it.                                  *)
Built(u, v, chunk) ==
  /\ CompilesTo(u, v) /\ IsList(v)
  /\ IsList(chunk.code) /\ IsList(chunk.values)
  /\ \A k \in 0 .. Len(v) : /\ IsCompiler(u[k]) /\ ~u[k].err
                            /\ Within(u[k].code, chunk.code) /\ Within(u[k].values, chunk.values)

LEMMA LambdaIsBuilt ==
  ASSUME NEW body, IsList(Visits(body)), \A k \in 1 .. Len(Visits(body)) : Visits(body)[k].do \in Does,
         ~Lambda(body).err
  PROVE  Built(Compiled(Visits(body)), Visits(body), Lambda(body).chunk)
<1> DEFINE v == Visits(body)
           u == Compiled(v)
           n == Len(v)
           c == u[n]
           e == Emit(c, "RETURN", 0)
           d == IF c.ret THEN c ELSE e
           s == Lambda(body)
<1>1. s = [err |-> d.err, chunk |-> [arity |-> 0, code |-> d.code, values |-> d.values]] BY DEF Lambda
<1>2. IsList(v) /\ n \in Nat BY ListIs
<1>3. CompilesTo(u, v) BY <1>2, CompiledGoes
<1>4. \A k \in 1 .. n : v[k].do \in Does OBVIOUS
<1> HIDE DEF v, u
<1>5. \A k \in 0 .. n : IsCompiler(u[k]) /\ Extends(u[k], u[n]) BY <1>2, <1>3, <1>4, RunExtends
<1>6. IsCompiler(c) BY <1>2, <1>5
<1>7. IsCompiler(e) /\ Extends(c, e) BY <1>6, Emitted
<1>8. IsCompiler(d) /\ Extends(c, d)
  <2>1. Extends(c, c) BY <1>2, <1>5
  <2> QED BY <1>6, <1>7, <2>1
<1> HIDE DEF c, e, d
<1>9. ~s.err /\ s.err = d.err /\ s.chunk.code = d.code /\ s.chunk.values = d.values
  <2>1. ~s.err OBVIOUS
  <2> HIDE DEF s
  <2> QED BY <1>1, <2>1
<1>10. ASSUME NEW k \in 0 .. n
       PROVE  /\ IsCompiler(u[k]) /\ ~u[k].err
              /\ Within(u[k].code, s.chunk.code) /\ Within(u[k].values, s.chunk.values)
  <2>1. IsCompiler(u[k]) /\ Extends(u[k], c) BY <1>5 DEF c
  <2>2. Extends(u[k], d) BY <1>6, <1>8, <2>1, ExtendsTrans
  <2>3. ~d.err BY <1>9
  <2> QED BY <1>9, <2>1, <2>2, <2>3 DEF Extends
<1>11. IsList(s.chunk.code) /\ IsList(s.chunk.values) BY <1>8, <1>9 DEF IsCompiler
<1> HIDE DEF s, n
<1>12. Built(u, v, s.chunk) BY <1>2, <1>3, <1>10, <1>11 DEF Built, n
<1> QED BY <1>12 DEF u, v, s

-------------------------------------------------------------------------------
(* Where the visits of a statement are.                                    *)

LEMMA ListOfItself == ASSUME NEW s, IsList(s) PROVE s \in Seq(ToSet(s))
<1>1. PICK S : s \in Seq(S) BY DEF IsList
<1>2. Len(s) \in Nat /\ DOMAIN s = 1 .. Len(s) /\ s \in [1 .. Len(s) -> S] BY <1>1
<1>3. \A i \in 1 .. Len(s) : s[i] \in ToSet(s) BY <1>2 DEF ToSet
<1> DEFINE T == ToSet(s)
<1>4. s \in [1 .. Len(s) -> T] BY <1>2, <1>3
<1> HIDE DEF T
<1>5. s \in Seq(T) BY <1>2, <1>4
<1> QED BY <1>5 DEF T

IsStatement(s) ==
  /\ s.st \in {"expr", "let", "decl", "assign", "return", "open", "close"}
  /\ s.st \in {"expr", "let", "assign", "return"} => s.e \in Trees

LEMMA StepsAreDone ==
  /\ \A d \in VariantSteps : d.do \in Does
  /\ \A d \in ExpressionSteps : d.do \in Does
<1>1. \A e : Leaf(e).do \in Does BY DEF Leaf, Does
<1>2. \A e : Operation(e).do \in Does BY DEF Operation, Does
<1>3. \A e : Declare(e.name).do \in Does /\ CalleeStep(e).do \in Does /\ CallStep(e).do \in Does
  BY DEF Declare, CalleeStep, CallStep, Does
<1>4. \A d \in VariantSteps : d.do \in Does BY <1>1, <1>2 DEF VariantSteps
<1>5. \A v : [do |-> "value", v |-> AsDouble(v)].do \in Does BY DEF Does
<1>6. \A d \in ExpressionSteps : d.do \in Does BY <1>1, <1>3, <1>4, <1>5 DEF ExpressionSteps
<1> QED BY <1>4, <1>6

(* The parts of a statement's visits.                                      *)
LEMMA StatementIs ==
  ASSUME NEW s
  PROVE  /\ s.st = "expr" => Statement(s) = Expression[s.e]
         /\ s.st = "decl" => Statement(s) = <<Declare(s.name)>>
         /\ s.st = "let" => Statement(s) = <<Declare(s.name)>> \o Variant[s.e]
         /\ s.st = "assign" => Statement(s) = <<[do |-> "value", v |-> Str(s.name)]>>
                                              \o Variant[s.e] \o <<[do |-> "set", name |-> s.name]>>
         /\ s.st = "return" => Statement(s) = Expression[s.e] \o <<[do |-> "return"]>>
         /\ s.st = "open" => Statement(s) = <<[do |-> "open"]>>
         /\ s.st = "close" => Statement(s) = <<[do |-> "close"]>>
<1>1. ASSUME s.st = "expr" PROVE Statement(s) = Expression[s.e] BY <1>1 DEF Statement
<1>2. ASSUME s.st = "decl" PROVE Statement(s) = <<Declare(s.name)>> BY <1>2 DEF Statement, Declare
<1>3. ASSUME s.st = "let" PROVE Statement(s) = <<Declare(s.name)>> \o Variant[s.e]
  BY <1>3 DEF Statement, Declare
<1>4. ASSUME s.st = "assign"
      PROVE  Statement(s) = <<[do |-> "value", v |-> Str(s.name)]>> \o Variant[s.e] \o <<[do |-> "set", name |-> s.name]>>
  BY <1>4 DEF Statement, Str
<1>5. ASSUME s.st = "return" PROVE Statement(s) = Expression[s.e] \o <<[do |-> "return"]>>
  BY <1>5 DEF Statement
<1>6. ASSUME s.st = "open" PROVE Statement(s) = <<[do |-> "open"]>> BY <1>6 DEF Statement
<1>7. ASSUME s.st = "close" PROVE Statement(s) = <<[do |-> "close"]>> BY <1>7 DEF Statement
<1> QED BY <1>1, <1>2, <1>3, <1>4, <1>5, <1>6, <1>7

-------------------------------------------------------------------------------
(* The visits of a lambda, statement by statement.                         *)

(* Lists of steps of the visitors.                                         *)
IsDone(s) == IsList(s) /\ \A k \in 1 .. Len(s) : s[k].do \in Does

LEMMA DoneConcat == ASSUME NEW s, IsDone(s), NEW t, IsDone(t) PROVE IsDone(s \o t)
<1>1. /\ IsList(s \o t) /\ Len(s \o t) = Len(s) + Len(t) /\ Within(s, s \o t)
      /\ \A i \in 1 .. Len(t) : (s \o t)[Len(s) + i] = t[i]
  BY ListConcat DEF IsDone
<1>2. Len(s) \in Nat /\ Len(t) \in Nat BY ListIs DEF IsDone
<1>3. ASSUME NEW k \in 1 .. Len(s \o t) PROVE (s \o t)[k].do \in Does
  <2>1. CASE k <= Len(s)
    <3>1. k \in 1 .. Len(s) BY <1>1, <1>2, <2>1
    <3> QED BY <1>1, <3>1 DEF Within, IsDone
  <2>2. CASE k > Len(s)
    <3>1. k - Len(s) \in 1 .. Len(t) /\ Len(s) + (k - Len(s)) = k BY <1>1, <1>2, <2>2
    <3>2. (s \o t)[k] = t[k - Len(s)] BY <1>1, <3>1
    <3> QED BY <3>1, <3>2 DEF IsDone
  <2> QED BY <1>1, <1>2, <2>1, <2>2
<1> QED BY <1>1, <1>3 DEF IsDone

LEMMA DoneOne == ASSUME NEW d, d.do \in Does PROVE IsDone(<<d>>) /\ Len(<<d>>) = 1 /\ <<d>>[1] = d
<1>1. <<d>> \in Seq({d}) /\ Len(<<d>>) = 1 /\ <<d>>[1] = d OBVIOUS
<1>2. \A k \in 1 .. 1 : k = 1 OBVIOUS
<1> DEFINE s == <<d>>
<1> HIDE DEF s
<1>3. s \in Seq({d}) /\ Len(s) = 1 /\ s[1] = d BY <1>1 DEF s
<1>4. IsDone(s) BY <1>2, <1>3 DEF IsDone, IsList
<1> QED BY <1>1, <1>4 DEF s

LEMMA DoneVariant == ASSUME NEW e \in Trees PROVE IsDone(Variant[e]) /\ IsDone(Expression[e])
<1>1. Variant[e] \in Seq(VariantSteps) /\ Expression[e] \in Seq(ExpressionSteps)
  BY VariantIs, ExpressionIs
<1> DEFINE s == Variant[e]
           t == Expression[e]
<1> HIDE DEF s, t
<1>2. s \in Seq(VariantSteps) /\ t \in Seq(ExpressionSteps) BY <1>1 DEF s, t
<1>3. (\A k \in 1 .. Len(s) : s[k] \in VariantSteps) /\ \A k \in 1 .. Len(t) : t[k] \in ExpressionSteps
  BY <1>2
<1>4. IsDone(s) /\ IsDone(t) BY <1>2, <1>3, StepsAreDone DEF IsDone, IsList
<1> QED BY <1>4 DEF s, t

LEMMA DoneStatement == ASSUME NEW s, IsStatement(s) PROVE IsDone(Statement(s))
<1>0. /\ \A name : IsDone(<<Declare(name)>>)
      /\ IsDone(<<[do |-> "value", v |-> Str(s.name)]>>) /\ IsDone(<<[do |-> "set", name |-> s.name]>>)
      /\ IsDone(<<[do |-> "return"]>>) /\ IsDone(<<[do |-> "open"]>>) /\ IsDone(<<[do |-> "close"]>>)
  <2>1. ASSUME NEW name PROVE IsDone(<<Declare(name)>>)
    <3>1. Declare(name).do \in Does BY DEF Declare, Does
    <3> QED BY <3>1, DoneOne
  <2>2. [do |-> "value", v |-> Str(s.name)].do \in Does /\ [do |-> "set", name |-> s.name].do \in Does
    BY DEF Does
  <2>3. [do |-> "return"].do \in Does /\ [do |-> "open"].do \in Does /\ [do |-> "close"].do \in Does
    BY DEF Does
  <2> QED BY <2>1, <2>2, <2>3, DoneOne
<1>1. CASE s.st = "expr" BY <1>1, StatementIs, DoneVariant DEF IsStatement
<1>2. CASE s.st = "decl" BY <1>0, <1>2, StatementIs
<1>3. CASE s.st = "let"
  <2>1. IsDone(Variant[s.e]) BY <1>3, DoneVariant DEF IsStatement
  <2>2. IsDone(<<Declare(s.name)>> \o Variant[s.e]) BY <1>0, <2>1, DoneConcat
  <2> QED BY <1>3, <2>2, StatementIs
<1>4. CASE s.st = "assign"
  <2>1. IsDone(Variant[s.e]) BY <1>4, DoneVariant DEF IsStatement
  <2>2. IsDone(<<[do |-> "value", v |-> Str(s.name)]>> \o Variant[s.e]) BY <1>0, <2>1, DoneConcat
  <2>3. IsDone(<<[do |-> "value", v |-> Str(s.name)]>> \o Variant[s.e] \o <<[do |-> "set", name |-> s.name]>>)
    BY <1>0, <2>2, DoneConcat
  <2> QED BY <1>4, <2>3, StatementIs
<1>5. CASE s.st = "return"
  <2>1. IsDone(Expression[s.e]) BY <1>5, DoneVariant DEF IsStatement
  <2>2. IsDone(Expression[s.e] \o <<[do |-> "return"]>>) BY <1>0, <2>1, DoneConcat
  <2> QED BY <1>5, <2>2, StatementIs
<1>6. CASE s.st = "open" BY <1>0, <1>6, StatementIs
<1>7. CASE s.st = "close" BY <1>0, <1>7, StatementIs
<1> QED BY <1>1, <1>2, <1>3, <1>4, <1>5, <1>6, <1>7 DEF IsStatement

(* Where the visits of each statement are.                                 *)
WellFormed(body) == IsList(body) /\ \A i \in 1 .. Len(body) : IsStatement(body[i])
Width(body, i) == Len(Statement(body[i]))
Divides(body, v, pos) ==
  /\ pos[0] = 1 /\ \A i \in 0 .. Len(body) : pos[i] \in 1 .. Len(v) - 1
  /\ \A i \in 1 .. Len(body) :
       /\ pos[i] = pos[i - 1] + Width(body, i)
       /\ \A m \in 1 .. Width(body, i) : v[pos[i - 1] + m] = Statement(body[i])[m]

(* Each statement has its place in the visits of the lambda.               *)
LEMMA Positions ==
  ASSUME NEW body, WellFormed(body)
  PROVE  /\ IsDone(Visits(body)) /\ Visits(body)[1] = [do |-> "open"]
         /\ \E pos : Divides(body, Visits(body), pos)
<1> DEFINE n == Len(body)
           w == [i \in 1 .. n |-> Statement(body[i])]
           pieces == [i \in DOMAIN body |-> Statement(body[i])]
           T == UNION {ToSet(w[i]) : i \in 1 .. n}
           open == <<[do |-> "open"]>>
           close == <<[do |-> "close"]>>
           flat == FlattenSeq(pieces)
           v == Visits(body)
<1>1. n \in Nat /\ DOMAIN body = 1 .. n BY ListIs DEF WellFormed
<1>2. \A i \in 1 .. n : IsDone(w[i]) /\ w[i] = Statement(body[i]) BY DoneStatement DEF WellFormed
<1>3. ASSUME NEW i \in 1 .. n PROVE w[i] \in Seq(T) /\ Len(w[i]) \in Nat
  <2>1. w[i] \in Seq(ToSet(w[i])) BY <1>2, ListOfItself DEF IsDone
  <2>2. ToSet(w[i]) \subseteq T OBVIOUS
  <2> QED BY <2>1, <2>2, SeqMonotonic
<1> HIDE DEF T
<1>4. pieces \in Seq(Seq(T)) /\ Len(pieces) = n /\ \A i \in 1 .. n : pieces[i] = w[i]
  <2>1. \A i \in 1 .. n : pieces[i] = w[i] BY <1>1, <1>2
  <2>2. DOMAIN pieces = 1 .. n BY <1>1
  <2> HIDE DEF n
  <2>3. pieces = [i \in 1 .. n |-> pieces[i]] BY <2>2
  <2> HIDE DEF pieces
  <2> QED BY <1>1, <1>3, <2>1, <2>3
<1> HIDE DEF pieces, n, w
<1>5. PICK g \in [0 .. n -> Seq(T)] : FlatTo(pieces, g) /\ flat = g[n] BY <1>4, FlattenGoes
<1> HIDE DEF flat
<1>6. /\ \A i \in 0 .. n : IsList(g[i]) /\ Len(g[i]) \in Nat
      /\ g[0] = <<>> /\ \A i \in 1 .. n : g[i] = g[i - 1] \o w[i]
  <2>1. g[0] = <<>> /\ \A i \in 1 .. n : g[i] = g[i - 1] \o w[i] BY <1>4, <1>5 DEF FlatTo
  <2>2. \A i \in 0 .. n : g[i] \in Seq(T) BY <1>5
  <2>3. \A i \in 0 .. n : IsList(g[i]) BY <2>2 DEF IsList
  <2>4. \A i \in 0 .. n : Len(g[i]) \in Nat BY <2>3, ListIs
  <2> QED BY <2>1, <2>3, <2>4
<1>7. \A i \in 1 .. n : /\ Len(g[i]) = Len(g[i - 1]) + Len(w[i]) /\ Within(g[i - 1], g[i])
                        /\ \A m \in 1 .. Len(w[i]) : g[i][Len(g[i - 1]) + m] = w[i][m]
  <2> TAKE i \in 1 .. n
  <2>0. i - 1 \in 0 .. n BY <1>1
  <2>1. i - 1 \in 0 .. n /\ g[i] = g[i - 1] \o w[i] BY <1>6, <2>0
  <2>2. IsList(g[i - 1]) /\ IsList(w[i]) BY <1>2, <1>6, <2>1 DEF IsDone
  <2> QED BY <2>1, <2>2, ListConcat
<1>8. \A i \in 0 .. n : Within(g[i], g[n])
  <2> DEFINE B == {m \in 0 .. n : Within(g[n - m], g[n])}
  <2>1. 0 \in B
    <3>1. n - 0 = n /\ n \in 0 .. n /\ 0 \in 0 .. n BY <1>1
    <3>2. Within(g[n], g[n]) BY <1>6, <3>1, ListIs
    <3> QED BY <3>1, <3>2
  <2>2. ASSUME NEW m \in 0 .. n - 1, m \in B PROVE m + 1 \in B
    <3>1. n - m \in 1 .. n /\ (n - m) - 1 = n - (m + 1) /\ m + 1 \in 0 .. n /\ n - m \in 0 .. n
          /\ n - (m + 1) \in 0 .. n /\ n \in 0 .. n
      BY <1>1
    <3>2. Within(g[(n - m) - 1], g[n - m]) BY <1>7, <3>1
    <3>3. Within(g[n - (m + 1)], g[n - m]) BY <3>1, <3>2
    <3>4. Within(g[n - m], g[n]) BY <2>2
    <3>5. Within(g[n - (m + 1)], g[n]) BY <1>6, <3>1, <3>3, <3>4, WithinTrans
    <3> QED BY <3>1, <3>5
  <2>3. 0 .. n \subseteq B
    <3> HIDE DEF B
    <3> QED BY <1>1, <2>1, <2>2, UpTo
  <2> TAKE i \in 0 .. n
  <2>4. n - i \in 0 .. n /\ n - (n - i) = i BY <1>1
  <2>5. n - i \in B BY <2>3, <2>4
  <2> QED BY <2>4, <2>5
<1> DEFINE A == {i \in 0 .. n : \A k \in 1 .. Len(g[i]) : g[i][k].do \in Does}
<1>9. 0 \in A
  <2>1. Len(<<>>) = 0 OBVIOUS
  <2>2. 0 \in 0 .. n /\ Len(g[0]) = 0 BY <1>1, <1>6, <2>1
  <2> QED BY <2>2
<1>10. ASSUME NEW m \in 0 .. n - 1, m \in A PROVE m + 1 \in A
  <2>1. m + 1 \in 1 .. n /\ (m + 1) - 1 = m /\ m + 1 \in 0 .. n BY <1>1
  <2>2. IsDone(g[m]) /\ IsDone(w[m + 1]) BY <1>2, <1>6, <1>10, <2>1 DEF IsDone
  <2>3. g[m + 1] = g[m] \o w[m + 1] BY <1>6, <2>1
  <2>4. IsDone(g[m + 1]) BY <2>2, <2>3, DoneConcat
  <2> QED BY <2>1, <2>4 DEF IsDone
<1>11. 0 .. n \subseteq A
  <2> HIDE DEF A
  <2> QED BY <1>1, <1>9, <1>10, UpTo
<1>12. IsDone(flat)
  <2>1. n \in 0 .. n BY <1>1
  <2> QED BY <1>5, <1>6, <1>11, <2>1 DEF IsDone
<1>13. IsDone(open) /\ IsDone(close) /\ Len(open) = 1 /\ open[1] = [do |-> "open"] /\ Len(close) = 1
  <2>1. [do |-> "open"].do \in Does /\ [do |-> "close"].do \in Does BY DEF Does
  <2> QED BY <2>1, DoneOne
<1>14. v = open \o flat \o close BY DEF Visits, flat, pieces
<1> HIDE DEF v, open, close
<1> DEFINE front == open \o flat
<1>15. IsDone(front) BY <1>12, <1>13, DoneConcat
<1>16. /\ Len(front) = 1 + Len(flat) /\ front[1] = [do |-> "open"]
       /\ \A k \in 1 .. Len(flat) : front[1 + k] = flat[k]
  <2>1. /\ Len(front) = Len(open) + Len(flat) /\ Within(open, front)
        /\ \A k \in 1 .. Len(flat) : front[Len(open) + k] = flat[k]
    <3>1. IsList(open) /\ IsList(flat) BY <1>12, <1>13 DEF IsDone
    <3> QED BY <3>1, ListConcat
  <2>2. 1 \in 1 .. Len(open) BY <1>13
  <2> QED BY <1>13, <2>1, <2>2 DEF Within
<1>17. IsDone(v) /\ Len(v) = Len(front) + 1 /\ Within(front, v)
  <2>1. v = front \o close BY <1>14
  <2> HIDE DEF front
  <2>2. IsDone(v) BY <1>13, <1>15, <2>1, DoneConcat
  <2>3. Len(v) = Len(front) + Len(close) /\ Within(front, v)
    BY <1>13, <1>15, <2>1, ListConcat DEF IsDone
  <2> QED BY <1>13, <2>2, <2>3
<1> HIDE DEF front
<1>18. Len(flat) \in Nat /\ Len(flat) = Len(g[n]) BY <1>1, <1>5, <1>6
<1>19. v[1] = [do |-> "open"]
  <2>1. 1 \in 1 .. Len(front) BY <1>16, <1>18
  <2> QED BY <1>16, <1>17, <2>1 DEF Within
<1> DEFINE pos == [i \in 0 .. n |-> 1 + Len(g[i])]
<1>20. pos[0] = 1
  <2>1. 0 \in 0 .. n /\ Len(<<>>) = 0 BY <1>1
  <2> QED BY <1>6, <2>1
<1>21. ASSUME NEW i \in 0 .. n PROVE pos[i] \in 1 .. Len(v) - 1
  <2>1. Len(g[i]) <= Len(g[n]) /\ Len(g[i]) \in Nat BY <1>6, <1>8 DEF Within
  <2> QED BY <1>16, <1>17, <1>18, <2>1
<1>22. ASSUME NEW i \in 1 .. n PROVE pos[i] = pos[i - 1] + Len(w[i])
  <2>1. i - 1 \in 0 .. n /\ i \in 0 .. n BY <1>1
  <2>2. Len(g[i]) = Len(g[i - 1]) + Len(w[i]) /\ Len(g[i - 1]) \in Nat /\ Len(w[i]) \in Nat
    BY <1>3, <1>6, <1>7, <2>1
  <2>3. pos[i] = 1 + Len(g[i]) /\ pos[i - 1] = 1 + Len(g[i - 1]) BY <2>1
  <2> DEFINE a == Len(g[i - 1])
             b == Len(w[i])
  <2>4. a \in Nat /\ b \in Nat /\ pos[i] = 1 + (a + b) /\ pos[i - 1] = 1 + a BY <2>2, <2>3
  <2> HIDE DEF pos, a
  <2>5. pos[i] = pos[i - 1] + b
    <3> HIDE DEF b
    <3> QED BY <2>4
  <2> QED BY <2>5
<1>23. ASSUME NEW i \in 1 .. n, NEW m \in 1 .. Len(w[i]) PROVE v[pos[i - 1] + m] = w[i][m]
  <2>1. i - 1 \in 0 .. n /\ i \in 0 .. n BY <1>1
  <2>2. Len(g[i]) = Len(g[i - 1]) + Len(w[i]) /\ Len(g[i - 1]) \in Nat /\ Len(w[i]) \in Nat
        /\ g[i][Len(g[i - 1]) + m] = w[i][m]
    BY <1>3, <1>6, <1>7, <2>1
  <2> DEFINE k == Len(g[i - 1]) + m
  <2>3. k \in 1 .. Len(g[i]) /\ pos[i - 1] + m = 1 + k BY <2>1, <2>2
  <2>4. Within(g[i], g[n]) /\ Len(g[i]) \in Nat BY <1>6, <1>8, <2>1
  <2> HIDE DEF k
  <2>5. k \in 1 .. Len(flat) /\ flat[k] = g[i][k] BY <1>5, <1>18, <2>3, <2>4 DEF Within
  <2>6. front[1 + k] = flat[k] /\ 1 + k \in 1 .. Len(front) BY <1>16, <1>18, <2>5
  <2>7. v[1 + k] = front[1 + k] BY <1>17, <2>6 DEF Within
  <2> QED BY <2>2, <2>3, <2>5, <2>6, <2>7 DEF k
<1> HIDE DEF pos
<1>24. Divides(body, v, pos) BY <1>2, <1>20, <1>21, <1>22, <1>23 DEF Divides, Width, n
<1> QED BY <1>17, <1>19, <1>24 DEF v

(* Functions by recursion over the statements or the visits of a lambda.   *)
Result(op, l, r) == IF Defined(op, l, r) THEN Apply(op, l, r) ELSE Void
Exec(env, h, d) ==
  IF d.do = "value" THEN Append(h, d.v)
  ELSE IF d.do = "get" THEN Append(h, env[Innermost(env, d.name)][d.name])
  ELSE IF d.do = "callee" THEN Append(h, Native(d.fn))
  ELSE IF d.do = "emit" /\ d.op # "CALL"
       THEN Append(SubSeq(h, 1, Len(h) - 2), Result(d.op, h[Len(h) - 1], h[Len(h)]))
  ELSE h
Values(env, w) ==
  LET after[k \in 0 .. Len(w)] == IF k = 0 THEN <<>> ELSE Exec(env, after[k - 1], w[k])
  IN after
StartOf(k) == IF k.goes = "run" THEN Nothing ELSE IF k.goes = "pass" THEN <<{}>> ELSE <<>>
GoStep(k, x, y) ==
  IF k.goes = "run" THEN RunStatement(x, y) ELSE IF k.goes = "pass" THEN PassStatement(x, y)
  ELSE Exec(k.env, x, y)
GoOnce(k, w, g, i) == IF i = 0 THEN StartOf(k) ELSE GoStep(k, g[i - 1], w[i])
Going(k, w, n) == CHOOSE g : g = [i \in 0 .. n |-> GoOnce(k, w, g, i)]
GoesTo(k, w, n, g) == g[0] = StartOf(k) /\ \A i \in 1 .. n : g[i] = GoStep(k, g[i - 1], w[i])

LEMMA GoingGoes == ASSUME NEW k, NEW w, NEW n \in Nat PROVE GoesTo(k, w, n, Going(k, w, n))
<1> DEFINE P(g) == g = [i \in 0 .. n |-> GoOnce(k, w, g, i)]
           U == {m \in 0 .. n : \E g : \A i \in 0 .. m : g[i] = GoOnce(k, w, g, i)}
<1>1. 0 \in U
  <2> DEFINE g == [i \in {0} |-> StartOf(k)]
  <2>1. \A i \in 0 .. 0 : i = 0 /\ g[i] = StartOf(k) OBVIOUS
  <2> HIDE DEF g
  <2>2. \A i \in 0 .. 0 : g[i] = GoOnce(k, w, g, i) BY <2>1 DEF GoOnce
  <2>3. \E x : \A i \in 0 .. 0 : x[i] = GoOnce(k, w, x, i) BY <2>2
  <2> QED BY <2>3
<1>2. ASSUME NEW m \in 0 .. n - 1, m \in U PROVE m + 1 \in U
  <2>1. PICK g : \A i \in 0 .. m : g[i] = GoOnce(k, w, g, i) BY <1>2
  <2> DEFINE h == [i \in 0 .. m + 1 |-> IF i = m + 1 THEN GoStep(k, g[m], w[m + 1]) ELSE g[i]]
  <2>2. m \in Nat OBVIOUS
  <2>3. ASSUME NEW i \in 0 .. m + 1 PROVE h[i] = GoOnce(k, w, h, i)
    <3>1. CASE i = 0
      <4>1. h[i] = g[i] /\ g[i] = GoOnce(k, w, g, i) BY <2>1, <2>2, <3>1
      <4> QED BY <3>1, <4>1 DEF GoOnce
    <3>2. CASE i = m + 1
      <4>1. h[m] = g[m] /\ i - 1 = m /\ i # 0 BY <2>2, <3>2
      <4> QED BY <3>2, <4>1 DEF GoOnce
    <3>3. CASE i # 0 /\ i # m + 1
      <4>1. i - 1 \in 0 .. m /\ i \in 0 .. m /\ i # m + 1 /\ i - 1 # m + 1 /\ i - 1 \in 0 .. m + 1
        BY <2>2, <3>3
      <4>2. h[i] = g[i] /\ h[i - 1] = g[i - 1] BY <4>1
      <4> HIDE DEF h
      <4>3. g[i] = GoStep(k, g[i - 1], w[i]) BY <2>1, <3>3, <4>1 DEF GoOnce
      <4> QED BY <3>3, <4>2, <4>3 DEF GoOnce
    <3> QED BY <3>1, <3>2, <3>3
  <2> HIDE DEF h
  <2>4. \E x : \A i \in 0 .. m + 1 : x[i] = GoOnce(k, w, x, i) BY <2>3
  <2> QED BY <2>2, <2>4
<1>3. 0 .. n \subseteq U
  <2> HIDE DEF U
  <2> QED BY <1>1, <1>2, UpTo
<1>4. PICK g : \A i \in 0 .. n : g[i] = GoOnce(k, w, g, i)
  <2>1. n \in U BY <1>3
  <2> QED BY <2>1
<1> DEFINE h == [i \in 0 .. n |-> g[i]]
<1>5. \A i \in 0 .. n : h[i] = GoOnce(k, w, h, i)
  <2> TAKE i \in 0 .. n
  <2>1. CASE i = 0 BY <1>4, <2>1 DEF GoOnce
  <2>2. CASE i # 0
    <3>1. i - 1 \in 0 .. n BY <2>2
    <3>2. h[i] = g[i] /\ h[i - 1] = g[i - 1] BY <3>1
    <3> HIDE DEF h
    <3> QED BY <1>4, <2>2, <3>2 DEF GoOnce
  <2> QED BY <2>1, <2>2
<1>6. P(h)
  <2>1. h = [i \in 0 .. n |-> h[i]] OBVIOUS
  <2> HIDE DEF h
  <2> QED BY <1>5, <2>1, Zenon
<1> DEFINE u == Going(k, w, n)
<1>7. u = CHOOSE x : P(x) BY DEF Going
<1> HIDE DEF u
<1>8. P(u)
  <2> HIDE DEF P, h
  <2> QED BY <1>6, <1>7
<1>9. \A i \in 0 .. n : u[i] = GoOnce(k, w, u, i) BY <1>8, Zenon
<1>10. u[0] = StartOf(k) BY <1>9 DEF GoOnce
<1>11. ASSUME NEW i \in 1 .. n PROVE u[i] = GoStep(k, u[i - 1], w[i])
  <2>1. i \in 0 .. n /\ i # 0 OBVIOUS
  <2> QED BY <1>9, <2>1 DEF GoOnce
<1> QED BY <1>10, <1>11 DEF GoesTo, u

RunsTo(r, body) == r[0] = Nothing /\ \A i \in 1 .. Len(body) : r[i] = RunStatement(r[i - 1], body[i])
PassesTo(s, body) == s[0] = <<{}>> /\ \A i \in 1 .. Len(body) : s[i] = PassStatement(s[i - 1], body[i])
ExecsTo(h, env, w) == h[0] = <<>> /\ \A k \in 1 .. Len(w) : h[k] = Exec(env, h[k - 1], w[k])

LEMMA RunsGo == ASSUME NEW body, IsList(body) PROVE RunsTo(Runs(body), body)
<1> DEFINE k == [goes |-> "run"]
           n == Len(body)
<1>1. n \in Nat BY ListIs
<1>2. Runs(body) = Going(k, body, n) BY DEF Runs, Going, GoOnce, StartOf, GoStep
<1>3. \A x, y : GoStep(k, x, y) = RunStatement(x, y) BY DEF GoStep
<1>4. StartOf(k) = Nothing BY DEF StartOf
<1> HIDE DEF k, n
<1> QED BY <1>1, <1>2, <1>3, <1>4, GoingGoes DEF GoesTo, RunsTo, n

LEMMA ScopesPass == ASSUME NEW body, IsList(body) PROVE PassesTo(Scopes(body), body)
<1> DEFINE k == [goes |-> "pass"]
           n == Len(body)
<1>1. n \in Nat BY ListIs
<1>2. Scopes(body) = Going(k, body, n) BY DEF Scopes, Going, GoOnce, StartOf, GoStep
<1>3. \A x, y : GoStep(k, x, y) = PassStatement(x, y) BY DEF GoStep
<1>4. StartOf(k) = <<{}>> BY DEF StartOf
<1> HIDE DEF k, n
<1> QED BY <1>1, <1>2, <1>3, <1>4, GoingGoes DEF GoesTo, PassesTo, n

LEMMA ValuesGo == ASSUME NEW w, IsList(w), NEW env PROVE ExecsTo(Values(env, w), env, w)
<1> DEFINE k == [goes |-> "values", env |-> env]
           n == Len(w)
<1>1. n \in Nat BY ListIs
<1>2. Values(env, w) = Going(k, w, n) BY DEF Values, Going, GoOnce, StartOf, GoStep
<1>3. \A x, y : GoStep(k, x, y) = Exec(env, x, y) BY DEF GoStep
<1>4. StartOf(k) = <<>> BY DEF StartOf
<1> HIDE DEF k, n
<1> QED BY <1>1, <1>2, <1>3, <1>4, GoingGoes DEF GoesTo, ExecsTo, n

-------------------------------------------------------------------------------
(* The arithmetic of the machine is that of the meaning.                   *)

LEMMA ListEqual ==
  ASSUME NEW s, IsList(s), NEW t, IsList(t), Len(s) = Len(t), \A i \in 1 .. Len(s) : s[i] = t[i]
  PROVE  s = t
<1>1. PICK S : s \in Seq(S) BY DEF IsList
<1>2. PICK T : t \in Seq(T) BY DEF IsList
<1>3. S \subseteq S \cup T /\ T \subseteq S \cup T OBVIOUS
<1>4. s \in Seq(S \cup T) /\ t \in Seq(S \cup T) BY <1>1, <1>2, <1>3, SeqMonotonic
<1> QED BY <1>4, SeqEqual

LEMMA TakeTwo ==
  ASSUME NEW s, IsList(s), NEW a, NEW b
  PROVE  LET t == Append(Append(s, a), b) IN
         /\ IsList(t) /\ Len(t) = Len(s) + 2 /\ t[Len(t) - 1] = a /\ t[Len(t)] = b
         /\ SubSeq(t, 1, Len(t) - 2) = s
<1> DEFINE r == Append(s, a)
           t == Append(r, b)
           q == SubSeq(t, 1, Len(s))
<1>0. Len(s) \in Nat BY ListIs
<1>1. IsList(r) /\ Len(r) = Len(s) + 1 /\ Within(s, r) /\ r[Len(s) + 1] = a BY ListAppend
<1> HIDE DEF r
<1>2. IsList(t) /\ Len(t) = Len(r) + 1 /\ Within(r, t) /\ t[Len(r) + 1] = b BY <1>1, ListAppend
<1> HIDE DEF t
<1>3. Len(t) = Len(s) + 2 BY <1>0, <1>1, <1>2
<1>4. t[Len(t)] = b BY <1>2
<1>5. t[Len(t) - 1] = a
  <2>1. Len(s) + 1 \in 1 .. Len(r) /\ Len(t) - 1 = Len(s) + 1 BY <1>0, <1>1, <1>3
  <2> QED BY <1>1, <1>2, <2>1 DEF Within
<1>6. Len(s) \in 0 .. Len(t) BY <1>0, <1>3
<1>7. IsList(q) /\ Len(q) = Len(s) /\ \A i \in 1 .. Len(s) : q[i] = t[i] BY <1>2, <1>6, ListIs
<1> HIDE DEF q
<1>8. \A i \in 1 .. Len(s) : q[i] = s[i]
  <2> TAKE i \in 1 .. Len(s)
  <2>1. i \in 1 .. Len(r) BY <1>0, <1>1
  <2> QED BY <1>1, <1>2, <1>7, <2>1 DEF Within
<1>9. q = s BY <1>7, <1>8, ListEqual
<1>10. Len(t) - 2 = Len(s) BY <1>0, <1>3
<1> QED BY <1>2, <1>3, <1>4, <1>5, <1>9, <1>10 DEF q, t, r

Sorts == {"int", "long", "uint64", "double", "str"}
Arithmetic == {"ADD", "SUBTRACT", "MULTIPLY", "DIVIDE"}

Numbers(l, r) == {l.kind, r.kind} \subseteq {"int", "double"}
Mixed(l, r) == (l.kind = "int" /\ r.kind = "long") \/ (l.kind \in {"long", "uint64"} /\ r.kind = "double")
Strings(l, r) == l.kind = "str" /\ r.kind = "str"
Reckoned(op, l, r) ==
  \/ op = "+" /\ (Numbers(l, r) \/ Mixed(l, r))
  \/ op \in {"-", "*"} /\ Numbers(l, r)
  \/ op = "/" /\ Numbers(l, r) /\ r.val # Zero

(* The pairs of kinds the machine has handlers for.                        *)
LEMMA KindsOfPairs ==
  ASSUME NEW l, NEW r
  PROVE  /\ <<l.kind, r.kind>> \in Common <=> Numbers(l, r)
         /\ <<l.kind, r.kind>> \in Sums <=> (Numbers(l, r) \/ Mixed(l, r) \/ Strings(l, r))
         /\ Numbers(l, r) \/ Mixed(l, r) => l.kind # "str"
<1> DEFINE a == l.kind
           b == r.kind
<1>1. Numbers(l, r) <=> (a \in {"int", "double"} /\ b \in {"int", "double"}) BY DEF Numbers
<1>2. Mixed(l, r) <=> ((a = "int" /\ b = "long") \/ (a \in {"long", "uint64"} /\ b = "double")) BY DEF Mixed
<1>3. Strings(l, r) <=> (a = "str" /\ b = "str") BY DEF Strings
<1> HIDE DEF a, b
<1>4. <<a, b>> \in Common <=> (a \in {"int", "double"} /\ b \in {"int", "double"}) BY DEF Common
<1>5. <<a, b>> \in Sums <=>
        \/ <<a, b>> \in Common
        \/ a = "int" /\ b = "long"
        \/ a = "long" /\ b = "double"
        \/ a = "uint64" /\ b = "double"
        \/ a = "str" /\ b = "str"
  BY DEF Sums
<1>6. /\ <<a, b>> \in Common <=> Numbers(l, r)
      /\ <<a, b>> \in Sums <=> (Numbers(l, r) \/ Mixed(l, r) \/ Strings(l, r))
      /\ Numbers(l, r) \/ Mixed(l, r) => a # "str"
  BY <1>1, <1>2, <1>3, <1>4, <1>5
<1> QED BY <1>6 DEF a, b

LEMMA ResultIs ==
  ASSUME NEW l, NEW r, NEW op, op \in {"+", "-", "*", "/"}
  PROVE  /\ Operator(op) \in Arithmetic
         /\ Reckoned(op, l, r) => Result(Operator(op), l, r) = Double(Arith(Operator(op), l, r))
         /\ Strings(l, r) /\ op = "+" => Result(Operator(op), l, r) = Str(l.val \o r.val)
         /\ ~Reckoned(op, l, r) /\ ~(Strings(l, r) /\ op = "+") => Result(Operator(op), l, r) = Void
<1> DEFINE o == Operator(op)
<1>1. /\ op = "+" => o = "ADD"
      /\ op = "-" => o = "SUBTRACT"
      /\ op = "*" => o = "MULTIPLY"
      /\ op = "/" => o = "DIVIDE"
  BY DEF Operator
<1> HIDE DEF o
<1>2. /\ o = "ADD" => (Defined(o, l, r) <=> <<l.kind, r.kind>> \in Sums)
      /\ o \in {"SUBTRACT", "MULTIPLY"} => (Defined(o, l, r) <=> <<l.kind, r.kind>> \in Common)
      /\ o = "DIVIDE" => (Defined(o, l, r) <=> (<<l.kind, r.kind>> \in Common /\ r.val # Zero))
  BY DEF Defined
<1>3. Defined(o, l, r) <=> (Reckoned(op, l, r) \/ (Strings(l, r) /\ op = "+"))
  BY <1>1, <1>2, KindsOfPairs DEF Reckoned
<1>4. Reckoned(op, l, r) => l.kind # "str" BY KindsOfPairs DEF Reckoned
<1>5. l.kind # "str" => Apply(o, l, r) = Double(Arith(o, l, r)) BY DEF Apply
<1>6. l.kind = "str" => Apply(o, l, r) = Str(l.val \o r.val) BY DEF Apply
<1>7. Strings(l, r) => l.kind = "str" BY DEF Strings
<1>8. /\ Defined(o, l, r) => Result(o, l, r) = Apply(o, l, r)
      /\ ~Defined(o, l, r) => Result(o, l, r) = Void
  BY DEF Result
<1>9. o \in Arithmetic BY <1>1 DEF Arithmetic
<1> QED BY <1>3, <1>4, <1>5, <1>6, <1>7, <1>8, <1>9 DEF o

LEMMA ResultKind ==
  ASSUME NEW l, NEW r, NEW op, op \in {"+", "-", "*", "/"}
  PROVE  Result(Operator(op), l, r).kind \in Sorts \cup {"void"}
<1>0. \A x : Double(x).kind = "double" /\ Str(x).kind = "str" /\ Void.kind = "void" BY DEF Double, Str, Void
<1>1. CASE Reckoned(op, l, r) BY <1>0, <1>1, ResultIs DEF Sorts
<1>2. CASE Strings(l, r) /\ op = "+" BY <1>0, <1>2, ResultIs DEF Sorts
<1>3. CASE ~Reckoned(op, l, r) /\ ~(Strings(l, r) /\ op = "+") BY <1>0, <1>3, ResultIs
<1> QED BY <1>1, <1>2, <1>3

LEMMA MeaningOfBin ==
  ASSUME NEW typed, NEW e \in Trees, e.ex = "bin"
  PROVE  Meaning(typed)[e] = Result(Operator(e.op), Meaning(typed)[e.l], Meaning(typed)[e.r])
<1> DEFINE f == Meaning(typed)
           l == f[e.l]
           r == f[e.r]
           op == e.op
           value == MeaningOnce(typed, e, f)
           o == Operator(op)
<1>1. f[e] = value BY MeaningIs
<1>2. op \in {"+", "-", "*", "/"} BY TreeParts
<1>3. e.ex # "lit" OBVIOUS
<1>4. ASSUME Numbers(l, r) \/ Mixed(l, r), op = "+" PROVE value = Double(Arith("ADD", l, r))
  BY <1>3, <1>4 DEF MeaningOnce, Numbers, Mixed
<1>5. ASSUME Numbers(l, r), op = "-" PROVE value = Double(Arith("SUBTRACT", l, r))
  BY <1>3, <1>5 DEF MeaningOnce, Numbers
<1>6. ASSUME Numbers(l, r), op = "*" PROVE value = Double(Arith("MULTIPLY", l, r))
  BY <1>3, <1>6 DEF MeaningOnce, Numbers
<1>7. ASSUME Numbers(l, r), op = "/", r.val # Zero PROVE value = Double(Arith("DIVIDE", l, r))
  BY <1>3, <1>7 DEF MeaningOnce, Numbers
<1>8. ASSUME Strings(l, r), op = "+" PROVE value = Str(l.val \o r.val)
  <2>1. ~Numbers(l, r) /\ ~Mixed(l, r) BY <1>8, KindsOfPairs DEF Strings
  <2> QED BY <1>3, <1>8, <2>1 DEF MeaningOnce, Numbers, Mixed, Strings
<1>9. ASSUME ~Reckoned(op, l, r), ~(Strings(l, r) /\ op = "+") PROVE value = Void
  BY <1>2, <1>3, <1>9 DEF MeaningOnce, Numbers, Mixed, Strings, Reckoned
<1>10. /\ op = "+" => o = "ADD"
       /\ op = "-" => o = "SUBTRACT"
       /\ op = "*" => o = "MULTIPLY"
       /\ op = "/" => o = "DIVIDE"
  BY DEF Operator
<1> SUFFICES value = Result(o, l, r) BY <1>1
<1>11. /\ Reckoned(op, l, r) => Result(o, l, r) = Double(Arith(o, l, r))
       /\ Strings(l, r) /\ op = "+" => Result(o, l, r) = Str(l.val \o r.val)
       /\ ~Reckoned(op, l, r) /\ ~(Strings(l, r) /\ op = "+") => Result(o, l, r) = Void
  BY <1>2, ResultIs
<1> HIDE DEF l, r, op, o, value
<1>12. ASSUME Reckoned(op, l, r) PROVE value = Double(Arith(o, l, r))
  <2>1. CASE op = "+" BY <1>4, <1>10, <1>12, <2>1 DEF Reckoned
  <2>2. CASE op = "-" BY <1>5, <1>10, <1>12, <2>2 DEF Reckoned
  <2>3. CASE op = "*" BY <1>6, <1>10, <1>12, <2>3 DEF Reckoned
  <2>4. CASE op = "/" BY <1>7, <1>10, <1>12, <2>4 DEF Reckoned
  <2> QED BY <1>2, <2>1, <2>2, <2>3, <2>4
<1> QED BY <1>8, <1>9, <1>11, <1>12

(* What the machine's stack goes through while a plain tree is computed.   *)
Placed(w, p, t) == p \in Nat /\ Len(w) \in Nat /\ p + Len(t) <= Len(w) /\ \A k \in 1 .. Len(t) : w[p + k] = t[k]
Computes(d, h) ==
  \/ d.do = "value" /\ d.v.kind \in Sorts
  \/ d.do = "emit" /\ d.op \in Arithmetic /\ Len(h) >= 2
Evaluated(m, n, h, w, p) ==
  /\ h[p + n] = Append(h[p], m)
  /\ \A k \in 1 .. n : /\ IsList(h[p + k]) /\ Len(h[p + k]) > Len(h[p])
                       /\ Computes(w[p + k], h[p + k - 1])
Evaluates(typed, e) ==
  \A h, env, w, p :
    ExecsTo(h, env, w) /\ IsList(h[p]) /\ Placed(w, p, Turned(typed, e))
    => Evaluated(Meaning(typed)[e], Len(Turned(typed, e)), h, w, p)

LEMMA PlacedParts ==
  ASSUME NEW w, NEW p, NEW s, NEW t, IsList(s), IsList(t), Placed(w, p, s \o t)
  PROVE  Placed(w, p, s) /\ Placed(w, p + Len(s), t) /\ Len(s \o t) = Len(s) + Len(t)
<1>1. /\ Len(s \o t) = Len(s) + Len(t) /\ Within(s, s \o t)
      /\ \A i \in 1 .. Len(t) : (s \o t)[Len(s) + i] = t[i]
  BY ListConcat
<1>2. Len(s) \in Nat /\ Len(t) \in Nat BY ListIs
<1> DEFINE r == s \o t
<1>3. Placed(w, p, r) /\ Len(r) = Len(s) + Len(t) /\ Within(s, r)
      /\ \A i \in 1 .. Len(t) : r[Len(s) + i] = t[i]
  BY <1>1
<1> HIDE DEF r
<1>4. ASSUME NEW k \in 1 .. Len(s) PROVE w[p + k] = s[k]
  <2>1. k \in 1 .. Len(r) BY <1>2, <1>3
  <2> QED BY <1>3, <2>1 DEF Placed, Within
<1>5. ASSUME NEW k \in 1 .. Len(t) PROVE w[(p + Len(s)) + k] = t[k]
  <2>1. Len(s) + k \in 1 .. Len(r) /\ p \in Nat /\ (p + Len(s)) + k = p + (Len(s) + k)
    BY <1>2, <1>3 DEF Placed
  <2>2. w[p + (Len(s) + k)] = r[Len(s) + k] BY <1>3, <2>1 DEF Placed
  <2> QED BY <1>3, <2>1, <2>2
<1>6. p \in Nat /\ Len(w) \in Nat /\ p + Len(s) <= Len(w) /\ p + Len(s) \in Nat /\ (p + Len(s)) + Len(t) <= Len(w)
  BY <1>2, <1>3 DEF Placed
<1> QED BY <1>3, <1>4, <1>5, <1>6 DEF Placed, r

LEMMA Executed ==
  ASSUME NEW h, NEW env, NEW w, ExecsTo(h, env, w), NEW p \in Nat, p + 1 <= Len(w), Len(w) \in Nat
  PROVE  /\ h[p + 1] = Exec(env, h[p], w[p + 1])
         /\ w[p + 1].do = "value" => h[p + 1] = Append(h[p], w[p + 1].v)
         /\ w[p + 1].do = "emit" /\ w[p + 1].op \in Arithmetic =>
              h[p + 1] = Append(SubSeq(h[p], 1, Len(h[p]) - 2),
                                Result(w[p + 1].op, h[p][Len(h[p]) - 1], h[p][Len(h[p])]))
<1>1. p + 1 \in 1 .. Len(w) /\ (p + 1) - 1 = p OBVIOUS
<1>2. h[p + 1] = Exec(env, h[p], w[p + 1]) BY <1>1 DEF ExecsTo
<1> DEFINE d == w[p + 1]
           g == h[p]
<1> HIDE DEF d, g
<1>3. d.do = "value" => Exec(env, g, d) = Append(g, d.v) BY DEF Exec
<1>4. d.do = "emit" /\ d.op \in Arithmetic =>
        Exec(env, g, d) = Append(SubSeq(g, 1, Len(g) - 2), Result(d.op, g[Len(g) - 1], g[Len(g)]))
  BY DEF Exec, Arithmetic
<1> QED BY <1>2, <1>3, <1>4 DEF d, g

(* The steps of a plain tree leave its value on the stack and nothing else.*)
LEMMA PlainEvaluates ==
  ASSUME NEW typed \in BOOLEAN PROVE \A e \in Trees : Plain[e] => Evaluates(typed, e)
<1> DEFINE A == {e \in Trees : Plain[e] => Evaluates(typed, e)}
<1>1. ASSUME NEW e \in Trees, \A x \in Trees : Depth[x] < Depth[e] => x \in A PROVE e \in A
  <2> SUFFICES ASSUME Plain[e], NEW h, NEW env, NEW w, NEW p,
                      ExecsTo(h, env, w), IsList(h[p]), Placed(w, p, Turned(typed, e))
               PROVE  Evaluated(Meaning(typed)[e], Len(Turned(typed, e)), h, w, p)
    BY DEF Evaluates
  <2>1. Meaning(typed)[e] = MeaningOnce(typed, e, Meaning(typed)) /\ IsTree(e) BY MeaningIs, TreeAssumption
  <2>2. e.ex = "lit" \/ (e.ex = "bin" /\ Plain[e.l] /\ Plain[e.r]) BY PlainIs DEF PlainOnce
  <2>3. p \in Nat /\ Len(w) \in Nat BY DEF Placed
  <2>4. CASE e.ex = "lit"
    <3> DEFINE v == LiteralOf(typed, e)
               d == [do |-> "value", v |-> v]
    <3>1. Turned(typed, e) = <<d>> /\ Meaning(typed)[e] = v
      BY <2>1, <2>4, PlainIsVisited DEF MeaningOnce, LiteralOf
    <3>2. d.do = "value" /\ d.v = v /\ v.kind \in Sorts
      <4>1. e.v.kind \in Sorts BY <2>1, <2>4 DEF IsTree, IsLeaf, LiteralKinds, Sorts
      <4>2. AsDouble(e.v).kind \in {"str", "double"} BY DEF AsDouble
      <4> QED BY <4>1, <4>2 DEF LiteralOf, Sorts
    <3> HIDE DEF v, d
    <3>3. Len(<<d>>) = 1 /\ <<d>>[1] = d OBVIOUS
    <3>4. Len(Turned(typed, e)) = 1 /\ p + 1 <= Len(w) /\ w[p + 1] = d BY <3>1, <3>3 DEF Placed
    <3>5. w[p + 1].do = "value" /\ w[p + 1].v = v BY <3>2, <3>4
    <3>6. h[p + 1] = Append(h[p], v) BY <2>3, <3>4, <3>5, Executed
    <3>7. IsList(h[p + 1]) /\ Len(h[p + 1]) > Len(h[p])
      <4> DEFINE g == h[p]
      <4> HIDE DEF g
      <4>1. IsList(g) BY DEF g
      <4>2. IsList(Append(g, v)) /\ Len(Append(g, v)) = Len(g) + 1 /\ Len(g) \in Nat
        BY <4>1, ListAppend, ListIs
      <4>3. Len(Append(g, v)) > Len(g) BY <4>2
      <4> QED BY <3>6, <4>2, <4>3 DEF g
    <3>8. Computes(w[p + 1], h[p]) BY <3>2, <3>5 DEF Computes
    <3>9. \A k \in 1 .. 1 : k = 1 /\ p + k - 1 = p BY <2>3
    <3> QED BY <3>1, <3>4, <3>6, <3>7, <3>8, <3>9 DEF Evaluated
  <2>5. CASE e.ex = "bin" /\ Plain[e.l] /\ Plain[e.r]
    <3> DEFINE s == Turned(typed, e.l)
               t == Turned(typed, e.r)
               o == <<Operation(e)>>
               a == Len(s)
               b == Len(t)
               x == Meaning(typed)[e.l]
               y == Meaning(typed)[e.r]
               g == h[p]
               m == Result(Operator(e.op), x, y)
    <3>1. Turned(typed, e) = s \o t \o o /\ Meaning(typed)[e] = m BY <2>5, MeaningOfBin, PlainIsVisited
    <3>2. e.l \in Trees /\ e.r \in Trees /\ e.op \in {"+", "-", "*", "/"} /\ Evaluates(typed, e.l) /\ Evaluates(typed, e.r)
      BY <1>1, <2>5, TreeParts
    <3>3. IsList(s) /\ IsList(t) BY <3>2, DoneVariant DEF IsDone, Turned
    <3>4. IsList(o) /\ Len(o) = 1 /\ o[1] = Operation(e)
      <4>1. o \in Seq({Operation(e)}) OBVIOUS
      <4> QED BY <4>1 DEF IsList
    <3>5. Operation(e).do = "emit" /\ Operation(e).op = Operator(e.op) BY DEF Operation
    <3>6. Operator(e.op) \in Arithmetic BY <3>2, ResultIs
    <3>7. Placed(w, p, (s \o t) \o o) BY <3>1
    <3>8. IsList(g) BY DEF g
    <3>9. Len(Turned(typed, e)) = Len((s \o t) \o o) BY <3>1
    <3>20. /\ ExecsTo(h, env, w) /\ IsList(h[p]) /\ Placed(w, p, s)
             => Evaluated(x, a, h, w, p)
           /\ ExecsTo(h, env, w) /\ IsList(h[p + a]) /\ Placed(w, p + a, t)
             => Evaluated(y, b, h, w, p + a)
      BY <3>2 DEF Evaluates
    <3> HIDE DEF s, t, o, x, y, g, m
    <3>10. Placed(w, p, s \o t) /\ Placed(w, p + Len(s \o t), o) /\ Len((s \o t) \o o) = Len(s \o t) + Len(o)
      <4> DEFINE r == s \o t
      <4>1. IsList(r) BY <3>3, ListConcat
      <4>2. Placed(w, p, r \o o) /\ IsList(o) BY <3>4, <3>7
      <4> HIDE DEF r
      <4>3. Placed(w, p, r) /\ Placed(w, p + Len(r), o) /\ Len(r \o o) = Len(r) + Len(o)
        BY <4>1, <4>2, PlacedParts
      <4> QED BY <4>3 DEF r
    <3>11. Placed(w, p, s) /\ Placed(w, p + a, t) /\ Len(s \o t) = a + b BY <3>3, <3>10, PlacedParts
    <3>12. a \in Nat /\ b \in Nat /\ Len(g) \in Nat BY <3>3, <3>8, ListIs
    <3> HIDE DEF a, b
    <3>13. Evaluated(x, a, h, w, p) BY <3>11, <3>20
    <3>14. h[p + a] = Append(g, x) BY <3>13 DEF Evaluated, g
    <3>15. IsList(Append(g, x)) /\ Len(Append(g, x)) = Len(g) + 1 BY <3>8, ListAppend
    <3>16. Evaluated(y, b, h, w, p + a) BY <3>11, <3>14, <3>15, <3>20
    <3>17. h[(p + a) + b] = Append(Append(g, x), y) BY <3>14, <3>16 DEF Evaluated
    <3> DEFINE q == p + a + b
               f == Append(Append(g, x), y)
    <3>18. q \in Nat /\ q + 1 <= Len(w) /\ w[q + 1] = Operation(e) /\ (p + a) + b = q /\ p + Len(s \o t) = q
      <4>1. q \in Nat /\ (p + a) + b = q /\ p + Len(s \o t) = q BY <2>3, <3>11, <3>12
      <4> HIDE DEF q
      <4>2. Placed(w, q, o) BY <3>10, <4>1
      <4>3. 1 \in 1 .. Len(o) BY <3>4
      <4> QED BY <3>4, <4>1, <4>2, <4>3 DEF Placed
    <3>19. IsList(f) /\ Len(f) = Len(g) + 2 /\ f[Len(f) - 1] = x /\ f[Len(f)] = y /\ SubSeq(f, 1, Len(f) - 2) = g
      BY <3>8, TakeTwo
    <3>21. h[q] = f BY <3>17, <3>18
    <3> HIDE DEF q, f
    <3>22. h[q + 1] = Append(g, m)
      <4>1. h[q + 1] = Append(SubSeq(f, 1, Len(f) - 2), Result(Operator(e.op), f[Len(f) - 1], f[Len(f)]))
        <5>1. w[q + 1].do = "emit" /\ w[q + 1].op = Operator(e.op) BY <3>5, <3>18
        <5>2. h[q + 1] = Append(SubSeq(h[q], 1, Len(h[q]) - 2),
                                Result(w[q + 1].op, h[q][Len(h[q]) - 1], h[q][Len(h[q])]))
          <6>1. ExecsTo(h, env, w) /\ q \in Nat /\ q + 1 <= Len(w) /\ Len(w) \in Nat BY <2>3, <3>18
          <6>2. w[q + 1].op \in Arithmetic BY <3>6, <5>1
          <6> QED BY <5>1, <6>1, <6>2, Executed
        <5> QED BY <3>21, <5>1, <5>2
      <4> QED BY <3>19, <4>1 DEF m
    <3>23. Len((s \o t) \o o) = (a + b) + 1 /\ p + ((a + b) + 1) = q + 1
      BY <2>3, <3>4, <3>10, <3>11, <3>12, <3>18
    <3>24. IsList(Append(g, m)) /\ Len(Append(g, m)) = Len(g) + 1 BY <3>8, ListAppend
    <3>25. ASSUME NEW k \in 1 .. (a + b) + 1
           PROVE  /\ IsList(h[p + k]) /\ Len(h[p + k]) > Len(h[p])
                  /\ Computes(w[p + k], h[p + k - 1])
      <4>0. h[p] = g BY DEF g
      <4>1. CASE k \in 1 .. a BY <3>13, <4>1 DEF Evaluated
      <4>2. CASE k \in a + 1 .. a + b
        <5>1. k - a \in 1 .. b /\ (p + a) + (k - a) = p + k /\ (p + a) + (k - a) - 1 = p + k - 1
          BY <2>3, <3>12, <4>2
        <5>2. /\ IsList(h[(p + a) + (k - a)]) /\ Len(h[(p + a) + (k - a)]) > Len(h[p + a])
              /\ Computes(w[(p + a) + (k - a)], h[(p + a) + (k - a) - 1])
          BY <3>16, <5>1 DEF Evaluated
        <5>3. IsList(h[p + k]) /\ Len(h[p + k]) > Len(h[p + a]) /\ Computes(w[p + k], h[p + k - 1])
          BY <5>1, <5>2
        <5>4. Len(h[p + k]) \in Nat /\ Len(h[p + a]) = Len(g) + 1 BY <3>14, <3>15, <5>3, ListIs
        <5>5. Len(h[p + k]) > Len(g) BY <3>12, <5>3, <5>4
        <5> QED BY <4>0, <5>3, <5>5
      <4>3. CASE k = (a + b) + 1
        <5>0. p + k = q + 1 BY <3>23, <4>3
        <5>9. q \in Nat /\ k \in Nat BY <3>12, <3>18
        <5>1. p + k = q + 1 /\ p + (k - 1) = q BY <2>3, <5>0, <5>9
        <5>2. Len(f) >= 2 BY <3>12, <3>19
        <5>3. Computes(w[q + 1], h[q]) BY <3>5, <3>6, <3>18, <3>21, <5>2 DEF Computes
        <5>4. IsList(h[q + 1]) /\ Len(h[q + 1]) > Len(g) BY <3>12, <3>22, <3>24
        <5> QED BY <4>0, <5>1, <5>3, <5>4
      <4> QED BY <3>12, <4>1, <4>2, <4>3
    <3>26. Evaluated(m, (a + b) + 1, h, w, p)
      <4>1. h[p + ((a + b) + 1)] = Append(h[p], m) BY <3>22, <3>23 DEF g
      <4> QED BY <3>25, <4>1 DEF Evaluated
    <3> QED BY <3>1, <3>9, <3>23, <3>26
  <2> QED BY <2>2, <2>4, <2>5
<1>2. Depth \in [Trees -> Nat] BY TreeAssumption
<1>3. Trees \subseteq A
  <2> HIDE DEF A
  <2> QED BY <1>1, <1>2, DepthInduction
<1> QED BY <1>3

(* A value that is undefined stays in the stack until the tree is computed.*)
HasVoid(s) == \E j \in 1 .. Len(s) : s[j].kind = "void"

LEMMA VoidStays ==
  ASSUME NEW h, NEW env, NEW w, ExecsTo(h, env, w), NEW p \in Nat, p + 1 <= Len(w), Len(w) \in Nat,
         IsList(h[p]), Computes(w[p + 1], h[p]), HasVoid(h[p])
  PROVE  HasVoid(h[p + 1])
<1> DEFINE g == h[p]
           d == w[p + 1]
<1>1. Len(g) \in Nat BY ListIs
<1>2. PICK j \in 1 .. Len(g) : g[j].kind = "void" BY DEF HasVoid
<1>3. CASE d.do = "value"
  <2>1. h[p + 1] = Append(g, d.v) BY <1>3, Executed
  <2> HIDE DEF g, d
  <2>2. IsList(g) BY DEF g
  <2>3. Len(Append(g, d.v)) = Len(g) + 1 /\ Within(g, Append(g, d.v)) BY <2>2, ListAppend
  <2>4. Append(g, d.v)[j] = g[j] /\ j \in 1 .. Len(g) + 1 BY <1>1, <2>3 DEF Within
  <2> QED BY <1>2, <2>1, <2>3, <2>4 DEF HasVoid
<1>4. CASE d.do = "emit" /\ d.op \in Arithmetic /\ Len(g) >= 2
  <2> DEFINE n == Len(g) - 2
             f == SubSeq(g, 1, n)
             m == Result(d.op, g[Len(g) - 1], g[Len(g)])
  <2>1. h[p + 1] = Append(f, m)
    <3>1. w[p + 1].do = "emit" /\ w[p + 1].op \in Arithmetic BY <1>4
    <3> QED BY <3>1, Executed
  <2>2. IsList(f) /\ Len(f) = n /\ \A i \in 1 .. n : f[i] = g[i]
    <3>1. n \in 0 .. Len(g) BY <1>1, <1>4
    <3> HIDE DEF n
    <3> QED BY <3>1, ListIs
  <2>3. Len(Append(f, m)) = n + 1 /\ Within(f, Append(f, m)) /\ Append(f, m)[n + 1] = m
    <3> HIDE DEF n, f, m
    <3> QED BY <2>2, ListAppend
  <2>4. n \in Nat BY <1>1, <1>4
  <2>5. CASE j \in 1 .. n
    <3> HIDE DEF f, n, m, g
    <3>1. Append(f, m)[j] = f[j] BY <2>2, <2>3, <2>5 DEF Within
    <3>2. j \in 1 .. n + 1 BY <2>4, <2>5
    <3> QED BY <1>2, <2>1, <2>2, <2>3, <2>5, <3>1, <3>2 DEF HasVoid
  <2>6. CASE j \notin 1 .. n
    <3>1. j = Len(g) - 1 \/ j = Len(g) BY <1>1, <1>2, <1>4, <2>6
    <3>2. m = Void
      <4> DEFINE x == g[Len(g) - 1]
                 y == g[Len(g)]
      <4>1. x.kind = "void" \/ y.kind = "void" BY <1>2, <3>1
      <4> HIDE DEF x, y
      <4>2. ~Numbers(x, y) /\ ~Mixed(x, y) /\ ~Strings(x, y) BY <4>1 DEF Numbers, Mixed, Strings
      <4>5. <<x.kind, y.kind>> \notin Common /\ <<x.kind, y.kind>> \notin Sums BY <4>2, KindsOfPairs
      <4>6. ~Defined(d.op, x, y) BY <4>5 DEF Defined
      <4>3. Result(d.op, x, y) = Void BY <4>6 DEF Result
      <4> QED BY <4>3 DEF x, y
    <3> HIDE DEF m, f, n, g
    <3>3. n + 1 \in 1 .. n + 1 BY <2>4
    <3>4. Void.kind = "void" BY DEF Void
    <3> QED BY <2>1, <2>3, <3>2, <3>3, <3>4 DEF HasVoid
  <2> QED BY <2>5, <2>6
<1> QED BY <1>3, <1>4 DEF Computes

(* A step that yields no value ends the lambda: the meaning fails there.   *)
LEMMA VoidEnds ==
  ASSUME NEW h, NEW env, NEW w, ExecsTo(h, env, w), NEW p \in Nat, Len(w) \in Nat,
         NEW m, NEW n \in Nat, p + n <= Len(w), IsList(h[p]), ~HasVoid(h[p]), Evaluated(m, n, h, w, p),
         NEW k \in 0 .. n, HasVoid(h[p + k])
  PROVE  m.kind = "void"
<1> DEFINE B == {j \in 0 .. n - k : HasVoid(h[(p + k) + j])}
<1>0. n - k \in Nat OBVIOUS
<1>1. 0 \in B
  <2>1. (p + k) + 0 = p + k OBVIOUS
  <2> QED BY <1>0, <2>1
<1>2. ASSUME NEW j \in 0 .. (n - k) - 1, j \in B PROVE j + 1 \in B
  <2> DEFINE q == (p + k) + j
             i == k + j
  <2>1. q \in Nat /\ q + 1 <= Len(w) /\ (p + k) + (j + 1) = q + 1 /\ i \in 0 .. n /\ i + 1 \in 1 .. n
        /\ p + i = q /\ p + (i + 1) = q + 1 /\ p + (i + 1) - 1 = q /\ j + 1 \in 0 .. n - k
    BY <1>0
  <2>2. HasVoid(h[q]) BY <1>2
  <2> HIDE DEF q, i
  <2>3. IsList(h[q])
    <3>1. CASE i = 0
      <4>1. p = q BY <2>1, <3>1
      <4> QED BY <4>1
    <3>2. CASE i # 0
      <4>1. i \in 1 .. n BY <2>1, <3>2
      <4> QED BY <2>1, <4>1 DEF Evaluated
    <3> QED BY <3>1, <3>2
  <2>4. Computes(w[q + 1], h[q]) BY <2>1 DEF Evaluated
  <2>5. HasVoid(h[q + 1]) BY <2>1, <2>2, <2>3, <2>4, VoidStays
  <2> QED BY <2>1, <2>5
<1>3. 0 .. n - k \subseteq B
  <2> HIDE DEF B
  <2> QED BY <1>0, <1>1, <1>2, UpTo
<1>4. HasVoid(h[p + n])
  <2>1. n - k \in 0 .. n - k /\ (p + k) + (n - k) = p + n BY <1>0
  <2>2. n - k \in B
    <3> HIDE DEF B
    <3> QED BY <1>3, <2>1
  <2> QED BY <2>1, <2>2
<1> DEFINE g == h[p]
<1>5. HasVoid(Append(g, m)) BY <1>4 DEF Evaluated
<1>6. IsList(g) /\ Len(g) \in Nat BY ListIs
<1> HIDE DEF g
<1>7. Len(Append(g, m)) = Len(g) + 1 /\ Within(g, Append(g, m)) /\ Append(g, m)[Len(g) + 1] = m
  BY <1>6, ListAppend
<1>8. PICK j \in 1 .. Len(g) + 1 : Append(g, m)[j].kind = "void" BY <1>5, <1>7 DEF HasVoid
<1>9. CASE j = Len(g) + 1 BY <1>7, <1>8, <1>9
<1>10. CASE j # Len(g) + 1
  <2>1. j \in 1 .. Len(g) BY <1>6, <1>10
  <2>2. Append(g, m)[j] = g[j] BY <1>7, <2>1 DEF Within
  <2>3. HasVoid(g) BY <1>8, <2>1, <2>2 DEF HasVoid
  <2> QED BY <2>3 DEF g
<1> QED BY <1>9, <1>10

(* The results of the statements.                                          *)
IsResult(r) == r = [env |-> r.env, out |-> r.out, value |-> r.value, ended |-> r.ended, failed |-> r.failed]
Alive(r) == ~r.ended /\ ~r.failed
Printed(r, e) == [i \in DOMAIN e.args |-> ValueIn(r.env, e.args[i])]
Prints(s) == s.st = "expr" /\ s.e.ex = "call" /\ s.e.fn = "console.info"
Judges(s) == s.st = "expr" /\ s.e.ex \in {"lit", "bin"}
SameResult(r, t) == t.out = r.out /\ t.value = r.value /\ t.ended = r.ended /\ t.failed = r.failed

(* What each statement makes of the result so far.                         *)
LEMMA RunIs ==
  ASSUME NEW r, IsResult(r), NEW s
  PROVE  LET t == RunStatement(r, s) IN
         /\ IsResult(t)
         /\ ~Alive(r) => t = r
         /\ Alive(r) =>
              /\ s.st = "open" => SameResult(r, t) /\ t.env = Append(r.env, <<>>)
              /\ s.st = "close" => SameResult(r, t) /\ t.env = SubSeq(r.env, 1, Len(r.env) - 1)
              /\ s.st \in {"let", "assign", "return"} /\ Fails(s) =>
                   t.failed = TRUE /\ t.out = r.out /\ t.value = r.value /\ t.env = r.env /\ t.ended = r.ended
              /\ s.st = "let" /\ ~Fails(s) =>
                   SameResult(r, t) /\ t.env = Bind(r.env, Len(r.env), s.name, ValueOf(s))
              /\ s.st = "assign" /\ ~Fails(s) =>
                   SameResult(r, t) /\ t.env = Bind(r.env, Innermost(r.env, s.name), s.name, ValueOf(s))
              /\ s.st = "return" /\ ~Fails(s) =>
                   t.ended = TRUE /\ t.value = ValueOf(s) /\ t.out = r.out /\ t.env = r.env /\ t.failed = r.failed
              /\ Judges(s) => /\ t.failed = Fails(s) /\ t.out = r.out /\ t.value = r.value /\ t.env = r.env
                              /\ t.ended = r.ended
              /\ Prints(s) => /\ t.out = r.out \o Printed(r, s.e) /\ t.env = r.env /\ t.value = r.value
                              /\ t.ended = r.ended /\ t.failed = r.failed
              /\ s.st = "expr" /\ ~Judges(s) /\ ~Prints(s) => t = r
<1> DEFINE t == RunStatement(r, s)
<1>1. ASSUME ~Alive(r) PROVE t = r BY <1>1 DEF RunStatement, Alive
<1> DEFINE bad == s.st \in {"let", "assign", "return"} /\ Fails(s)
<1>2. ASSUME Alive(r), bad PROVE t = [r EXCEPT !.failed = TRUE] BY <1>2 DEF RunStatement, Alive
<1>3. ASSUME Alive(r), ~bad, s.st = "open" PROVE t = [r EXCEPT !.env = Append(r.env, <<>>)]
  BY <1>3 DEF RunStatement, Alive
<1>4. ASSUME Alive(r), ~bad, s.st = "close" PROVE t = [r EXCEPT !.env = SubSeq(r.env, 1, Len(r.env) - 1)]
  BY <1>4 DEF RunStatement, Alive
<1>5. ASSUME Alive(r), ~bad, s.st = "let" PROVE t = [r EXCEPT !.env = Bind(r.env, Len(r.env), s.name, ValueOf(s))]
  BY <1>5 DEF RunStatement, Alive
<1>6. ASSUME Alive(r), ~bad, s.st = "assign"
      PROVE  t = [r EXCEPT !.env = Bind(r.env, Innermost(r.env, s.name), s.name, ValueOf(s))]
  BY <1>6 DEF RunStatement, Alive
<1>7. ASSUME Alive(r), ~bad, s.st = "return" PROVE t = [r EXCEPT !.ended = TRUE, !.value = ValueOf(s)]
  BY <1>7 DEF RunStatement, Alive
<1>8. ASSUME Alive(r), ~bad, Judges(s) PROVE t = [r EXCEPT !.failed = Fails(s)]
  BY <1>8 DEF RunStatement, Alive, Judges
<1>9. ASSUME Alive(r), ~bad, Prints(s) PROVE t = [r EXCEPT !.out = r.out \o Printed(r, s.e)]
  BY <1>9 DEF RunStatement, Alive, Prints, Printed
<1>10. ASSUME Alive(r), s.st = "expr", ~Judges(s), ~Prints(s) PROVE t = r
  BY <1>10 DEF RunStatement, Alive, Prints, Judges
<1>11. ASSUME Alive(r), s.st \notin {"expr", "let", "assign", "return", "open", "close"} PROVE t = r
  BY <1>11 DEF RunStatement, Alive, Prints, Judges
<1>12. r = [env |-> r.env, out |-> r.out, value |-> r.value, ended |-> r.ended, failed |-> r.failed]
  BY DEF IsResult
<1>13. ASSUME NEW x PROVE [r EXCEPT !.env = x] = [env |-> x, out |-> r.out, value |-> r.value, ended |-> r.ended, failed |-> r.failed]
  BY <1>12
<1>14. ASSUME NEW x PROVE [r EXCEPT !.failed = x] = [env |-> r.env, out |-> r.out, value |-> r.value, ended |-> r.ended, failed |-> x]
  BY <1>12
<1>15. ASSUME NEW x PROVE [r EXCEPT !.out = x] = [env |-> r.env, out |-> x, value |-> r.value, ended |-> r.ended, failed |-> r.failed]
  BY <1>12
<1>16. ASSUME NEW x PROVE [r EXCEPT !.ended = TRUE, !.value = x] = [env |-> r.env, out |-> r.out, value |-> x, ended |-> TRUE, failed |-> r.failed]
  <2> DEFINE q == [r EXCEPT !.ended = TRUE]
  <2>1. q = [env |-> r.env, out |-> r.out, value |-> r.value, ended |-> TRUE, failed |-> r.failed]
    <3>1. ASSUME NEW y
          PROVE  [r EXCEPT !.ended = y] = [env |-> r.env, out |-> r.out, value |-> r.value, ended |-> y, failed |-> r.failed]
      BY <1>12
    <3> QED BY <3>1, Zenon
  <2>2. [r EXCEPT !.ended = TRUE, !.value = x] = [q EXCEPT !.value = x] OBVIOUS
  <2> HIDE DEF q
  <2>3. q.env = r.env /\ q.out = r.out /\ q.value = r.value /\ q.ended = TRUE /\ q.failed = r.failed
    BY <2>1
  <2>4. q = [env |-> q.env, out |-> q.out, value |-> q.value, ended |-> q.ended, failed |-> q.failed]
    BY <2>1, <2>3
  <2>5. [q EXCEPT !.value = x] = [env |-> q.env, out |-> q.out, value |-> x, ended |-> q.ended, failed |-> q.failed]
    BY <2>4
  <2> QED BY <2>2, <2>3, <2>5
<1> HIDE DEF t
<1>17. CASE ~Alive(r)
  <2>1. IsResult(t) /\ t = r BY <1>1, <1>17
  <2> QED BY <1>17, <2>1 DEF t
<1>18. CASE Alive(r) /\ bad
  <2>1. t = [env |-> r.env, out |-> r.out, value |-> r.value, ended |-> r.ended, failed |-> TRUE]
    BY <1>2, <1>14, <1>18
  <2>2. IsResult(t) /\ t.failed = TRUE /\ t.out = r.out /\ t.value = r.value /\ t.env = r.env /\ t.ended = r.ended
    BY <2>1 DEF IsResult
  <2> QED BY <1>18, <2>2 DEF t, Judges, Prints
<1>19. CASE Alive(r) /\ ~bad /\ s.st = "open"
  <2> DEFINE x == Append(r.env, <<>>)
  <2> HIDE DEF x
  <2>1. t = [env |-> x, out |-> r.out, value |-> r.value, ended |-> r.ended, failed |-> r.failed]
    BY <1>3, <1>13, <1>19 DEF x
  <2>2. IsResult(t) /\ SameResult(r, t) /\ t.env = x BY <2>1 DEF IsResult, SameResult
  <2> QED BY <1>19, <2>2 DEF t, x, Judges, Prints
<1>20. CASE Alive(r) /\ ~bad /\ s.st = "close"
  <2> DEFINE x == SubSeq(r.env, 1, Len(r.env) - 1)
  <2> HIDE DEF x
  <2>1. t = [env |-> x, out |-> r.out, value |-> r.value, ended |-> r.ended, failed |-> r.failed]
    BY <1>4, <1>13, <1>20 DEF x
  <2>2. IsResult(t) /\ SameResult(r, t) /\ t.env = x BY <2>1 DEF IsResult, SameResult
  <2> QED BY <1>20, <2>2 DEF t, x, Judges, Prints
<1>21. CASE Alive(r) /\ ~bad /\ s.st = "let"
  <2> DEFINE x == Bind(r.env, Len(r.env), s.name, ValueOf(s))
  <2> HIDE DEF x
  <2>1. t = [env |-> x, out |-> r.out, value |-> r.value, ended |-> r.ended, failed |-> r.failed]
    BY <1>5, <1>13, <1>21 DEF x
  <2>2. IsResult(t) /\ SameResult(r, t) /\ t.env = x BY <2>1 DEF IsResult, SameResult
  <2> QED BY <1>21, <2>2 DEF t, x, Judges, Prints
<1>22. CASE Alive(r) /\ ~bad /\ s.st = "assign"
  <2> DEFINE x == Bind(r.env, Innermost(r.env, s.name), s.name, ValueOf(s))
  <2> HIDE DEF x
  <2>1. t = [env |-> x, out |-> r.out, value |-> r.value, ended |-> r.ended, failed |-> r.failed]
    BY <1>6, <1>13, <1>22 DEF x
  <2>2. IsResult(t) /\ SameResult(r, t) /\ t.env = x BY <2>1 DEF IsResult, SameResult
  <2> QED BY <1>22, <2>2 DEF t, x, Judges, Prints
<1>23. CASE Alive(r) /\ ~bad /\ s.st = "return"
  <2> DEFINE x == ValueOf(s)
  <2> HIDE DEF x
  <2>1. t = [env |-> r.env, out |-> r.out, value |-> x, ended |-> TRUE, failed |-> r.failed]
    BY <1>7, <1>16, <1>23 DEF x
  <2>2. IsResult(t) /\ t.ended = TRUE /\ t.value = x /\ t.out = r.out /\ t.env = r.env /\ t.failed = r.failed
    BY <2>1 DEF IsResult
  <2> QED BY <1>23, <2>2 DEF t, x, Judges, Prints
<1>24. CASE Alive(r) /\ ~bad /\ Judges(s)
  <2> DEFINE x == Fails(s)
  <2> HIDE DEF x
  <2>1. t = [env |-> r.env, out |-> r.out, value |-> r.value, ended |-> r.ended, failed |-> x]
    BY <1>8, <1>14, <1>24 DEF x
  <2>2. IsResult(t) /\ t.failed = x /\ t.out = r.out /\ t.value = r.value /\ t.env = r.env /\ t.ended = r.ended
    BY <2>1 DEF IsResult
  <2> QED BY <1>24, <2>2 DEF t, x, Judges, Prints
<1>25. CASE Alive(r) /\ ~bad /\ Prints(s)
  <2> DEFINE x == r.out \o Printed(r, s.e)
  <2> HIDE DEF x
  <2>1. t = [env |-> r.env, out |-> x, value |-> r.value, ended |-> r.ended, failed |-> r.failed]
    BY <1>9, <1>15, <1>25 DEF x
  <2>2. IsResult(t) /\ t.out = x /\ t.env = r.env /\ t.value = r.value /\ t.ended = r.ended /\ t.failed = r.failed
    BY <2>1 DEF IsResult
  <2> QED BY <1>25, <2>2 DEF t, x, Judges, Prints
<1>26. CASE Alive(r) /\ s.st = "expr" /\ ~Judges(s) /\ ~Prints(s)
  <2>1. t = r /\ IsResult(t) BY <1>10, <1>26
  <2> QED BY <1>26, <2>1 DEF t
<1>27. CASE Alive(r) /\ s.st \notin {"expr", "let", "assign", "return", "open", "close"}
  <2>1. t = r /\ IsResult(t) BY <1>11, <1>27
  <2> QED BY <1>27, <2>1 DEF t, Judges, Prints
<1> QED BY <1>17, <1>18, <1>19, <1>20, <1>21, <1>22, <1>23, <1>24, <1>25, <1>26, <1>27

-------------------------------------------------------------------------------
(* A tidy lambda and its chunk.                                            *)

(* A lambda that is tidy, and what is made of it.                          *)
Pos(body) == CHOOSE pos : Divides(body, Visits(body), pos)
CompilerAt(body, k) == Compiled(Visits(body))[k]
CompilerIn(body, i, m) == CompilerAt(body, Pos(body)[i - 1] + m)
AfterStatement(body, i) == CompilerAt(body, Pos(body)[i])
Chunk(body) == Lambda(body).chunk
IsTidy(body) ==
  /\ body[Len(body)].st = "return"
  /\ \A i \in 1 .. Len(body) :
       LET s == body[i]
           open == Scopes(body)[i - 1]
       IN
       /\ s.st # "decl"
       /\ s.st \in {"let", "assign", "return"} => Plain[s.e]
       /\ s.st = "expr" => Plain[s.e] \/ s.e.ex = "lambda" \/ (s.e.ex = "call" /\ s.e.fn \in Natives)
       /\ s.st = "let" => /\ s.name \notin open[Len(open)]
                          /\ \A j \in 1 .. i - 1 : body[j].st \in {"let", "open", "close"}
       /\ Reads(s) \subseteq UNION ToSet(open)
       /\ s.st = "close" => Len(open) > 1
Compilable(body) ==
  /\ WellFormed(body) /\ Len(body) > 0 /\ ~Lambda(body).err /\ IsTidy(body)
  /\ Len(Chunk(body).values) <= Bytes /\ Len(Chunk(body).code) < MaxStack

InChunk(c, chunk) == IsCompiler(c) /\ ~c.err /\ Within(c.code, chunk.code) /\ Within(c.values, chunk.values)

(* All that is known of the compilation of a tidy lambda.                  *)
LEMMA Compilation ==
  ASSUME NEW body, Compilable(body)
  PROVE  /\ Divides(body, Visits(body), Pos(body)) /\ Len(body) \in Nat
         /\ IsList(Chunk(body).code) /\ IsList(Chunk(body).values)
         /\ AfterStatement(body, 0) = Do(NewCompiler, [do |-> "open"])
         /\ \A i \in 0 .. Len(body) : InChunk(AfterStatement(body, i), Chunk(body))
         /\ \A i \in 1 .. Len(body) :
              /\ IsDone(Statement(body[i])) /\ Width(body, i) \in Nat
              /\ CompilerIn(body, i, 0) = AfterStatement(body, i - 1)
              /\ CompilerIn(body, i, Width(body, i)) = AfterStatement(body, i)
              /\ \A m \in 0 .. Width(body, i) : InChunk(CompilerIn(body, i, m), Chunk(body))
              /\ \A m \in 1 .. Width(body, i) :
                   CompilerIn(body, i, m) = Do(CompilerIn(body, i, m - 1), Statement(body[i])[m])
<1> DEFINE v == Visits(body)
           u == Compiled(v)
           pos == Pos(body)
           n == Len(body)
           k(i) == pos[i]
<1>1. WellFormed(body) /\ ~Lambda(body).err BY DEF Compilable
<1>2. n \in Nat BY <1>1, ListIs DEF WellFormed
<1>3. IsDone(v) /\ v[1] = [do |-> "open"] /\ \E x : Divides(body, v, x) BY <1>1, Positions
<1>4. Divides(body, v, pos)
  <2> HIDE DEF v
  <2> QED BY <1>3 DEF Pos, v
<1>5. IsList(v) /\ \A i \in 1 .. Len(v) : v[i].do \in Does BY <1>3 DEF IsDone
<1>6. Built(u, v, Chunk(body)) BY <1>1, <1>5, LambdaIsBuilt DEF Chunk
<1>7. Len(v) \in Nat BY <1>5, ListIs
<1> HIDE DEF v, u, pos
<1>8. \A i \in 0 .. Len(v) : InChunk(u[i], Chunk(body)) BY <1>6 DEF Built, InChunk
<1>9. u[0] = NewCompiler /\ \A i \in 1 .. Len(v) : u[i] = Do(u[i - 1], v[i])
  BY <1>6 DEF Built, CompilesTo
<1>10. IsList(Chunk(body).code) /\ IsList(Chunk(body).values) BY <1>6 DEF Built
<1>11. \A i \in 0 .. n : pos[i] \in 1 .. Len(v) - 1 BY <1>4 DEF Divides
<1>12. \A i : AfterStatement(body, i) = u[pos[i]] BY DEF AfterStatement, CompilerAt, u, v, pos
<1>13. \A i, m : CompilerIn(body, i, m) = u[pos[i - 1] + m] BY DEF CompilerIn, CompilerAt, u, v, pos
<1>14. AfterStatement(body, 0) = Do(NewCompiler, [do |-> "open"])
  <2>1. pos[0] = 1 /\ 0 \in 0 .. n BY <1>2, <1>4 DEF Divides
  <2>2. 1 \in 1 .. Len(v) /\ 1 - 1 = 0 BY <1>7, <1>11, <2>1
  <2>3. u[1] = Do(u[1 - 1], v[1]) BY <1>9, <2>2
  <2> QED BY <1>3, <1>9, <1>12, <2>1, <2>2, <2>3
<1>15. \A i \in 0 .. n : InChunk(AfterStatement(body, i), Chunk(body))
  <2> TAKE i \in 0 .. n
  <2>1. pos[i] \in 0 .. Len(v) BY <1>7, <1>11
  <2> QED BY <1>8, <1>12, <2>1
<1>16. ASSUME NEW i \in 1 .. n
       PROVE  /\ IsDone(Statement(body[i])) /\ Width(body, i) \in Nat
              /\ CompilerIn(body, i, 0) = AfterStatement(body, i - 1)
              /\ CompilerIn(body, i, Width(body, i)) = AfterStatement(body, i)
              /\ \A m \in 0 .. Width(body, i) : InChunk(CompilerIn(body, i, m), Chunk(body))
              /\ \A m \in 1 .. Width(body, i) :
                   CompilerIn(body, i, m) = Do(CompilerIn(body, i, m - 1), Statement(body[i])[m])
  <2> DEFINE w == Width(body, i)
             a == pos[i - 1]
             b == pos[i]
             s == Statement(body[i])
  <2>1. IsDone(s) /\ w \in Nat
    <3>1. IsDone(s) BY <1>1, DoneStatement DEF WellFormed
    <3> QED BY <3>1, ListIs DEF Width, IsDone
  <2>2. i - 1 \in 0 .. n /\ i \in 0 .. n BY <1>2
  <2>3. a \in 1 .. Len(v) - 1 /\ b \in 1 .. Len(v) - 1 BY <1>11, <2>2
  <2>4. b = a + w /\ \A m \in 1 .. w : v[a + m] = s[m] BY <1>4 DEF Divides
  <2>5. \A m : CompilerIn(body, i, m) = u[a + m] BY <1>13
  <2>6. AfterStatement(body, i - 1) = u[a] /\ AfterStatement(body, i) = u[b] BY <1>12
  <2> HIDE DEF w, a, b, s
  <2>7. a + 0 = a BY <2>3
  <2>8. ASSUME NEW m \in 0 .. w PROVE InChunk(CompilerIn(body, i, m), Chunk(body))
    <3>1. a + m \in 0 .. Len(v) BY <1>7, <2>1, <2>3, <2>4
    <3> QED BY <1>8, <2>5, <3>1
  <2>9. ASSUME NEW m \in 1 .. w PROVE CompilerIn(body, i, m) = Do(CompilerIn(body, i, m - 1), s[m])
    <3>1. a + m \in 1 .. Len(v) /\ (a + m) - 1 = a + (m - 1) BY <1>7, <2>1, <2>3, <2>4
    <3>2. u[a + m] = Do(u[(a + m) - 1], v[a + m]) BY <1>9, <3>1
    <3> QED BY <2>4, <2>5, <3>1, <3>2
  <2> QED BY <2>1, <2>4, <2>5, <2>6, <2>7, <2>8, <2>9 DEF w, s
<1> QED BY <1>2, <1>4, <1>10, <1>14, <1>15, <1>16 DEF n, v, pos

(* What a visit that emits adds to the chunk.                              *)
Emitting == {"value", "get", "set", "emit", "callee", "return"}
Emission(c, d, chunk) ==
  LET ins == chunk.code[Len(c.code) + 1]
      constant(v) == /\ ins.op = "CONSTANT" /\ ins.arg \in 0 .. Len(chunk.values) - 1
                     /\ chunk.values[ins.arg + 1] = v
  IN
  /\ Len(c.code) < Len(chunk.code)
  /\ d.do = "value" => constant(d.v)
  /\ d.do = "callee" /\ d.fn \in Natives => constant(Native(d.fn)) /\ (d.n \in Nat => d.n < Bytes - 1)
  /\ d.do = "get" /\ Resolve(c, d.name) \in 1 .. Bytes - 1 => ins.op = "GET_LOCAL" /\ ins.arg = Resolve(c, d.name)
  /\ d.do = "set" /\ Resolve(c, d.name) \in 1 .. Bytes - 1 => ins.op = "SET_LOCAL" /\ ins.arg = Resolve(c, d.name)
  /\ d.do = "emit" => ins.op = d.op /\ (d.n \in 0 .. Bytes - 1 => ins.arg = d.n)
  /\ d.do = "return" => ins.op = "RETURN"

LEMMA ByteOf == ASSUME NEW op, NEW k \in 0 .. Bytes - 1 PROVE Instr(op, k) = [op |-> op, arg |-> k]
<1>1. Bytes \in Nat \ {0} /\ k \in Nat /\ k < Bytes BY ByteAssumption
<1>2. k % Bytes = k BY <1>1, ModSmall
<1> QED BY <1>2 DEF Instr

LEMMA ConstantIn ==
  ASSUME NEW c, NEW d, NEW chunk, NEW v, InChunk(c, chunk), InChunk(d, chunk), d = EmitConstant(c, v),
         Len(chunk.values) \in Nat, Len(chunk.values) <= Bytes
  PROVE  LET ins == chunk.code[Len(c.code) + 1] IN
         /\ ins.op = "CONSTANT" /\ ins.arg \in 0 .. Len(chunk.values) - 1 /\ chunk.values[ins.arg + 1] = v
<1> DEFINE k == Len(c.values)
           p == Len(c.code) + 1
<1>1. IsCompiler(c) /\ Within(d.code, chunk.code) /\ Within(d.values, chunk.values) BY DEF InChunk
<1>2. Len(d.code) = p /\ d.code[p] = Instr("CONSTANT", k) /\ Len(d.values) = k + 1 /\ d.values[k + 1] = v
  BY <1>1, EmittedConstant
<1>3. k \in Nat /\ p \in Nat \ {0} BY <1>1, ListIs DEF IsCompiler
<1> HIDE DEF k, p
<1>4. p \in 1 .. Len(d.code) /\ k + 1 \in 1 .. Len(d.values) BY <1>2, <1>3
<1>5. chunk.code[p] = Instr("CONSTANT", k) /\ chunk.values[k + 1] = v /\ k + 1 <= Len(chunk.values)
  BY <1>1, <1>2, <1>4 DEF Within
<1>6. k \in 0 .. Bytes - 1 /\ k \in 0 .. Len(chunk.values) - 1 BY <1>3, <1>5, ByteAssumption
<1>7. chunk.code[p] = [op |-> "CONSTANT", arg |-> k] BY <1>5, <1>6, ByteOf
<1> QED BY <1>5, <1>6, <1>7 DEF p

(* The instruction each visit emits, with its argument within a byte.      *)
LEMMA Emissions ==
  ASSUME NEW c, NEW d, NEW chunk, InChunk(c, chunk), InChunk(Do(c, d), chunk), d.do \in Emitting,
         Len(chunk.values) \in Nat, Len(chunk.values) <= Bytes, Len(chunk.code) \in Nat
  PROVE  /\ Do(c, d).depth = c.depth /\ Do(c, d).locals = c.locals
         /\ Len(Do(c, d).code) = Len(c.code) + 1 /\ Len(c.code) \in Nat
         /\ Emission(c, d, chunk)
<1> DEFINE e == Do(c, d)
           p == Len(c.code) + 1
           ins == chunk.code[p]
<1>1. IsCompiler(c) /\ ~c.err /\ IsCompiler(e) /\ ~e.err /\ Within(e.code, chunk.code) BY DEF InChunk
<1>2. Len(c.code) \in Nat /\ p \in Nat \ {0} BY <1>1, ListIs DEF IsCompiler
<1>3. ASSUME Len(e.code) = p
      PROVE  ins = e.code[p] /\ Len(c.code) < Len(chunk.code)
  <2>1. p \in 1 .. Len(e.code) /\ p <= Len(chunk.code) BY <1>1, <1>2, <1>3 DEF Within
  <2> QED BY <1>1, <1>2, <2>1 DEF Within
<1>4. \A op, arg : LET b == Emit(c, op, arg) IN
        /\ b.locals = c.locals /\ b.depth = c.depth /\ Len(b.code) = p /\ b.code[p] = Instr(op, arg)
  BY <1>1, Emitted
<1>5. \A v : LET b == EmitConstant(c, v) IN b.locals = c.locals /\ b.depth = c.depth /\ Len(b.code) = p
  BY <1>1, EmittedConstant
<1>6. \A op, arg : Instr(op, arg).op = op BY DEF Instr
<1> HIDE DEF e, p, ins
<1>7. CASE d.do = "value"
  <2>1. e = EmitConstant(c, d.v) BY <1>1, <1>7, DoIs DEF e
  <2>2. e.locals = c.locals /\ e.depth = c.depth /\ Len(e.code) = p BY <1>5, <2>1
  <2>3. ins.op = "CONSTANT" /\ ins.arg \in 0 .. Len(chunk.values) - 1 /\ chunk.values[ins.arg + 1] = d.v
    BY <2>1, ConstantIn DEF ins, p, e
  <2> QED BY <1>2, <1>3, <1>7, <2>2, <2>3 DEF Emission, e, p, ins
<1>8. CASE d.do = "callee"
  <2>1. e = Called(c, d.fn, d.n) BY <1>1, <1>8, DoIs DEF e
  <2>2. d.n \in Nat => d.n < Bytes - 1
    <3>1. ~Called(c, d.fn, d.n).err BY <1>1, <2>1
    <3> QED BY <1>1, <3>1, Reached
  <2>3. \E v : e = EmitConstant(c, v)
    <3>1. d.n >= Bytes - 1 => e = [c EXCEPT !.err = TRUE] BY <2>1 DEF Called
    <3>2. ~(d.n >= Bytes - 1) => \E v : e = EmitConstant(c, v) BY <2>1 DEF Called
    <3>3. [c EXCEPT !.err = TRUE].err = TRUE BY <1>1 DEF IsCompiler
    <3> QED BY <1>1, <3>1, <3>2, <3>3
  <2>4. e.locals = c.locals /\ e.depth = c.depth /\ Len(e.code) = p BY <1>5, <2>3
  <2>5. ASSUME d.fn \in Natives
        PROVE  ins.op = "CONSTANT" /\ ins.arg \in 0 .. Len(chunk.values) - 1
               /\ chunk.values[ins.arg + 1] = Native(d.fn)
    <3>1. e = EmitConstant(c, Native(d.fn))
      <4>1. ~Called(c, d.fn, d.n).err BY <1>1, <2>1
      <4> QED BY <1>1, <2>1, <2>5, <4>1, Reached
    <3> QED BY <3>1, ConstantIn DEF ins, p, e
  <2> QED BY <1>2, <1>3, <1>8, <2>2, <2>4, <2>5 DEF Emission, e, p, ins
<1>9. CASE d.do \in {"get", "set"}
  <2> DEFINE local == IF d.do = "get" THEN "GET_LOCAL" ELSE "SET_LOCAL"
             global == IF d.do = "get" THEN "GET_GLOBAL" ELSE "SET_GLOBAL"
             slot == Resolve(c, d.name)
             op == IF slot = -1 THEN global ELSE local
  <2>1. e = Emit(c, op, slot) BY <1>1, <1>9, DoIs DEF e, Named
  <2> HIDE DEF slot
  <2>2. e.locals = c.locals /\ e.depth = c.depth /\ Len(e.code) = p /\ e.code[p] = Instr(op, slot)
    BY <1>4, <2>1
  <2>3. ASSUME slot \in 1 .. Bytes - 1 PROVE ins.op = local /\ ins.arg = slot
    <3>1. slot \in 0 .. Bytes - 1 /\ slot # -1 BY <2>3, ByteAssumption
    <3>2. ins = Instr(local, slot) BY <1>3, <2>2, <3>1
    <3>3. ins = [op |-> local, arg |-> slot]
      <4> HIDE DEF local
      <4> QED BY <3>1, <3>2, ByteOf
    <3> QED BY <3>3
  <2> QED BY <1>2, <1>3, <1>9, <2>2, <2>3 DEF Emission, e, p, ins, slot
<1>10. CASE d.do = "emit"
  <2>1. e = Emit(c, d.op, d.n) BY <1>1, <1>10, DoIs DEF e
  <2>2. e.locals = c.locals /\ e.depth = c.depth /\ Len(e.code) = p /\ e.code[p] = Instr(d.op, d.n)
    BY <1>4, <2>1
  <2>3. ins = Instr(d.op, d.n) BY <1>3, <2>2
  <2>4. ins.op = d.op /\ (d.n \in 0 .. Bytes - 1 => ins.arg = d.n)
    <3>1. ASSUME d.n \in 0 .. Bytes - 1 PROVE ins.arg = d.n
      <4>1. ins = [op |-> d.op, arg |-> d.n] BY <2>3, <3>1, ByteOf
      <4> QED BY <4>1
    <3> QED BY <1>6, <2>3, <3>1
  <2> QED BY <1>2, <1>3, <1>10, <2>2, <2>4 DEF Emission, e, p, ins
<1>11. CASE d.do = "return"
  <2>1. Len(e.code) = p /\ e.code[p] = Instr("RETURN", 0) BY <1>1, <1>11, Ended DEF e, p
  <2>2. e.locals = c.locals /\ e.depth = c.depth
    <3> DEFINE b == Emit(c, "RETURN", 0)
    <3>1. e = [b EXCEPT !.ret = TRUE] BY <1>1, <1>11, DoIs DEF e
    <3>2. IsCompiler(b) /\ b.locals = c.locals /\ b.depth = c.depth BY <1>1, Emitted
    <3> HIDE DEF b
    <3>3. b = [code |-> b.code, values |-> b.values, locals |-> b.locals, depth |-> b.depth, err |-> b.err, ret |-> b.ret]
      BY <3>2 DEF IsCompiler
    <3>4. e.locals = b.locals /\ e.depth = b.depth BY <3>1, <3>3
    <3> QED BY <3>2, <3>4
  <2>3. ins.op = "RETURN" BY <1>3, <1>6, <2>1
  <2> QED BY <1>2, <1>3, <1>11, <2>1, <2>2, <2>3 DEF Emission, e, p, ins
<1> QED BY <1>7, <1>8, <1>9, <1>10, <1>11 DEF Emitting

(* The visits of the statements of a tidy lambda.                          *)
Calculates(s) == s.st \in {"let", "assign", "return"} \/ Judges(s)
InFront(s) == IF s.st \in {"let", "assign"} THEN 1 ELSE 0
Behind(s) == IF s.st \in {"assign", "return"} THEN 1 ELSE 0
ValueStep(v) == [do |-> "value", v |-> v]
SetStep(name) == [do |-> "set", name |-> name]
ReturnStep == [do |-> "return"]

LEMMA ListOne == ASSUME NEW d PROVE IsList(<<d>>) /\ Len(<<d>>) = 1 /\ <<d>>[1] = d
<1>1. <<d>> \in Seq({d}) /\ Len(<<d>>) = 1 /\ <<d>>[1] = d OBVIOUS
<1> DEFINE s == <<d>>
<1> HIDE DEF s
<1>2. s \in Seq({d}) /\ Len(s) = 1 /\ s[1] = d BY <1>1 DEF s
<1>3. IsList(s) BY <1>2 DEF IsList
<1> QED BY <1>1, <1>3 DEF s

LEMMA PlacedIn ==
  ASSUME NEW s, NEW t, IsList(s), IsList(t)
  PROVE  /\ IsList(s \o t) /\ Len(s \o t) = Len(s) + Len(t) /\ Len(s) \in Nat /\ Len(t) \in Nat
         /\ Placed(s \o t, 0, s) /\ Placed(s \o t, Len(s), t)
<1> DEFINE w == s \o t
<1>1. /\ IsList(w) /\ Len(w) = Len(s) + Len(t) /\ Within(s, w)
      /\ \A i \in 1 .. Len(t) : w[Len(s) + i] = t[i]
  BY ListConcat
<1>2. Len(s) \in Nat /\ Len(t) \in Nat BY ListIs
<1> HIDE DEF w
<1>3. \A k \in 1 .. Len(s) : w[0 + k] = s[k]
  <2> TAKE k \in 1 .. Len(s)
  <2>1. 0 + k = k OBVIOUS
  <2> QED BY <1>1, <2>1 DEF Within
<1>4. Placed(w, 0, s) /\ Placed(w, Len(s), t)
  <2>1. 0 \in Nat /\ Len(w) \in Nat /\ 0 + Len(s) <= Len(w) /\ Len(s) + Len(t) <= Len(w) BY <1>1, <1>2
  <2> QED BY <1>1, <1>2, <1>3, <2>1 DEF Placed
<1> QED BY <1>1, <1>2, <1>4 DEF w

(* A part of what stands in a list.                                        *)
LEMMA PlacedWithin ==
  ASSUME NEW w, NEW p, NEW s, NEW t, Placed(w, p, s), Placed(s, 0, t)
  PROVE  Placed(w, p, t)
<1>1. p \in Nat /\ Len(w) \in Nat /\ Len(s) \in Nat /\ p + Len(s) <= Len(w) /\ 0 + Len(t) <= Len(s)
  BY DEF Placed
<1>2. CASE Len(t) \in Int
  <2>1. ASSUME NEW k \in 1 .. Len(t) PROVE w[p + k] = t[k]
    <3>1. k \in 1 .. Len(s) /\ 0 + k = k BY <1>1, <1>2
    <3>2. w[p + k] = s[k] BY <3>1 DEF Placed
    <3>3. s[0 + k] = t[k] BY DEF Placed
    <3> QED BY <3>1, <3>2, <3>3
  <2>2. p + Len(t) <= Len(w) BY <1>1, <1>2
  <2> QED BY <1>1, <2>1, <2>2 DEF Placed
<1> QED BY <1>2

LEMMA CalculatingShape ==
  ASSUME NEW s, IsStatement(s), Calculates(s), Plain[s.e]
  PROVE  LET w == Statement(s)
             n == Len(Visited(s))
         IN
         /\ s.e \in Trees /\ n \in Nat /\ IsList(w) /\ Len(w) = (InFront(s) + n) + Behind(s)
         /\ Placed(w, InFront(s), Visited(s))
         /\ s.st = "let" => w[1] = Declare(s.name)
         /\ s.st = "assign" => w[1] = ValueStep(Str(s.name)) /\ w[(1 + n) + 1] = SetStep(s.name)
         /\ s.st = "return" => w[n + 1] = ReturnStep
<1> DEFINE v == Visited(s)
           n == Len(v)
           w == Statement(s)
<1>1. s.e \in Trees BY DEF IsStatement, Calculates, Judges
<1>2. /\ IsList(v) /\ n \in Nat
      /\ s.st \in {"let", "assign"} => v = Variant[s.e]
      /\ s.st \in {"expr", "return"} => v = Expression[s.e]
  <2>1. IsDone(v) BY <1>1, DoneVariant DEF Visited, Turned
  <2>2. /\ s.st \in {"let", "assign"} => v = Variant[s.e]
        /\ s.st \in {"expr", "return"} => v = Expression[s.e]
    BY VisitedIs
  <2> HIDE DEF v
  <2> QED BY <2>1, <2>2, ListIs DEF IsDone
<1>3. CASE s.st = "let"
  <2> DEFINE d == Declare(s.name)
             f == <<d>>
  <2>1. w = f \o v BY <1>2, <1>3, StatementIs
  <2>2. IsList(f) /\ Len(f) = 1 /\ f[1] = d BY ListOne
  <2> HIDE DEF d, f, w, v
  <2>3. IsList(w) /\ Len(w) = 1 + n /\ Placed(w, 0, f) /\ Placed(w, 1, v)
    <3>1. /\ IsList(f \o v) /\ Len(f \o v) = Len(f) + Len(v) /\ Placed(f \o v, 0, f) /\ Placed(f \o v, Len(f), v)
      BY <1>2, <2>2, PlacedIn
    <3> QED BY <2>1, <2>2, <3>1
  <2>4. w[1] = d
    <3>1. 1 \in 1 .. Len(f) /\ 0 + 1 = 1 BY <2>2
    <3>2. w[0 + 1] = f[1] BY <2>3, <3>1 DEF Placed
    <3> QED BY <2>2, <3>1, <3>2
  <2>5. InFront(s) = 1 /\ Behind(s) = 0 BY <1>3 DEF InFront, Behind
  <2>6. Len(w) = (InFront(s) + n) + Behind(s) BY <1>2, <2>3, <2>5
  <2> QED BY <1>1, <1>2, <1>3, <2>3, <2>4, <2>5, <2>6 DEF d, w, v
<1>4. CASE s.st = "return"
  <2> DEFINE g == <<ReturnStep>>
  <2>1. w = v \o g BY <1>2, <1>4, StatementIs DEF ReturnStep
  <2>2. IsList(g) /\ Len(g) = 1 /\ g[1] = ReturnStep BY ListOne
  <2> HIDE DEF g, w, v
  <2>3. IsList(w) /\ Len(w) = n + 1 /\ Placed(w, 0, v) /\ Placed(w, n, g)
    <3>1. /\ IsList(v \o g) /\ Len(v \o g) = Len(v) + Len(g) /\ Placed(v \o g, 0, v) /\ Placed(v \o g, Len(v), g)
      BY <1>2, <2>2, PlacedIn
    <3> QED BY <2>1, <2>2, <3>1
  <2>4. w[n + 1] = ReturnStep
    <3>1. 1 \in 1 .. Len(g) BY <2>2
    <3> QED BY <2>2, <2>3, <3>1 DEF Placed
  <2>5. InFront(s) = 0 /\ Behind(s) = 1 BY <1>4 DEF InFront, Behind
  <2>6. Len(w) = (InFront(s) + n) + Behind(s) BY <1>2, <2>3, <2>5
  <2> QED BY <1>1, <1>2, <1>4, <2>3, <2>4, <2>5, <2>6 DEF w, v
<1>5. CASE s.st = "assign"
  <2> DEFINE d == ValueStep(Str(s.name))
             f == <<d>>
             g == <<SetStep(s.name)>>
             b == f \o v
  <2>1. w = b \o g BY <1>2, <1>5, StatementIs DEF ValueStep, SetStep
  <2>2. IsList(f) /\ Len(f) = 1 /\ f[1] = d BY ListOne
  <2>3. IsList(g) /\ Len(g) = 1 /\ g[1] = SetStep(s.name) BY ListOne
  <2> HIDE DEF d, f, g, w, v
  <2>4. IsList(b) /\ Len(b) = 1 + n /\ Placed(b, 0, f) /\ Placed(b, 1, v)
    <3>1. /\ IsList(f \o v) /\ Len(f \o v) = Len(f) + Len(v) /\ Placed(f \o v, 0, f) /\ Placed(f \o v, Len(f), v)
      BY <1>2, <2>2, PlacedIn
    <3> QED BY <2>2, <3>1
  <2> HIDE DEF b
  <2>5. IsList(w) /\ Len(w) = (1 + n) + 1 /\ Placed(w, 0, b) /\ Placed(w, 1 + n, g)
    <3>1. /\ IsList(b \o g) /\ Len(b \o g) = Len(b) + Len(g) /\ Placed(b \o g, 0, b) /\ Placed(b \o g, Len(b), g)
      BY <2>3, <2>4, PlacedIn
    <3> QED BY <2>1, <2>3, <2>4, <3>1
  <2>6. w[1] = d
    <3>1. Placed(w, 0, f) BY <2>4, <2>5, PlacedWithin
    <3>2. 1 \in 1 .. Len(f) /\ 0 + 1 = 1 BY <2>2
    <3>3. w[0 + 1] = f[1] BY <3>1, <3>2 DEF Placed
    <3> QED BY <2>2, <3>2, <3>3
  <2>7. Placed(w, 1, v)
    <3>1. ASSUME NEW k \in 1 .. Len(v) PROVE w[1 + k] = v[k]
      <4>1. 1 + k \in 1 .. Len(b) /\ 0 + (1 + k) = 1 + k BY <1>2, <2>4
      <4>2. w[0 + (1 + k)] = b[1 + k] BY <2>5, <4>1 DEF Placed
      <4>3. b[1 + k] = v[k] BY <2>4 DEF Placed
      <4> QED BY <4>1, <4>2, <4>3
    <3>2. Len(w) \in Nat /\ 1 + Len(v) <= Len(w) BY <1>2, <2>5
    <3> QED BY <3>1, <3>2 DEF Placed
  <2>8. w[(1 + n) + 1] = SetStep(s.name)
    <3>1. 1 \in 1 .. Len(g) BY <2>3
    <3> QED BY <2>3, <2>5, <3>1 DEF Placed
  <2>9. InFront(s) = 1 /\ Behind(s) = 1 BY <1>5 DEF InFront, Behind
  <2> QED BY <1>1, <1>2, <1>5, <2>5, <2>6, <2>7, <2>8, <2>9 DEF d, w, v
<1>6. CASE Judges(s)
  <2>1. w = v BY <1>2, <1>6, StatementIs DEF Judges
  <2>2. s.st = "expr" /\ InFront(s) = 0 /\ Behind(s) = 0 BY <1>6 DEF InFront, Behind, Judges
  <2> HIDE DEF w, v
  <2>3. Placed(w, 0, v)
    <3>1. \A k \in 1 .. Len(v) : w[0 + k] = v[k] BY <2>1
    <3>2. Len(w) \in Nat /\ 0 + Len(v) <= Len(w) BY <1>2, <2>1
    <3> QED BY <3>1, <3>2 DEF Placed
  <2>4. Len(w) = (InFront(s) + n) + Behind(s) BY <1>2, <2>1, <2>2
  <2> QED BY <1>1, <1>2, <2>1, <2>2, <2>3, <2>4 DEF w, v
<1> QED BY <1>3, <1>4, <1>5, <1>6 DEF Calculates

LEMMA CallShape ==
  ASSUME NEW s, IsStatement(s), s.st = "expr", s.e.ex = "call"
  PROVE  LET w == Statement(s)
             n == Len(s.e.args)
         IN
         /\ n \in Nat /\ DOMAIN s.e.args = 1 .. n /\ \A k \in 1 .. n : IsLeaf(s.e.args[k])
         /\ IsList(w) /\ Len(w) = (1 + n) + 1 /\ w[1] = CalleeStep(s.e) /\ w[(1 + n) + 1] = CallStep(s.e)
         /\ \A k \in 1 .. n : w[1 + k] = Leaf(s.e.args[k])
<1> DEFINE e == s.e
           w == Statement(s)
           n == Len(e.args)
           a == ArgSteps(e)
           f == <<CalleeStep(e)>>
           g == <<CallStep(e)>>
           b == f \o a
<1>1. e \in Trees /\ e \in Calls BY DEF IsStatement, Calls
<1>2. w = b \o g
  <2>1. w = Expression[e] BY StatementIs
  <2>2. Expression[e] = Single(e) BY <1>1, ExpressionIs DEF ExpressionOnce
  <2> QED BY <1>1, <2>1, <2>2, CallParts
<1>3. n \in Nat /\ DOMAIN e.args = 1 .. n /\ (\A k \in 1 .. n : IsLeaf(e.args[k])) /\ a \in Seq(ExpressionSteps)
      /\ Len(a) = n
  BY <1>1, CallParts
<1>4. \A k \in 1 .. n : a[k] = Leaf(e.args[k]) BY <1>3 DEF ArgSteps
<1>5. IsList(f) /\ Len(f) = 1 /\ f[1] = CalleeStep(e) BY ListOne
<1>6. IsList(g) /\ Len(g) = 1 /\ g[1] = CallStep(e) BY ListOne
<1>7. IsList(a) BY <1>3 DEF IsList
<1> HIDE DEF w, f, g, a
<1>8. IsList(b) /\ Len(b) = 1 + n /\ Placed(b, 0, f) /\ Placed(b, 1, a)
  <2>1. /\ IsList(f \o a) /\ Len(f \o a) = Len(f) + Len(a) /\ Placed(f \o a, 0, f) /\ Placed(f \o a, Len(f), a)
    BY <1>5, <1>7, PlacedIn
  <2> QED BY <1>3, <1>5, <2>1
<1> HIDE DEF b
<1>9. IsList(w) /\ Len(w) = (1 + n) + 1 /\ Placed(w, 0, b) /\ Placed(w, 1 + n, g)
  <2>1. /\ IsList(b \o g) /\ Len(b \o g) = Len(b) + Len(g) /\ Placed(b \o g, 0, b) /\ Placed(b \o g, Len(b), g)
    BY <1>6, <1>8, PlacedIn
  <2> QED BY <1>2, <1>6, <1>8, <2>1
<1>10. w[1] = CalleeStep(e)
  <2>1. Placed(w, 0, f) BY <1>8, <1>9, PlacedWithin
  <2>2. 1 \in 1 .. Len(f) /\ 0 + 1 = 1 BY <1>5
  <2>3. w[0 + 1] = f[1] BY <2>1, <2>2 DEF Placed
  <2> QED BY <1>5, <2>2, <2>3
<1>11. w[(1 + n) + 1] = CallStep(e)
  <2>1. 1 \in 1 .. Len(g) BY <1>6
  <2> QED BY <1>6, <1>9, <2>1 DEF Placed
<1>12. ASSUME NEW k \in 1 .. n PROVE w[1 + k] = Leaf(e.args[k])
  <2>1. 1 + k \in 1 .. Len(b) /\ 0 + (1 + k) = 1 + k BY <1>3, <1>8
  <2>2. w[0 + (1 + k)] = b[1 + k] BY <1>9, <2>1 DEF Placed
  <2>3. b[1 + k] = a[k]
    <3>1. k \in 1 .. Len(a) BY <1>3
    <3> QED BY <1>8, <3>1 DEF Placed
  <2> QED BY <1>4, <2>1, <2>2, <2>3
<1> QED BY <1>3, <1>9, <1>10, <1>11, <1>12 DEF w

(* What a tidy lambda is made of.                                          *)
TidyStep(s) ==
  /\ s.st # "decl"
  /\ s.st \in {"let", "assign", "return"} => Plain[s.e]
  /\ s.st = "expr" => Plain[s.e] \/ s.e.ex = "lambda" \/ (s.e.ex = "call" /\ s.e.fn \in Natives)

LEMMA KindOfExpr ==
  ASSUME NEW s, IsStatement(s), TidyStep(s), s.st = "expr"
  PROVE  \/ Judges(s) /\ Plain[s.e]
         \/ s.e.ex = "lambda" /\ ~Judges(s) /\ Statement(s) = <<>>
         \/ s.e.ex = "call" /\ ~Judges(s) /\ s.e.fn \in Natives
<1>1. s.e \in Trees BY DEF IsStatement
<1>2. CASE Plain[s.e]
  <2>1. s.e.ex \in {"lit", "bin"} BY <1>1, <1>2, PlainIs DEF PlainOnce
  <2> QED BY <1>2, <2>1 DEF Judges
<1>3. CASE s.e.ex = "lambda"
  <2>1. Statement(s) = Expression[s.e] BY StatementIs
  <2>2. Expression[s.e] = Single(s.e) BY <1>1, <1>3, ExpressionIs DEF ExpressionOnce
  <2>3. Single(s.e) = <<>> BY <1>3 DEF Single
  <2> QED BY <1>3, <2>1, <2>2, <2>3 DEF Judges
<1>4. CASE s.e.ex = "call" /\ s.e.fn \in Natives BY <1>4 DEF Judges
<1> QED BY <1>2, <1>3, <1>4 DEF TidyStep

LEMMA StepsEmit ==
  ASSUME NEW s, s.e \in Trees, Plain[s.e]
  PROVE  \A k \in 1 .. Len(Visited(s)) : Visited(s)[k].do \in Emitting
<1> DEFINE typed == KeepsTypes(s)
           w == Turned(typed, s.e)
           h == Values(<<>>, w)
<1>1. IsList(w) /\ typed \in BOOLEAN BY DoneVariant DEF IsDone, Turned, KeepsTypes
<1>2. Evaluates(typed, s.e) BY <1>1, PlainEvaluates
<1>3. /\ ExecsTo(h, <<>>, w) /\ IsList(h[0]) /\ Placed(w, 0, w)
        => Evaluated(Meaning(typed)[s.e], Len(w), h, w, 0)
  BY <1>2 DEF Evaluates
<1> HIDE DEF w, h, typed
<1>4. ExecsTo(h, <<>>, w) BY <1>1, ValuesGo DEF h
<1>5. IsList(h[0])
  <2>1. <<>> \in Seq({}) OBVIOUS
  <2> QED BY <1>4, <2>1 DEF ExecsTo, IsList
<1>6. Len(w) \in Nat BY <1>1, ListIs
<1>7. \A k \in 1 .. Len(w) : 0 + k = k BY <1>6
<1>8. Placed(w, 0, w) BY <1>6, <1>7 DEF Placed
<1>9. ASSUME NEW k \in 1 .. Len(w) PROVE w[k].do \in Emitting
  <2>1. Computes(w[0 + k], h[0 + k - 1]) BY <1>3, <1>4, <1>5, <1>8 DEF Evaluated
  <2>2. Computes(w[k], h[0 + k - 1]) BY <1>7, <2>1
  <2> QED BY <2>2 DEF Computes, Emitting
<1> QED BY <1>9 DEF w, typed, Visited

LEMMA VisitsEmit ==
  ASSUME NEW s, IsStatement(s), TidyStep(s), s.st \notin {"open", "close"},
         NEW m \in 1 .. Len(Statement(s)), ~(s.st = "let" /\ m = 1)
  PROVE  Statement(s)[m].do \in Emitting
<1> DEFINE w == Statement(s)
           v == Visited(s)
           n == Len(v)
<1>1. CASE Calculates(s)
  <2>0. Plain[s.e]
    <3>1. CASE Judges(s)
      <4>1. s.st = "expr" BY <3>1 DEF Judges
      <4> QED BY <3>1, <4>1, KindOfExpr DEF Judges
    <3> QED BY <1>1, <3>1 DEF Calculates, TidyStep
  <2>1. /\ s.e \in Trees /\ n \in Nat /\ Len(w) = (InFront(s) + n) + Behind(s) /\ Placed(w, InFront(s), v)
        /\ s.st = "assign" => w[1] = ValueStep(Str(s.name)) /\ w[(1 + n) + 1] = SetStep(s.name)
        /\ s.st = "return" => w[n + 1] = ReturnStep
    BY <1>1, <2>0, CalculatingShape
  <2>2. \A k \in 1 .. n : v[k].do \in Emitting BY <2>0, <2>1, StepsEmit
  <2> HIDE DEF w, v
  <2>3. m \in 1 .. Len(w) BY DEF w
  <2>4. InFront(s) \in 0 .. 1 /\ Behind(s) \in 0 .. 1 BY DEF InFront, Behind
  <2>5. CASE m <= InFront(s)
    <3>1. m = 1 /\ InFront(s) = 1 BY <2>3, <2>4, <2>5
    <3>2. s.st = "assign" BY <3>1 DEF InFront
    <3>3. ValueStep(Str(s.name)).do \in Emitting BY DEF ValueStep, Emitting
    <3> QED BY <2>1, <3>1, <3>2, <3>3 DEF w
  <2>6. CASE m > InFront(s) /\ m <= InFront(s) + n
    <3>1. m - InFront(s) \in 1 .. n /\ InFront(s) + (m - InFront(s)) = m BY <2>1, <2>3, <2>4, <2>6
    <3>2. w[m] = v[m - InFront(s)] BY <2>1, <3>1 DEF Placed
    <3> QED BY <2>2, <3>1, <3>2 DEF w
  <2>7. CASE m > InFront(s) + n
    <3>1. Behind(s) = 1 /\ m = (InFront(s) + n) + 1 BY <2>1, <2>3, <2>4, <2>7
    <3>2. s.st = "assign" \/ s.st = "return" BY <3>1 DEF Behind
    <3>3. SetStep(s.name).do \in Emitting /\ ReturnStep.do \in Emitting
      BY DEF SetStep, ReturnStep, Emitting
    <3>4. CASE s.st = "assign"
      <4>1. InFront(s) = 1 BY <3>4 DEF InFront
      <4> QED BY <2>1, <3>1, <3>3, <3>4, <4>1 DEF w
    <3>5. CASE s.st = "return"
      <4>1. InFront(s) = 0 BY <3>5 DEF InFront
      <4>2. m = n + 1 BY <2>1, <3>1, <4>1
      <4> QED BY <2>1, <3>3, <3>5, <4>2 DEF w
    <3> QED BY <3>2, <3>4, <3>5
  <2> QED BY <2>1, <2>3, <2>4, <2>5, <2>6, <2>7
<1>2. CASE ~Calculates(s)
  <2>1. s.st = "expr" /\ ~Judges(s) BY <1>2 DEF Calculates, IsStatement, TidyStep
  <2>2. CASE s.e.ex = "lambda"
    <3>1. Len(<<>>) = 0 OBVIOUS
    <3>2. w = <<>> BY <2>1, <2>2, KindOfExpr
    <3> QED BY <3>1, <3>2
  <2>3. CASE s.e.ex = "call"
    <3> DEFINE k == Len(s.e.args)
    <3>1. /\ k \in Nat /\ Len(w) = (1 + k) + 1 /\ w[1] = CalleeStep(s.e) /\ w[(1 + k) + 1] = CallStep(s.e)
          /\ \A j \in 1 .. k : w[1 + j] = Leaf(s.e.args[j])
      BY <2>1, <2>3, CallShape
    <3>2. \A x : Leaf(x).do \in Emitting /\ CalleeStep(x).do \in Emitting /\ CallStep(x).do \in Emitting
      BY DEF Leaf, CalleeStep, CallStep, Emitting
    <3> HIDE DEF w, k
    <3>3. m \in 1 .. Len(w) BY DEF w
    <3>4. CASE m = 1 BY <3>1, <3>2, <3>4 DEF w
    <3>5. CASE m = (1 + k) + 1 BY <3>1, <3>2, <3>5 DEF w
    <3>6. CASE m # 1 /\ m # (1 + k) + 1
      <4>1. m - 1 \in 1 .. k /\ 1 + (m - 1) = m BY <3>1, <3>3, <3>6
      <4>2. w[m] = Leaf(s.e.args[m - 1]) BY <3>1, <4>1
      <4> QED BY <3>2, <4>2 DEF w
    <3> QED BY <3>4, <3>5, <3>6
  <2> QED BY <2>1, <2>2, <2>3, KindOfExpr
<1> QED BY <1>1, <1>2

-------------------------------------------------------------------------------
(* The locals of the compiler and the environment of the meaning.          *)

(* The compiler and the environment from one statement to the next.        *)
LEMMA BindIs ==
  ASSUME NEW env, IsList(env), NEW d \in 1 .. Len(env), NEW name, NEW v
  PROVE  LET r == Bind(env, d, name, v) IN
         /\ IsList(r) /\ Len(r) = Len(env)
         /\ DOMAIN r[d] = DOMAIN env[d] \cup {name} /\ r[d][name] = v
         /\ \A x \in DOMAIN env[d] : x # name => r[d][x] = env[d][x]
         /\ \A j \in 1 .. Len(env) : j # d => r[j] = env[j]
<1> DEFINE r == Bind(env, d, name, v)
           f == env[d]
           g == [x \in DOMAIN f \cup {name} |-> IF x = name THEN v ELSE f[x]]
<1>1. r = [env EXCEPT ![d] = g] BY DEF Bind
<1>2. DOMAIN g = DOMAIN f \cup {name} /\ g[name] = v /\ \A x \in DOMAIN f : x # name => g[x] = f[x] OBVIOUS
<1> HIDE DEF r, g, f
<1>3. PICK S : env \in Seq(S) BY DEF IsList
<1>4. Len(env) \in Nat BY <1>3
<1> DEFINE T == S \cup {g}
<1>5. r \in Seq(T) /\ Len(r) = Len(env) /\ r[d] = g /\ \A j \in 1 .. Len(env) : j # d => r[j] = env[j]
  <2>1. S \subseteq T /\ g \in T OBVIOUS
  <2> HIDE DEF T
  <2>2. env \in Seq(T) BY <1>3, <2>1, SeqMonotonic
  <2> QED BY <1>1, <2>1, <2>2
<1>6. IsList(r)
  <2> HIDE DEF T
  <2> QED BY <1>5 DEF IsList
<1> QED BY <1>2, <1>5, <1>6 DEF r, f

LEMMA LocalsStay ==
  ASSUME NEW body, Compilable(body), NEW i \in 1 .. Len(body), NEW a \in 0 .. Width(body, i),
         \A m \in a + 1 .. Width(body, i) : Statement(body[i])[m].do \in Emitting
  PROVE  \A m \in a .. Width(body, i) :
           /\ CompilerIn(body, i, m).locals = CompilerIn(body, i, a).locals
           /\ CompilerIn(body, i, m).depth = CompilerIn(body, i, a).depth
<1> DEFINE n == Width(body, i)
           c(m) == CompilerIn(body, i, m)
           w == Statement(body[i])
           chunk == Chunk(body)
           A == {k \in 0 .. n - a : c(a + k).locals = c(a).locals /\ c(a + k).depth = c(a).depth}
<1>1. /\ n \in Nat /\ \A m \in 0 .. n : InChunk(c(m), chunk)
      /\ \A m \in 1 .. n : c(m) = Do(c(m - 1), w[m])
      /\ IsList(chunk.code) /\ IsList(chunk.values)
  BY Compilation
<1>2. Len(chunk.values) \in Nat /\ Len(chunk.values) <= Bytes /\ Len(chunk.code) \in Nat
  BY <1>1, ListIs DEF Compilable
<1> HIDE DEF n, c, w, chunk
<1>3. a \in Nat /\ n - a \in Nat /\ a + 0 = a BY <1>1 DEF n
<1>4. 0 \in A BY <1>3
<1>5. ASSUME NEW k \in 0 .. (n - a) - 1, k \in A PROVE k + 1 \in A
  <2> DEFINE m == a + (k + 1)
  <2>1. m \in a + 1 .. n /\ m \in 1 .. n /\ m - 1 = a + k /\ m \in 0 .. n /\ m - 1 \in 0 .. n /\ k + 1 \in 0 .. n - a
    BY <1>1, <1>3
  <2> HIDE DEF m
  <2>2. w[m].do \in Emitting BY <2>1 DEF w, n
  <2>3. c(m) = Do(c(m - 1), w[m]) /\ InChunk(c(m), chunk) /\ InChunk(c(m - 1), chunk) BY <1>1, <2>1
  <2>4. Do(c(m - 1), w[m]).depth = c(m - 1).depth /\ Do(c(m - 1), w[m]).locals = c(m - 1).locals
    BY <1>2, <2>2, <2>3, Emissions
  <2>5. c(a + k).locals = c(a).locals /\ c(a + k).depth = c(a).depth BY <1>5
  <2>6. c(m).locals = c(a).locals /\ c(m).depth = c(a).depth BY <2>1, <2>3, <2>4, <2>5
  <2> QED BY <2>1, <2>6 DEF m
<1>6. 0 .. n - a \subseteq A
  <2> HIDE DEF A
  <2> QED BY <1>3, <1>4, <1>5, UpTo
<1>7. ASSUME NEW m \in a .. n PROVE c(m).locals = c(a).locals /\ c(m).depth = c(a).depth
  <2>1. m - a \in 0 .. n - a /\ a + (m - a) = m BY <1>1, <1>3
  <2>2. m - a \in A BY <1>6, <2>1
  <2> QED BY <2>1, <2>2
<1> QED BY <1>7 DEF n, c

StatementGoes(c, e, s) ==
  /\ s.st \notin {"let", "open", "close"} => e.locals = c.locals /\ e.depth = c.depth
  /\ s.st = "open" => e.locals = c.locals /\ e.depth = c.depth + 1 /\ e.code = c.code
  /\ s.st = "let" =>
       /\ e.locals = Append(c.locals, NewLocal(c, s.name)) /\ e.depth = c.depth
       /\ \A l \in DOMAIN c.locals : c.locals[l] # NewLocal(c, s.name)
       /\ Len(c.locals) + 1 # Bytes - 1
  /\ s.st = "close" => e = CloseScope(c)

LEMMA TidyParts ==
  ASSUME NEW body, Compilable(body), NEW i \in 1 .. Len(body)
  PROVE  IsStatement(body[i]) /\ TidyStep(body[i])
BY DEF Compilable, IsTidy, TidyStep, WellFormed

(* The compiler after a statement, its locals and its depth.               *)
LEMMA StatementsGo ==
  ASSUME NEW body, Compilable(body), NEW i \in 1 .. Len(body)
  PROVE  /\ StatementGoes(AfterStatement(body, i - 1), AfterStatement(body, i), body[i])
         /\ body[i].st = "let" => /\ CompilerIn(body, i, 1).code = AfterStatement(body, i - 1).code
                                  /\ 1 <= Width(body, i)
<1> DEFINE s == body[i]
           w == Statement(s)
           n == Width(body, i)
           c == AfterStatement(body, i - 1)
           e == AfterStatement(body, i)
           at(m) == CompilerIn(body, i, m)
<1>1. IsStatement(s) /\ TidyStep(s) BY TidyParts
<1>2. /\ n \in Nat /\ at(0) = c /\ at(n) = e
      /\ \A m \in 0 .. n : InChunk(at(m), Chunk(body))
      /\ \A m \in 1 .. n : at(m) = Do(at(m - 1), w[m])
  BY Compilation
<1>3. n = Len(w) BY DEF Width
<1>4. \A m \in 1 .. Len(w) : s.st \notin {"open", "close"} /\ ~(s.st = "let" /\ m = 1) => w[m].do \in Emitting
  BY <1>1, VisitsEmit
<1>5. CASE s.st \notin {"let", "open", "close"}
  <2>1. 0 \in 0 .. n /\ \A m \in 0 + 1 .. n : w[m].do \in Emitting BY <1>2, <1>3, <1>4, <1>5
  <2>2. \A m \in 0 .. n : at(m).locals = at(0).locals /\ at(m).depth = at(0).depth BY <2>1, LocalsStay
  <2>3. n \in 0 .. n BY <1>2
  <2>4. e.locals = c.locals /\ e.depth = c.depth BY <1>2, <2>2, <2>3
  <2> HIDE DEF s, c, e
  <2> QED BY <1>5, <2>4 DEF StatementGoes, s, c, e
<1>6. CASE s.st \in {"open", "close"}
  <2>0. w = <<[do |-> s.st]>> BY <1>6, StatementIs
  <2>1. n = 1 /\ w[1] = [do |-> s.st]
    <3>1. Len(<<[do |-> s.st]>>) = 1 /\ <<[do |-> s.st]>>[1] = [do |-> s.st] BY ListOne
    <3> QED BY <1>3, <2>0, <3>1
  <2>2. e = Do(c, w[1])
    <3>1. 1 \in 1 .. n /\ 1 - 1 = 0 BY <2>1
    <3>2. at(1) = Do(at(1 - 1), w[1]) BY <1>2, <3>1
    <3>3. at(1) = e BY <1>2, <2>1
    <3> QED BY <1>2, <3>1, <3>2, <3>3
  <2>3. IsCompiler(c) /\ ~c.err
    <3>1. 0 \in 0 .. n BY <1>2
    <3> QED BY <1>2, <3>1 DEF InChunk
  <2>4. w[1].do = s.st BY <2>1
  <2> HIDE DEF w, c, e, s, at
  <2>5. CASE s.st = "open"
    <3>1. w[1].do = "open" BY <2>4, <2>5
    <3>2. e.code = c.code /\ e.locals = c.locals /\ e.depth = c.depth + 1 BY <2>2, <2>3, <3>1, Opened
    <3> QED BY <2>5, <3>2 DEF StatementGoes, s, c, e
  <2>6. CASE s.st = "close"
    <3>1. w[1].do = "close" BY <2>4, <2>6
    <3>2. e = CloseScope(c) BY <2>2, <2>3, <3>1, DoIs
    <3> QED BY <2>6, <3>2 DEF StatementGoes, s, c, e
  <2> QED BY <1>6, <2>5, <2>6
<1>7. CASE s.st = "let"
  <2>1. s.e \in Trees /\ Plain[s.e] /\ Calculates(s) BY <1>1, <1>7 DEF IsStatement, TidyStep, Calculates
  <2>2. w[1] = Declare(s.name) /\ Len(w) = (InFront(s) + Len(Visited(s))) + Behind(s) /\ Len(Visited(s)) \in Nat
    BY <1>1, <1>7, <2>1, CalculatingShape
  <2>3. InFront(s) = 1 /\ Behind(s) = 0 BY <1>7 DEF InFront, Behind
  <2>4. n \in Nat /\ 1 <= n BY <1>2, <1>3, <2>2, <2>3
  <2>5. at(1) = DeclLocal(c, s.name)
    <3>1. 1 \in 1 .. n /\ 1 - 1 = 0 BY <2>4
    <3>2. at(1) = Do(c, Declare(s.name)) BY <1>2, <2>2, <3>1
    <3>3. ~c.err
      <4>1. 0 \in 0 .. n BY <1>2
      <4> QED BY <1>2, <4>1 DEF InChunk
    <3>4. Declare(s.name).do = "declare" /\ Declare(s.name).name = s.name BY DEF Declare
    <3> HIDE DEF c, s, at
    <3> QED BY <3>2, <3>3, <3>4, DoIs
  <2>6. ~at(1).err /\ IsCompiler(c) /\ ~c.err
    <3>1. 0 \in 0 .. n /\ 1 \in 0 .. n BY <2>4
    <3> QED BY <1>2, <3>1 DEF InChunk
  <2>7. /\ at(1).code = c.code /\ at(1).locals = Append(c.locals, NewLocal(c, s.name)) /\ at(1).depth = c.depth
        /\ \A l \in DOMAIN c.locals : c.locals[l] # NewLocal(c, s.name)
        /\ Len(c.locals) + 1 # Bytes - 1
    BY <2>5, <2>6, Declared
  <2>8. 1 \in 0 .. n /\ \A m \in 1 + 1 .. n : w[m].do \in Emitting BY <1>3, <1>4, <1>7, <2>4
  <2>9. \A m \in 1 .. n : at(m).locals = at(1).locals /\ at(m).depth = at(1).depth BY <2>8, LocalsStay
  <2>10. n \in 1 .. n BY <2>4
  <2>11. e.locals = at(1).locals /\ e.depth = at(1).depth BY <1>2, <2>9, <2>10
  <2> HIDE DEF s, c, e, at, n
  <2> QED BY <1>7, <2>4, <2>7, <2>11 DEF StatementGoes, s, c, e, at, n
<1> QED BY <1>5, <1>6, <1>7

(* The locals of the compiler are the names of the environment.            *)
Linked(c, env, sc) ==
  /\ IsList(env) /\ IsList(sc) /\ Len(env) = c.depth /\ Len(sc) = c.depth /\ c.depth >= 1
  /\ \A d \in 1 .. Len(env) :
       /\ sc[d] = DOMAIN env[d]
       /\ \A x \in DOMAIN env[d] : /\ env[d][x].kind # "void"
                                   /\ \E l \in 1 .. Len(c.locals) : c.locals[l] = [name |-> x, depth |-> d]
  /\ \A l \in 1 .. Len(c.locals) :
       LET v == c.locals[l] IN
       v = [name |-> v.name, depth |-> v.depth] /\ v.depth \in 1 .. Len(env) /\ v.name \in DOMAIN env[v.depth]
  /\ \A k, l \in 1 .. Len(c.locals) :
       k < l => c.locals[k].depth <= c.locals[l].depth /\ c.locals[k] # c.locals[l]
  /\ Len(c.locals) < Bytes - 1

LEMMA LinkedFirst ==
  ASSUME NEW body, Compilable(body)
  PROVE  Linked(AfterStatement(body, 0), Runs(body)[0].env, Scopes(body)[0]) /\ Runs(body)[0] = Nothing
<1> DEFINE c == AfterStatement(body, 0)
           d == [do |-> "open"]
           f == <<>>
           env == <<f>>
           sc == <<{}>>
<1>1. IsList(body) BY DEF Compilable, WellFormed
<1>2. Runs(body)[0] = Nothing /\ Scopes(body)[0] = sc BY <1>1, RunsGo, ScopesPass DEF RunsTo, PassesTo
<1>3. Nothing.env = env BY DEF Nothing
<1>4. c = Do(NewCompiler, d) BY Compilation
<1>5. c.locals = <<>> /\ c.depth = 1
  <2>1. d.do = "open" /\ ~NewCompiler.err /\ NewCompiler.locals = <<>> /\ NewCompiler.depth = 0
    BY DEF NewCompiler
  <2> HIDE DEF c, d
  <2>2. c.locals = NewCompiler.locals /\ c.depth = NewCompiler.depth + 1
    BY <1>4, <2>1, NewIsCompiler, Opened
  <2> QED BY <2>1, <2>2
<1>6. DOMAIN f = {} /\ Len(f) = 0 OBVIOUS
<1> HIDE DEF f, c
<1>7. IsList(env) /\ Len(env) = 1 /\ env[1] = f BY ListOne
<1>8. IsList(sc) /\ Len(sc) = 1 /\ sc[1] = {} BY ListOne
<1>9. Len(c.locals) = 0 BY <1>5, <1>6 DEF f
<1> HIDE DEF env, sc
<1>10. \A i \in 1 .. 1 : i = 1 OBVIOUS
<1>11. 0 < Bytes - 1 BY ByteAssumption
<1>12. \A dd \in 1 .. Len(env) : sc[dd] = {} /\ env[dd] = f /\ DOMAIN env[dd] = {}
  BY <1>6, <1>7, <1>8, <1>10
<1>13. \A l \in 1 .. Len(c.locals) : FALSE BY <1>9
<1>14. Len(env) = c.depth /\ Len(sc) = c.depth /\ c.depth >= 1 /\ Len(c.locals) < Bytes - 1
  BY <1>5, <1>7, <1>8, <1>9, <1>11
<1>15. Linked(c, env, sc) BY <1>7, <1>8, <1>12, <1>13, <1>14 DEF Linked
<1> QED BY <1>2, <1>3, <1>15 DEF c, env

LEMMA LinkedOpen ==
  ASSUME NEW c, NEW env, NEW sc, Linked(c, env, sc), NEW e, e.locals = c.locals, e.depth = c.depth + 1
  PROVE  Linked(e, Append(env, <<>>), Append(sc, {}))
<1> DEFINE f == <<>>
           r == Append(env, f)
           t == Append(sc, {})
           n == Len(env)
<1>1. DOMAIN f = {} OBVIOUS
<1> HIDE DEF f
<1>2. IsList(env) /\ n \in Nat /\ IsList(sc) /\ Len(sc) = n /\ c.depth = n /\ n >= 1
  BY ListIs DEF Linked
<1>3. IsList(r) /\ Len(r) = n + 1 /\ Within(env, r) /\ r[n + 1] = f BY <1>2, ListAppend
<1>4. IsList(t) /\ Len(t) = n + 1 /\ Within(sc, t) /\ t[n + 1] = {} BY <1>2, ListAppend
<1> HIDE DEF r, t, n
<1>5. \A d \in 1 .. n : r[d] = env[d] /\ t[d] = sc[d] BY <1>2, <1>3, <1>4 DEF Within, n
<1>6. ASSUME NEW d \in 1 .. Len(r)
      PROVE  /\ t[d] = DOMAIN r[d]
             /\ \A x \in DOMAIN r[d] : /\ r[d][x].kind # "void"
                                       /\ \E l \in 1 .. Len(e.locals) : e.locals[l] = [name |-> x, depth |-> d]
  <2>1. CASE d \in 1 .. n
    <3>1. r[d] = env[d] /\ t[d] = sc[d] BY <1>5, <2>1
    <3>2. d \in 1 .. Len(env) BY <2>1 DEF n
    <3> QED BY <3>1, <3>2 DEF Linked
  <2>2. CASE d = n + 1 BY <1>1, <1>3, <1>4, <2>2
  <2> QED BY <1>2, <1>3, <2>1, <2>2
<1>7. ASSUME NEW l \in 1 .. Len(e.locals)
      PROVE  LET v == e.locals[l] IN
             v = [name |-> v.name, depth |-> v.depth] /\ v.depth \in 1 .. Len(r) /\ v.name \in DOMAIN r[v.depth]
  <2> DEFINE v == e.locals[l]
  <2>1. v = [name |-> v.name, depth |-> v.depth] /\ v.depth \in 1 .. n /\ v.name \in DOMAIN env[v.depth]
    BY DEF Linked, n
  <2> HIDE DEF v
  <2>2. v.depth \in 1 .. Len(r) /\ r[v.depth] = env[v.depth] BY <1>2, <1>3, <1>5, <2>1
  <2> QED BY <2>1, <2>2 DEF v
<1>8. Len(r) = e.depth /\ Len(t) = e.depth /\ e.depth >= 1 BY <1>2, <1>3, <1>4
<1>9. /\ \A k, l \in 1 .. Len(e.locals) :
           k < l => e.locals[k].depth <= e.locals[l].depth /\ e.locals[k] # e.locals[l]
      /\ Len(e.locals) < Bytes - 1
  BY DEF Linked
<1>10. Linked(e, r, t) BY <1>3, <1>4, <1>6, <1>7, <1>8, <1>9 DEF Linked
<1> QED BY <1>10 DEF r, t, f

LEMMA LinkedClose ==
  ASSUME NEW c, IsCompiler(c), NEW env, NEW sc, Linked(c, env, sc), Len(sc) > 1, NEW e, e = CloseScope(c)
  PROVE  Linked(e, SubSeq(env, 1, Len(env) - 1), SubSeq(sc, 1, Len(sc) - 1))
<1> DEFINE n == Len(env)
           m == n - 1
           r == SubSeq(env, 1, m)
           t == SubSeq(sc, 1, m)
           q == Kept(c)
<1>1. IsList(env) /\ n \in Nat /\ IsList(sc) /\ Len(sc) = n /\ c.depth = n /\ n > 1 BY ListIs DEF Linked
<1>2. /\ e.depth = c.depth - 1 /\ q \in 0 .. Len(c.locals) /\ Len(e.locals) = q
      /\ \A i \in 1 .. q : e.locals[i] = c.locals[i]
      /\ \A i \in DOMAIN c.locals : c.locals[i].depth < c.depth => i <= q
      /\ q # 0 => c.locals[q].depth < c.depth
  BY Closed
<1>3. Len(c.locals) \in Nat /\ DOMAIN c.locals = 1 .. Len(c.locals) BY ListIs DEF IsCompiler
<1>4. m \in 0 .. n /\ m < n /\ m >= 1 /\ m \in Nat BY <1>1
<1> HIDE DEF n, m
<1>5. IsList(r) /\ Len(r) = m /\ \A i \in 1 .. m : r[i] = env[i] BY <1>1, <1>4, ListIs DEF n
<1>6. IsList(t) /\ Len(t) = m /\ \A i \in 1 .. m : t[i] = sc[i] BY <1>1, <1>4, ListIs
<1> HIDE DEF r, t, q
<1>7. \A d \in 1 .. m : d \in 1 .. n /\ d < n BY <1>1, <1>4
<1>8. \A l \in 1 .. q : l \in 1 .. Len(c.locals) BY <1>2, <1>3
<1>9. ASSUME NEW l \in 1 .. q PROVE c.locals[l].depth \in 1 .. m
  <2>1. q # 0 /\ q \in 1 .. Len(c.locals) /\ l <= q /\ l \in 1 .. Len(c.locals) BY <1>2, <1>3
  <2>2. c.locals[q].depth < n /\ c.locals[l].depth \in 1 .. n /\ c.locals[q].depth \in 1 .. n
    BY <1>1, <1>2, <2>1 DEF Linked, n
  <2>3. c.locals[l].depth <= c.locals[q].depth
    <3>1. CASE l = q BY <2>2, <3>1
    <3>2. CASE l < q BY <2>1, <3>2 DEF Linked
    <3> QED BY <2>1, <3>1, <3>2
  <2> QED BY <1>1, <2>2, <2>3 DEF m
<1>10. ASSUME NEW d \in 1 .. m
       PROVE  /\ t[d] = DOMAIN r[d]
              /\ \A x \in DOMAIN r[d] : /\ r[d][x].kind # "void"
                                        /\ \E l \in 1 .. q : e.locals[l] = [name |-> x, depth |-> d]
  <2>1. r[d] = env[d] /\ t[d] = sc[d] /\ d \in 1 .. Len(env) BY <1>5, <1>6, <1>7 DEF n
  <2>2. ASSUME NEW x \in DOMAIN env[d]
        PROVE  env[d][x].kind # "void" /\ \E l \in 1 .. q : e.locals[l] = [name |-> x, depth |-> d]
    <3>1. PICK l \in 1 .. Len(c.locals) : c.locals[l] = [name |-> x, depth |-> d] BY <2>1 DEF Linked
    <3>2. c.locals[l].depth < c.depth BY <1>1, <1>7, <3>1
    <3>3. l \in 1 .. q BY <1>2, <1>3, <3>2
    <3> QED BY <1>2, <2>1, <3>1, <3>3 DEF Linked
  <2> QED BY <2>1, <2>2 DEF Linked
<1>11. ASSUME NEW l \in 1 .. q
       PROVE  LET v == e.locals[l] IN
              v = [name |-> v.name, depth |-> v.depth] /\ v.depth \in 1 .. m /\ v.name \in DOMAIN r[v.depth]
  <2> DEFINE v == c.locals[l]
  <2>1. v = [name |-> v.name, depth |-> v.depth] /\ v.name \in DOMAIN env[v.depth] BY <1>8 DEF Linked
  <2>2. v.depth \in 1 .. m /\ e.locals[l] = v BY <1>2, <1>9
  <2> HIDE DEF v
  <2>3. r[v.depth] = env[v.depth] BY <1>5, <2>2
  <2> QED BY <2>1, <2>2, <2>3
<1>12. \A k, l \in 1 .. q : k < l => e.locals[k].depth <= e.locals[l].depth /\ e.locals[k] # e.locals[l]
  <2>1. \A k, l \in 1 .. Len(c.locals) :
          k < l => c.locals[k].depth <= c.locals[l].depth /\ c.locals[k] # c.locals[l]
    BY DEF Linked
  <2> TAKE k, l \in 1 .. q
  <2>2. e.locals[k] = c.locals[k] /\ e.locals[l] = c.locals[l] BY <1>2
  <2>3. k \in 1 .. Len(c.locals) /\ l \in 1 .. Len(c.locals) BY <1>8
  <2> QED BY <2>1, <2>2, <2>3
<1>13. q < Bytes - 1
  <2>1. Len(c.locals) < Bytes - 1 BY DEF Linked
  <2> QED BY <1>2, <1>3, <2>1, ByteAssumption
<1>14. Len(r) = e.depth /\ Len(t) = e.depth /\ e.depth >= 1 BY <1>1, <1>2, <1>4, <1>5, <1>6 DEF m
<1>15. Linked(e, r, t) BY <1>2, <1>5, <1>6, <1>10, <1>11, <1>12, <1>13, <1>14 DEF Linked
<1>16. r = SubSeq(env, 1, n - 1) /\ t = SubSeq(sc, 1, Len(sc) - 1) BY <1>1 DEF r, t, m
<1> QED BY <1>15, <1>16 DEF n

Put(s, d, v) == [s EXCEPT ![d] = v]

LEMMA ListExcept ==
  ASSUME NEW s, IsList(s), NEW d \in 1 .. Len(s), NEW v
  PROVE  LET r == Put(s, d, v) IN
         IsList(r) /\ Len(r) = Len(s) /\ r[d] = v /\ \A j \in 1 .. Len(s) : j # d => r[j] = s[j]
<1> DEFINE r == Put(s, d, v)
<1>0. r = [s EXCEPT ![d] = v] BY DEF Put
<1> HIDE DEF r
<1>1. PICK S : s \in Seq(S) BY DEF IsList
<1> DEFINE T == S \cup {v}
<1>2. S \subseteq T /\ v \in T OBVIOUS
<1> HIDE DEF T
<1>3. s \in Seq(T) BY <1>1, <1>2, SeqMonotonic
<1>4. r \in Seq(T) /\ Len(r) = Len(s) /\ r[d] = v /\ \A j \in 1 .. Len(s) : j # d => r[j] = s[j]
  BY <1>0, <1>2, <1>3
<1>5. IsList(r) BY <1>4 DEF IsList
<1> QED BY <1>4, <1>5 DEF r

LEMMA LinkedLet ==
  ASSUME NEW c, IsCompiler(c), NEW env, NEW sc, Linked(c, env, sc), NEW name, NEW v, v.kind # "void",
         NEW e, e.locals = Append(c.locals, NewLocal(c, name)), e.depth = c.depth,
         \A l \in DOMAIN c.locals : c.locals[l] # NewLocal(c, name), Len(c.locals) + 1 # Bytes - 1
  PROVE  Linked(e, Bind(env, Len(env), name, v), [sc EXCEPT ![Len(sc)] = @ \cup {name}])
<1> DEFINE n == Len(env)
           r == Bind(env, n, name, v)
           x0 == sc[n] \cup {name}
           t == [sc EXCEPT ![n] = x0]
           new == NewLocal(c, name)
           k0 == Len(c.locals)
           s == Append(c.locals, new)
<1>1. IsList(env) /\ n \in Nat /\ IsList(sc) /\ Len(sc) = n /\ c.depth = n /\ n >= 1 /\ n \in 1 .. n
  BY ListIs DEF Linked
<1>2. IsList(c.locals) /\ k0 \in Nat /\ DOMAIN c.locals = 1 .. k0 BY ListIs DEF IsCompiler
<1>3. new = [name |-> name, depth |-> n] BY <1>1 DEF NewLocal
<1>4. e.locals = s /\ Len(s) = k0 + 1 /\ s[k0 + 1] = new /\ \A l \in 1 .. k0 : s[l] = c.locals[l]
  BY <1>2, ListAppend DEF Within
<1>5. /\ IsList(r) /\ Len(r) = n /\ DOMAIN r[n] = DOMAIN env[n] \cup {name} /\ r[n][name] = v
      /\ \A x \in DOMAIN env[n] : x # name => r[n][x] = env[n][x]
      /\ \A j \in 1 .. n : j # n => r[j] = env[j]
  BY <1>1, BindIs
<1>6. IsList(t) /\ Len(t) = n /\ t[n] = x0 /\ \A j \in 1 .. n : j # n => t[j] = sc[j]
  <2>1. n \in 1 .. Len(sc) /\ Len(sc) = n BY <1>1
  <2>2. t = Put(sc, n, x0) BY DEF Put
  <2> HIDE DEF x0, n, t
  <2>3. IsList(sc) BY <1>1
  <2>4. IsList(t) /\ Len(t) = Len(sc) /\ t[n] = x0 /\ \A j \in 1 .. Len(sc) : j # n => t[j] = sc[j]
    BY <2>1, <2>2, <2>3, ListExcept
  <2> QED BY <2>1, <2>4
<1>7. Linked(e, r, t)
  <2>0. t[n] = sc[n] \cup {name} BY <1>6
  <2> HIDE DEF r, t, s, new, n, k0, x0
  <2>1. /\ \A d \in 1 .. n :
             /\ sc[d] = DOMAIN env[d]
             /\ \A x \in DOMAIN env[d] : /\ env[d][x].kind # "void"
                                         /\ \E l \in 1 .. k0 : c.locals[l] = [name |-> x, depth |-> d]
        /\ \A l \in 1 .. k0 :
             LET u == c.locals[l] IN
             u = [name |-> u.name, depth |-> u.depth] /\ u.depth \in 1 .. n /\ u.name \in DOMAIN env[u.depth]
        /\ \A k, l \in 1 .. k0 :
             k < l => c.locals[k].depth <= c.locals[l].depth /\ c.locals[k] # c.locals[l]
        /\ k0 < Bytes - 1
    BY DEF Linked, n, k0
  <2>2. \A l \in 1 .. k0 : l \in 1 .. k0 + 1 BY <1>2
  <2>3. ASSUME NEW d \in 1 .. n
        PROVE  /\ t[d] = DOMAIN r[d]
               /\ \A x \in DOMAIN r[d] : /\ r[d][x].kind # "void"
                                         /\ \E l \in 1 .. k0 + 1 : s[l] = [name |-> x, depth |-> d]
    <3>1. CASE d # n
      <4>1. r[d] = env[d] /\ t[d] = sc[d] BY <1>5, <1>6, <3>1
      <4>2. ASSUME NEW x \in DOMAIN env[d] PROVE \E l \in 1 .. k0 + 1 : s[l] = [name |-> x, depth |-> d]
        <5>1. PICK l \in 1 .. k0 : c.locals[l] = [name |-> x, depth |-> d] BY <2>1
        <5> QED BY <1>4, <2>2, <5>1
      <4> QED BY <2>1, <4>1, <4>2
    <3>2. CASE d = n
      <4>1. t[d] = DOMAIN r[d] BY <1>5, <2>0, <2>1, <3>2
      <4>2. ASSUME NEW x \in DOMAIN r[d]
            PROVE  r[d][x].kind # "void" /\ \E l \in 1 .. k0 + 1 : s[l] = [name |-> x, depth |-> d]
        <5>1. CASE x = name
          <6>1. k0 + 1 \in 1 .. k0 + 1 /\ s[k0 + 1] = [name |-> x, depth |-> d]
            BY <1>2, <1>3, <1>4, <3>2, <5>1
          <6>2. r[d][x].kind # "void" BY <1>5, <3>2, <5>1
          <6> QED BY <6>1, <6>2
        <5>2. CASE x # name
          <6>1. x \in DOMAIN env[d] /\ r[d][x] = env[d][x] BY <1>5, <3>2, <4>2, <5>2
          <6>2. PICK l \in 1 .. k0 : c.locals[l] = [name |-> x, depth |-> d] BY <2>1, <6>1
          <6>3. env[d][x].kind # "void" BY <2>1, <6>1
          <6> QED BY <1>4, <2>2, <6>1, <6>2, <6>3
        <5> QED BY <5>1, <5>2
      <4> QED BY <4>1, <4>2
    <3> QED BY <3>1, <3>2
  <2>4. ASSUME NEW l \in 1 .. k0 + 1
        PROVE  LET u == s[l] IN
               u = [name |-> u.name, depth |-> u.depth] /\ u.depth \in 1 .. n /\ u.name \in DOMAIN r[u.depth]
    <3>1. CASE l = k0 + 1
      <4>1. s[l] = [name |-> name, depth |-> n] BY <1>3, <1>4, <3>1
      <4> QED BY <1>1, <1>5, <4>1
    <3>2. CASE l # k0 + 1
      <4> DEFINE u == c.locals[l]
      <4>1. l \in 1 .. k0 BY <1>2, <3>2
      <4>2. u = [name |-> u.name, depth |-> u.depth] /\ u.depth \in 1 .. n /\ u.name \in DOMAIN env[u.depth] /\ s[l] = u
        BY <1>4, <2>1, <4>1
      <4> HIDE DEF u
      <4>3. u.name \in DOMAIN r[u.depth] BY <1>5, <4>2
      <4> QED BY <4>2, <4>3
    <3> QED BY <3>1, <3>2
  <2>5. ASSUME NEW k \in 1 .. k0 + 1, NEW l \in 1 .. k0 + 1, k < l
        PROVE  s[k].depth <= s[l].depth /\ s[k] # s[l]
    <3>1. k \in 1 .. k0 /\ s[k] = c.locals[k] BY <1>2, <1>4, <2>5
    <3>2. CASE l = k0 + 1
      <4>1. s[l] = new /\ new.depth = n BY <1>3, <1>4, <3>2
      <4>2. c.locals[k].depth \in 1 .. n BY <2>1, <3>1
      <4>3. c.locals[k].depth <= n BY <1>1, <4>2
      <4>4. c.locals[k] # new BY <1>2, <3>1 DEF new
      <4> QED BY <3>1, <4>1, <4>3, <4>4
    <3>3. CASE l # k0 + 1
      <4>1. l \in 1 .. k0 /\ s[l] = c.locals[l] BY <1>2, <1>4, <3>3
      <4> QED BY <2>1, <2>5, <3>1, <4>1
    <3> QED BY <3>2, <3>3
  <2>6. Len(s) < Bytes - 1
    <3>1. k0 + 1 # Bytes - 1 BY DEF k0
    <3> QED BY <1>2, <1>4, <2>1, <3>1, ByteAssumption
  <2>7. Len(r) = e.depth /\ Len(t) = e.depth /\ e.depth >= 1 BY <1>1, <1>5, <1>6
  <2>8. \A d \in 1 .. Len(r) : d \in 1 .. n BY <1>5
  <2> QED BY <1>4, <1>5, <1>6, <2>3, <2>4, <2>5, <2>6, <2>7 DEF Linked
<1>8. t = [sc EXCEPT ![Len(sc)] = sc[Len(sc)] \cup {name}] BY <1>1
<1> QED BY <1>7, <1>8 DEF r, n

LEMMA LinkedAssign ==
  ASSUME NEW c, NEW env, NEW sc, Linked(c, env, sc), NEW d \in 1 .. Len(env), NEW name \in DOMAIN env[d],
         NEW v, v.kind # "void", NEW e, e.locals = c.locals, e.depth = c.depth
  PROVE  Linked(e, Bind(env, d, name, v), sc)
<1> DEFINE n == Len(env)
           r == Bind(env, d, name, v)
<1>1. IsList(env) /\ n \in Nat BY ListIs DEF Linked
<1>2. /\ IsList(r) /\ Len(r) = n /\ DOMAIN r[d] = DOMAIN env[d] \cup {name} /\ r[d][name] = v
      /\ \A x \in DOMAIN env[d] : x # name => r[d][x] = env[d][x]
      /\ \A j \in 1 .. n : j # d => r[j] = env[j]
  BY <1>1, BindIs
<1> HIDE DEF r
<1>3. \A j \in 1 .. n : DOMAIN r[j] = DOMAIN env[j]
  <2> TAKE j \in 1 .. n
  <2>1. CASE j = d BY <1>2, <2>1
  <2>2. CASE j # d BY <1>2, <2>2
  <2> QED BY <2>1, <2>2
<1>4. ASSUME NEW j \in 1 .. n, NEW x \in DOMAIN r[j] PROVE r[j][x].kind # "void"
  <2>1. x \in DOMAIN env[j] /\ env[j][x].kind # "void"
    <3>1. \A y \in DOMAIN env[j] : env[j][y].kind # "void" BY DEF Linked
    <3> QED BY <1>3, <3>1
  <2>2. CASE j = d /\ x = name BY <1>2, <2>2
  <2>3. CASE j = d /\ x # name BY <1>2, <2>1, <2>3
  <2>4. CASE j # d BY <1>2, <2>1, <2>4
  <2> QED BY <2>2, <2>3, <2>4
<1>5. ASSUME NEW j \in 1 .. n
      PROVE  /\ sc[j] = DOMAIN r[j]
             /\ \A x \in DOMAIN r[j] : /\ r[j][x].kind # "void"
                                       /\ \E l \in 1 .. Len(e.locals) : e.locals[l] = [name |-> x, depth |-> j]
  <2>1. sc[j] = DOMAIN env[j] /\ \A x \in DOMAIN env[j] : \E l \in 1 .. Len(c.locals) : c.locals[l] = [name |-> x, depth |-> j]
    BY DEF Linked
  <2> QED BY <1>3, <1>4, <2>1
<1>6. ASSUME NEW l \in 1 .. Len(e.locals)
      PROVE  LET u == e.locals[l] IN
             u = [name |-> u.name, depth |-> u.depth] /\ u.depth \in 1 .. n /\ u.name \in DOMAIN r[u.depth]
  BY <1>3 DEF Linked
<1>7. /\ IsList(sc) /\ Len(r) = e.depth /\ Len(sc) = e.depth /\ e.depth >= 1 /\ Len(e.locals) < Bytes - 1
      /\ \A k, l \in 1 .. Len(e.locals) :
           k < l => e.locals[k].depth <= e.locals[l].depth /\ e.locals[k] # e.locals[l]
  BY <1>2 DEF Linked
<1>8. Linked(e, r, sc) BY <1>2, <1>5, <1>6, <1>7 DEF Linked
<1> QED BY <1>8 DEF r

(* A name is the local that was declared last, and that is the one of the  *)
(* innermost scope that has it.                                            *)
LEMMA Resolved ==
  ASSUME NEW c, IsCompiler(c), NEW env, NEW sc, Linked(c, env, sc), NEW name, name \in UNION ToSet(sc)
  PROVE  LET l == Resolve(c, name)
             d == Innermost(env, name)
         IN
         /\ l \in 1 .. Len(c.locals) /\ l \in 1 .. Bytes - 1 /\ d \in 1 .. Len(env) /\ name \in DOMAIN env[d]
         /\ c.locals[l] = [name |-> name, depth |-> d]
<1> DEFINE n == Len(env)
           k == Len(c.locals)
           slots == {i \in DOMAIN c.locals : c.locals[i].name = name}
           scopes == {i \in DOMAIN env : name \in DOMAIN env[i]}
           l == Resolve(c, name)
           d == Innermost(env, name)
<1>1. IsList(env) /\ n \in Nat /\ DOMAIN env = 1 .. n /\ IsList(sc) /\ Len(sc) = n /\ DOMAIN sc = 1 .. n
  <2>1. IsList(env) /\ IsList(sc) /\ Len(sc) = n BY DEF Linked
  <2> QED BY <2>1, ListIs
<1>2. k \in Nat /\ DOMAIN c.locals = 1 .. k BY ListIs DEF IsCompiler
<1>3. /\ \A i \in 1 .. n :
           /\ sc[i] = DOMAIN env[i]
           /\ \A x \in DOMAIN env[i] : \E j \in 1 .. k : c.locals[j] = [name |-> x, depth |-> i]
      /\ \A j \in 1 .. k :
           LET v == c.locals[j] IN
           v = [name |-> v.name, depth |-> v.depth] /\ v.depth \in 1 .. n /\ v.name \in DOMAIN env[v.depth]
      /\ \A i, j \in 1 .. k : i < j => c.locals[i].depth <= c.locals[j].depth
      /\ k < Bytes - 1
  BY DEF Linked
<1> HIDE DEF n, k
<1>4. scopes # {} /\ scopes \subseteq 0 .. n
  <2>1. PICK x \in ToSet(sc) : name \in x OBVIOUS
  <2>2. PICK i \in 1 .. n : sc[i] = x BY <1>1, <2>1 DEF ToSet
  <2> QED BY <1>1, <1>3, <2>1, <2>2
<1>5. d \in scopes /\ \A x \in scopes : x <= d
  <2>1. d = Max(scopes) BY DEF Innermost
  <2> HIDE DEF scopes, d
  <2> QED BY <1>1, <1>4, <2>1, GreatestOf
<1>6. d \in 1 .. n /\ name \in DOMAIN env[d]
  <2> HIDE DEF d
  <2> QED BY <1>1, <1>5
<1> HIDE DEF d
<1>7. PICK j \in 1 .. k : c.locals[j] = [name |-> name, depth |-> d] BY <1>3, <1>6
<1>8. slots # {} /\ slots \subseteq 0 .. k /\ j \in slots BY <1>2, <1>7
<1>9. l \in slots /\ \A x \in slots : x <= l
  <2>1. l = Max(slots) BY <1>8 DEF Resolve
  <2> HIDE DEF slots, l
  <2> QED BY <1>2, <1>8, <2>1, GreatestOf
<1> HIDE DEF l
<1>10. l \in 1 .. k /\ c.locals[l].name = name BY <1>2, <1>9
<1> DEFINE e == c.locals[l].depth
<1>11. c.locals[l] = [name |-> name, depth |-> e] /\ e \in 1 .. n /\ name \in DOMAIN env[e]
  BY <1>3, <1>10
<1> HIDE DEF e
<1>12. e <= d
  <2>1. e \in scopes BY <1>1, <1>11
  <2> HIDE DEF scopes
  <2> QED BY <1>5, <2>1
<1>13. d <= e
  <2>1. j <= l BY <1>8, <1>9
  <2>2. c.locals[j].depth = d /\ c.locals[l].depth = e BY <1>7, <1>11
  <2>3. CASE j = l BY <1>6, <1>11, <2>2, <2>3
  <2>4. CASE j # l
    <3>1. j < l BY <1>7, <1>10, <2>1, <2>4
    <3> QED BY <1>3, <1>7, <1>10, <2>2, <3>1
  <2> QED BY <2>3, <2>4
<1>14. e = d BY <1>6, <1>11, <1>12, <1>13
<1>15. l \in 1 .. Bytes - 1 BY <1>2, <1>3, <1>10, ByteAssumption
<1> QED BY <1>6, <1>10, <1>11, <1>14, <1>15 DEF l, d, n, k

LEMMA RunNext ==
  ASSUME NEW body, IsList(body)
  PROVE  /\ \A i \in 0 .. Len(body) : IsResult(Runs(body)[i])
         /\ \A i \in 1 .. Len(body) : /\ Runs(body)[i] = RunStatement(Runs(body)[i - 1], body[i])
                                      /\ ~Alive(Runs(body)[i - 1]) => Runs(body)[i] = Runs(body)[i - 1]
<1> DEFINE r == Runs(body)
           n == Len(body)
           A == {i \in 0 .. n : IsResult(r[i])}
<1>1. n \in Nat BY ListIs
<1>2. r[0] = Nothing /\ \A i \in 1 .. n : r[i] = RunStatement(r[i - 1], body[i]) BY RunsGo DEF RunsTo
<1> HIDE DEF r, n
<1>3. 0 \in A
  <2>1. IsResult(Nothing) BY DEF IsResult, Nothing
  <2> QED BY <1>1, <1>2, <2>1
<1>4. ASSUME NEW i \in 0 .. n - 1, i \in A PROVE i + 1 \in A
  <2>1. i + 1 \in 1 .. n /\ (i + 1) - 1 = i /\ i + 1 \in 0 .. n BY <1>1
  <2>2. r[i + 1] = RunStatement(r[i], body[i + 1]) BY <1>2, <2>1
  <2>3. IsResult(r[i]) BY <1>4
  <2>4. IsResult(RunStatement(r[i], body[i + 1])) BY <2>3, RunIs
  <2> QED BY <2>1, <2>2, <2>4
<1>5. 0 .. n \subseteq A
  <2> HIDE DEF A
  <2> QED BY <1>1, <1>3, <1>4, UpTo
<1>6. ASSUME NEW i \in 1 .. n, ~Alive(r[i - 1]) PROVE r[i] = r[i - 1]
  <2>1. i - 1 \in 0 .. n BY <1>1
  <2>2. IsResult(r[i - 1]) BY <1>5, <2>1
  <2>3. RunStatement(r[i - 1], body[i]) = r[i - 1] BY <1>6, <2>2, RunIs
  <2> QED BY <1>2, <2>3
<1> QED BY <1>2, <1>5, <1>6 DEF r, n

LEMMA LinkedNext ==
  ASSUME NEW body, Compilable(body), NEW i \in 1 .. Len(body), Alive(Runs(body)[i]), Alive(Runs(body)[i - 1]),
         Linked(AfterStatement(body, i - 1), Runs(body)[i - 1].env, Scopes(body)[i - 1])
  PROVE  Linked(AfterStatement(body, i), Runs(body)[i].env, Scopes(body)[i]) /\ Runs(body)[i].value = Runs(body)[i - 1].value
<1> DEFINE s == body[i]
           c == AfterStatement(body, i - 1)
           e == AfterStatement(body, i)
           r == Runs(body)[i - 1]
           t == Runs(body)[i]
           sc == Scopes(body)[i - 1]
           so == Scopes(body)[i]
<1>1. IsList(body) BY DEF Compilable, WellFormed
<1>2. IsStatement(s) /\ TidyStep(s) BY TidyParts
<1>3. i - 1 \in 0 .. Len(body) BY <1>1, ListIs
<1>4. IsResult(r) /\ t = RunStatement(r, s) BY <1>1, <1>3, RunNext
<1>5. so = PassStatement(sc, s) BY <1>1, ScopesPass DEF PassesTo
<1>6. IsCompiler(c) /\ ~c.err
  <2>1. InChunk(c, Chunk(body)) BY <1>3, Compilation
  <2> QED BY <2>1 DEF InChunk
<1>7. StatementGoes(c, e, s) BY StatementsGo
<1>8. Reads(s) \subseteq UNION ToSet(sc) /\ (s.st = "close" => Len(sc) > 1) BY DEF Compilable, IsTidy
<1>9. Linked(c, r.env, sc) /\ Alive(r) /\ Alive(t) OBVIOUS
<1> HIDE DEF s, c, e, r, t, sc, so
<1>10. LET u == t IN
         /\ s.st = "open" => SameResult(r, t) /\ t.env = Append(r.env, <<>>)
         /\ s.st = "close" => SameResult(r, t) /\ t.env = SubSeq(r.env, 1, Len(r.env) - 1)
         /\ s.st \in {"let", "assign", "return"} /\ Fails(s) => t.failed = TRUE
         /\ s.st = "let" /\ ~Fails(s) =>
              SameResult(r, t) /\ t.env = Bind(r.env, Len(r.env), s.name, ValueOf(s))
         /\ s.st = "assign" /\ ~Fails(s) =>
              SameResult(r, t) /\ t.env = Bind(r.env, Innermost(r.env, s.name), s.name, ValueOf(s))
         /\ s.st = "return" /\ ~Fails(s) => t.ended = TRUE
         /\ s.st = "expr" => t.env = r.env /\ t.value = r.value
  <2>1. s.st = "expr" /\ Judges(s) => t.env = r.env /\ t.value = r.value BY <1>4, <1>9, RunIs
  <2>2. s.st = "expr" /\ Prints(s) => t.env = r.env /\ t.value = r.value BY <1>4, <1>9, RunIs
  <2>3. s.st = "expr" /\ ~Judges(s) /\ ~Prints(s) => t.env = r.env /\ t.value = r.value
    BY <1>4, <1>9, RunIs
  <2>4. s.st = "expr" => t.env = r.env /\ t.value = r.value BY <2>1, <2>2, <2>3
  <2>5. s.st = "open" => SameResult(r, t) /\ t.env = Append(r.env, <<>>) BY <1>4, <1>9, RunIs
  <2>6. s.st = "close" => SameResult(r, t) /\ t.env = SubSeq(r.env, 1, Len(r.env) - 1)
    BY <1>4, <1>9, RunIs
  <2>7. s.st \in {"let", "assign", "return"} /\ Fails(s) => t.failed = TRUE BY <1>4, <1>9, RunIs
  <2>8. s.st = "let" /\ ~Fails(s) => SameResult(r, t) /\ t.env = Bind(r.env, Len(r.env), s.name, ValueOf(s))
    BY <1>4, <1>9, RunIs
  <2>9. s.st = "assign" /\ ~Fails(s) =>
          SameResult(r, t) /\ t.env = Bind(r.env, Innermost(r.env, s.name), s.name, ValueOf(s))
    BY <1>4, <1>9, RunIs
  <2>10. s.st = "return" /\ ~Fails(s) => t.ended = TRUE BY <1>4, <1>9, RunIs
  <2> QED BY <2>4, <2>5, <2>6, <2>7, <2>8, <2>9, <2>10
<1>11. CASE s.st = "open"
  <2>1. so = Append(sc, {}) BY <1>5, <1>11 DEF PassStatement
  <2>2. t.env = Append(r.env, <<>>) /\ t.value = r.value BY <1>10, <1>11 DEF SameResult
  <2>3. e.locals = c.locals /\ e.depth = c.depth + 1 BY <1>7, <1>11 DEF StatementGoes
  <2>4. Linked(e, Append(r.env, <<>>), Append(sc, {})) BY <1>9, <2>3, LinkedOpen
  <2> QED BY <2>1, <2>2, <2>4 DEF e, t, so, r
<1>12. CASE s.st = "close"
  <2>1. so = SubSeq(sc, 1, Len(sc) - 1) BY <1>5, <1>12 DEF PassStatement
  <2>2. t.env = SubSeq(r.env, 1, Len(r.env) - 1) /\ t.value = r.value BY <1>10, <1>12 DEF SameResult
  <2>3. e = CloseScope(c) /\ Len(sc) > 1 BY <1>7, <1>8, <1>12 DEF StatementGoes
  <2>4. Linked(e, SubSeq(r.env, 1, Len(r.env) - 1), SubSeq(sc, 1, Len(sc) - 1))
    BY <1>6, <1>9, <2>3, LinkedClose
  <2> QED BY <2>1, <2>2, <2>4 DEF e, t, so, r
<1>13. CASE s.st \in {"let", "assign", "return"} /\ Fails(s)
  <2>1. t.failed = TRUE BY <1>10, <1>13
  <2> QED BY <1>9, <2>1 DEF Alive
<1>14. CASE s.st = "let" /\ ~Fails(s)
  <2> DEFINE v == ValueOf(s)
  <2>1. so = [sc EXCEPT ![Len(sc)] = @ \cup {s.name}] BY <1>5, <1>14 DEF PassStatement
  <2>2. t.env = Bind(r.env, Len(r.env), s.name, v) /\ t.value = r.value BY <1>10, <1>14 DEF SameResult
  <2>3. /\ e.locals = Append(c.locals, NewLocal(c, s.name)) /\ e.depth = c.depth
        /\ \A l \in DOMAIN c.locals : c.locals[l] # NewLocal(c, s.name)
        /\ Len(c.locals) + 1 # Bytes - 1
    BY <1>7, <1>14 DEF StatementGoes
  <2>4. v.kind # "void" BY <1>14 DEF Fails
  <2> HIDE DEF v
  <2>5. Linked(e, Bind(r.env, Len(r.env), s.name, v), [sc EXCEPT ![Len(sc)] = @ \cup {s.name}])
    BY <1>6, <1>9, <2>3, <2>4, LinkedLet
  <2> QED BY <2>1, <2>2, <2>5 DEF e, t, so, r
<1>15. CASE s.st = "assign" /\ ~Fails(s)
  <2> DEFINE v == ValueOf(s)
             d == Innermost(r.env, s.name)
  <2>1. so = sc BY <1>5, <1>15 DEF PassStatement
  <2>2. t.env = Bind(r.env, d, s.name, v) /\ t.value = r.value BY <1>10, <1>15 DEF SameResult
  <2>3. e.locals = c.locals /\ e.depth = c.depth BY <1>7, <1>15 DEF StatementGoes
  <2>4. v.kind # "void" BY <1>15 DEF Fails
  <2>5. s.name \in UNION ToSet(sc) BY <1>8, <1>15 DEF Reads
  <2>6. d \in 1 .. Len(r.env) /\ s.name \in DOMAIN r.env[d] BY <1>6, <1>9, <2>5, Resolved
  <2> HIDE DEF v, d
  <2>7. Linked(e, Bind(r.env, d, s.name, v), sc) BY <1>9, <2>3, <2>4, <2>6, LinkedAssign
  <2> QED BY <2>1, <2>2, <2>7 DEF e, t, so, r
<1>16. CASE s.st = "return" /\ ~Fails(s)
  <2>1. t.ended = TRUE BY <1>10, <1>16
  <2> QED BY <1>9, <2>1 DEF Alive
<1>17. CASE s.st = "expr"
  <2>1. so = sc BY <1>5, <1>17 DEF PassStatement
  <2>2. t.env = r.env /\ t.value = r.value BY <1>10, <1>17
  <2>3. e.locals = c.locals /\ e.depth = c.depth BY <1>7, <1>17 DEF StatementGoes
  <2>4. Linked(e, r.env, sc)
    <3> HIDE DEF c, e, r, sc
    <3> QED BY <1>9, <2>3 DEF Linked
  <2> QED BY <2>1, <2>2, <2>4 DEF e, t, so, r
<1> QED BY <1>2, <1>11, <1>12, <1>13, <1>14, <1>15, <1>16, <1>17 DEF IsStatement, TidyStep

(* At each statement that is reached the compiler knows the environment.   *)
LEMMA LinkedAll ==
  ASSUME NEW body, Compilable(body), NEW i \in 0 .. Len(body), Alive(Runs(body)[i])
  PROVE  /\ Linked(AfterStatement(body, i), Runs(body)[i].env, Scopes(body)[i]) /\ Runs(body)[i].value = Void
         /\ i # 0 => Alive(Runs(body)[i - 1])
<1> DEFINE n == Len(body)
           r == Runs(body)
           P(j) == Linked(AfterStatement(body, j), r[j].env, Scopes(body)[j]) /\ r[j].value = Void
           A == {j \in 0 .. n : Alive(r[j]) => P(j)}
<1>1. IsList(body) /\ n \in Nat BY ListIs DEF Compilable, WellFormed
<1>2. \A j \in 1 .. n : Alive(r[j]) => Alive(r[j - 1]) BY <1>1, RunNext
<1>3. 0 \in A
  <2>1. Nothing.value = Void BY DEF Nothing
  <2>2. P(0) BY <2>1, LinkedFirst
  <2> QED BY <1>1, <2>2
<1>4. ASSUME NEW j \in 0 .. n - 1, j \in A PROVE j + 1 \in A
  <2>1. j + 1 \in 1 .. n /\ (j + 1) - 1 = j /\ j + 1 \in 0 .. n BY <1>1
  <2>2. ASSUME Alive(r[j + 1]) PROVE P(j + 1)
    <3>1. Alive(r[(j + 1) - 1]) BY <1>2, <2>1, <2>2
    <3>2. Alive(r[j]) BY <2>1, <3>1
    <3>3. P(j) BY <1>4, <3>2
    <3>4. P((j + 1) - 1) BY <2>1, <3>3
    <3>5. P(j + 1) BY <2>1, <2>2, <3>1, <3>4, LinkedNext
    <3> QED BY <3>5
  <2> HIDE DEF P
  <2> QED BY <2>1, <2>2
<1>5. 0 .. n \subseteq A
  <2> HIDE DEF A
  <2> QED BY <1>1, <1>3, <1>4, UpTo
<1>6. P(i)
  <2> HIDE DEF P
  <2> QED BY <1>5
<1>7. i # 0 => Alive(r[i - 1])
  <2>1. i # 0 => i \in 1 .. n BY <1>1
  <2> QED BY <1>2, <2>1
<1> QED BY <1>6, <1>7

-------------------------------------------------------------------------------
(* The steps of a statement: what they push, compute, call, set and return.*)

(* What is on the stack at each visit of a statement.                      *)
LEMMA EmptyList == IsList(<<>>) /\ Len(<<>>) = 0 /\ ~HasVoid(<<>>)
<1>1. <<>> \in Seq({}) /\ Len(<<>>) = 0 OBVIOUS
<1> DEFINE s == <<>>
<1> HIDE DEF s
<1>2. s \in Seq({}) /\ Len(s) = 0 BY <1>1 DEF s
<1>3. IsList(s) /\ ~HasVoid(s) BY <1>2 DEF IsList, HasVoid
<1> QED BY <1>1, <1>3 DEF s

LEMMA VoidAppend ==
  ASSUME NEW s, IsList(s), ~HasVoid(s), NEW x
  PROVE  HasVoid(Append(s, x)) <=> x.kind = "void"
<1> DEFINE t == Append(s, x)
<1>1. Len(s) \in Nat /\ Len(t) = Len(s) + 1 /\ t[Len(s) + 1] = x /\ \A i \in 1 .. Len(s) : t[i] = s[i]
  BY ListIs, ListAppend DEF Within
<1> HIDE DEF t
<1>2. ASSUME x.kind = "void" PROVE HasVoid(t)
  <2>1. Len(s) + 1 \in 1 .. Len(t) BY <1>1
  <2> QED BY <1>1, <1>2, <2>1 DEF HasVoid
<1>3. ASSUME HasVoid(t) PROVE x.kind = "void"
  <2>1. PICK i \in 1 .. Len(t) : t[i].kind = "void" BY <1>3 DEF HasVoid
  <2>2. CASE i = Len(s) + 1 BY <1>1, <2>1, <2>2
  <2>3. CASE i # Len(s) + 1
    <3>1. i \in 1 .. Len(s) BY <1>1, <2>3
    <3> QED BY <1>1, <2>1, <3>1 DEF HasVoid
  <2> QED BY <2>2, <2>3
<1> QED BY <1>2, <1>3 DEF t

LEMMA CalculatingValues ==
  ASSUME NEW s, IsStatement(s), Calculates(s), Plain[s.e], NEW env
  PROVE  LET w == Statement(s)
             h == Values(env, w)
             a == InFront(s)
             n == Len(Visited(s))
         IN
         /\ h[0] = <<>> /\ IsList(h[a]) /\ ~HasVoid(h[a]) /\ Len(h[a]) \in Nat
         /\ s.st = "let" => h[1] = <<>>
         /\ s.st = "assign" => h[1] = Append(h[0], Str(s.name)) /\ Len(h[1]) = 1
         /\ s.st # "assign" => h[a] = <<>>
         /\ Evaluated(ValueOf(s), n, h, w, a)
<1> DEFINE w == Statement(s)
           v == Visited(s)
           h == Values(env, w)
           a == InFront(s)
           n == Len(v)
<1>1. /\ s.e \in Trees /\ n \in Nat /\ IsList(w) /\ Len(w) = (a + n) + Behind(s) /\ Placed(w, a, v)
      /\ s.st = "let" => w[1] = Declare(s.name)
      /\ s.st = "assign" => w[1] = ValueStep(Str(s.name))
  BY CalculatingShape
<1>2. ExecsTo(h, env, w) BY <1>1, ValuesGo
<1> HIDE DEF w, v, h
<1>3. h[0] = <<>> BY <1>2 DEF ExecsTo
<1>4. Len(w) \in Nat /\ a \in 0 .. 1 /\ a + n <= Len(w) /\ Behind(s) \in 0 .. 1
  <2> DEFINE b == Behind(s)
  <2>1. a \in 0 .. 1 /\ b \in 0 .. 1 BY DEF InFront, Behind
  <2>2. Len(w) \in Nat BY <1>1, ListIs
  <2>3. n \in Nat /\ Len(w) = (a + n) + b BY <1>1
  <2> HIDE DEF a, b, n
  <2>4. a + n <= Len(w) BY <2>1, <2>2, <2>3
  <2> QED BY <2>1, <2>2, <2>4 DEF b
<1>5. ASSUME a = 1 PROVE h[1] = Exec(env, <<>>, w[1])
  <2>1. 1 \in 1 .. Len(w) /\ 1 - 1 = 0 BY <1>1, <1>4, <1>5
  <2>2. h[1] = Exec(env, h[1 - 1], w[1]) BY <1>2, <2>1 DEF ExecsTo
  <2> QED BY <1>3, <2>1, <2>2
<1>6. ASSUME s.st = "let" PROVE h[1] = <<>> /\ a = 1
  <2>1. a = 1 BY <1>6 DEF InFront
  <2>2. w[1].do = "declare" BY <1>1, <1>6 DEF Declare
  <2>3. Exec(env, <<>>, w[1]) = <<>> BY <2>2 DEF Exec
  <2> QED BY <1>5, <2>1, <2>3
<1>7. ASSUME s.st = "assign" PROVE h[1] = Append(h[0], Str(s.name)) /\ Len(h[1]) = 1 /\ a = 1 /\ IsList(h[1]) /\ ~HasVoid(h[1])
  <2> DEFINE x == Str(s.name)
             f == <<>>
  <2>1. a = 1 BY <1>7 DEF InFront
  <2>2. w[1].do = "value" /\ w[1].v = x BY <1>1, <1>7 DEF ValueStep
  <2>3. x.kind # "void" BY DEF Str
  <2>4. h[1] = Exec(env, f, w[1]) BY <1>5, <2>1
  <2>6. IsList(f) /\ Len(f) = 0 /\ ~HasVoid(f) BY EmptyList
  <2>7. h[0] = f BY <1>3
  <2> HIDE DEF f, x
  <2>5. h[1] = Append(f, x) BY <2>2, <2>4 DEF Exec
  <2>8. IsList(Append(f, x)) /\ Len(Append(f, x)) = 1
    <3>1. IsList(Append(f, x)) /\ Len(Append(f, x)) = Len(f) + 1 BY <2>6, ListAppend
    <3>2. Len(f) + 1 = 1 BY <2>6
    <3> QED BY <3>1, <3>2
  <2>9. ~HasVoid(Append(f, x)) BY <2>3, <2>6, VoidAppend
  <2> QED BY <2>1, <2>5, <2>7, <2>8, <2>9 DEF x
<1>8. ASSUME s.st # "assign" PROVE h[a] = <<>>
  <2>1. CASE s.st = "let" BY <1>6, <2>1
  <2>2. CASE s.st # "let"
    <3>1. a = 0 BY <1>8, <2>2 DEF InFront
    <3> QED BY <1>3, <3>1
  <2> QED BY <2>1, <2>2
<1>9. IsList(h[a]) /\ ~HasVoid(h[a])
  <2>1. CASE s.st = "assign" BY <1>7, <2>1
  <2>2. CASE s.st # "assign" BY <1>8, <2>2, EmptyList
  <2> QED BY <2>1, <2>2
<1>10. Evaluated(ValueOf(s), n, h, w, a)
  <2>1. Evaluates(KeepsTypes(s), s.e) /\ ValueOf(s) = Meaning(KeepsTypes(s))[s.e] BY <1>1, PlainEvaluates, VisitedIs
  <2>2. Placed(w, a, Turned(KeepsTypes(s), s.e)) /\ n = Len(Turned(KeepsTypes(s), s.e)) BY <1>1 DEF v, Visited
  <2> HIDE DEF a
  <2> QED BY <1>2, <1>9, <2>1, <2>2 DEF Evaluates, v
<1>11. Len(h[a]) \in Nat BY <1>9, ListIs
<1> QED BY <1>3, <1>6, <1>7, <1>8, <1>9, <1>10, <1>11 DEF w, v, h

LEMMA CallValues ==
  ASSUME NEW s, IsStatement(s), s.st = "expr", s.e.ex = "call", NEW env
  PROVE  LET w == Statement(s)
             h == Values(env, w)
             n == Len(s.e.args)
             x(k) == ValueIn(env, s.e.args[k])
         IN
         /\ h[0] = <<>> /\ h[1] = Append(h[0], Native(s.e.fn))
         /\ \A k \in 1 .. n : h[1 + k] = Append(h[k], x(k))
         /\ \A k \in 0 .. n : /\ IsList(h[1 + k]) /\ Len(h[1 + k]) = 1 + k /\ h[1 + k][1] = Native(s.e.fn)
                              /\ \A j \in 1 .. k : h[1 + k][1 + j] = x(j)
<1> DEFINE w == Statement(s)
           h == Values(env, w)
           n == Len(s.e.args)
           x(k) == ValueIn(env, s.e.args[k])
           f == Native(s.e.fn)
<1>1. /\ n \in Nat /\ \A k \in 1 .. n : IsLeaf(s.e.args[k])
      /\ IsList(w) /\ Len(w) = (1 + n) + 1 /\ w[1] = CalleeStep(s.e)
      /\ \A k \in 1 .. n : w[1 + k] = Leaf(s.e.args[k])
  BY CallShape
<1>2. ExecsTo(h, env, w) BY <1>1, ValuesGo
<1> HIDE DEF w, h, n
<1>3. h[0] = <<>> BY <1>2 DEF ExecsTo
<1>4. h[1] = Append(h[0], f)
  <2>1. 1 \in 1 .. Len(w) /\ 1 - 1 = 0 BY <1>1
  <2>2. h[1] = Exec(env, h[1 - 1], w[1]) BY <1>2, <2>1 DEF ExecsTo
  <2>3. w[1].do = "callee" /\ w[1].fn = s.e.fn BY <1>1 DEF CalleeStep
  <2>4. \A g : Exec(env, g, w[1]) = Append(g, Native(s.e.fn)) BY <2>3 DEF Exec
  <2> QED BY <2>1, <2>2, <2>4
<1>5. ASSUME NEW k \in 1 .. n PROVE h[1 + k] = Append(h[k], x(k))
  <2> DEFINE e == s.e.args[k]
  <2>1. 1 + k \in 1 .. Len(w) /\ (1 + k) - 1 = k BY <1>1
  <2>2. h[1 + k] = Exec(env, h[(1 + k) - 1], w[1 + k]) BY <1>2, <2>1 DEF ExecsTo
  <2>3. w[1 + k] = Leaf(e) /\ IsLeaf(e) BY <1>1
  <2> HIDE DEF e
  <2>4. \A g : Exec(env, g, Leaf(e)) = Append(g, ValueIn(env, e))
    <3>1. CASE e.ex = "lit"
      <4>1. Leaf(e).do = "value" /\ Leaf(e).v = e.v BY <3>1 DEF Leaf
      <4> QED BY <3>1, <4>1 DEF Exec, ValueIn
    <3>2. CASE e.ex # "lit"
      <4>1. Leaf(e).do = "get" /\ Leaf(e).name = e.name BY <3>2 DEF Leaf
      <4> QED BY <3>2, <4>1 DEF Exec, ValueIn
    <3> QED BY <3>1, <3>2
  <2> QED BY <2>1, <2>2, <2>3, <2>4 DEF e
<1> HIDE DEF x, f
<1> DEFINE Q(k) == /\ IsList(h[1 + k]) /\ Len(h[1 + k]) = 1 + k /\ h[1 + k][1] = f
                   /\ \A j \in 1 .. k : h[1 + k][1 + j] = x(j)
           A == {k \in 0 .. n : Q(k)}
<1>6. 0 \in A
  <2> DEFINE g == <<>>
  <2>1. IsList(g) /\ Len(g) = 0 BY EmptyList
  <2>2. h[1] = Append(g, f) BY <1>3, <1>4
  <2> HIDE DEF g
  <2>3. IsList(h[1]) /\ Len(h[1]) = 1 /\ h[1][1] = f
    <3>1. IsList(Append(g, f)) /\ Len(Append(g, f)) = Len(g) + 1 /\ Append(g, f)[Len(g) + 1] = f
      BY <2>1, ListAppend
    <3>2. Len(g) + 1 = 1 BY <2>1
    <3> QED BY <2>2, <3>1, <3>2
  <2>4. 1 + 0 = 1 /\ 0 \in 0 .. n BY <1>1
  <2>5. Q(0) BY <2>3, <2>4
  <2> QED BY <2>4, <2>5
<1>7. ASSUME NEW k \in 0 .. n - 1, k \in A PROVE k + 1 \in A
  <2> DEFINE g == h[1 + k]
             t == Append(g, x(k + 1))
  <2>1. k + 1 \in 1 .. n /\ k + 1 \in 0 .. n /\ 1 + k = k + 1 /\ k \in Nat BY <1>1
  <2>2. h[1 + (k + 1)] = t
    <3>1. h[1 + (k + 1)] = Append(h[k + 1], x(k + 1)) BY <1>5, <2>1
    <3> QED BY <2>1, <3>1
  <2>3. IsList(g) /\ Len(g) = 1 + k /\ g[1] = f /\ \A j \in 1 .. k : g[1 + j] = x(j) BY <1>7
  <2> HIDE DEF g
  <2>4. IsList(t) /\ Len(t) = Len(g) + 1 /\ Within(g, t) /\ t[Len(g) + 1] = x(k + 1) BY <2>3, ListAppend
  <2> HIDE DEF t
  <2>5. Len(t) = 1 + (k + 1) BY <2>1, <2>3, <2>4
  <2>6. t[1] = f
    <3>1. 1 \in 1 .. Len(g) BY <2>1, <2>3
    <3> QED BY <2>3, <2>4, <3>1 DEF Within
  <2>7. ASSUME NEW j \in 1 .. k + 1 PROVE t[1 + j] = x(j)
    <3>1. CASE j = k + 1
      <4>1. 1 + j = Len(g) + 1 BY <2>1, <2>3, <3>1
      <4> QED BY <2>4, <3>1, <4>1
    <3>2. CASE j # k + 1
      <4>1. j \in 1 .. k /\ 1 + j \in 1 .. Len(g) BY <2>1, <2>3, <3>2
      <4> QED BY <2>3, <2>4, <4>1 DEF Within
    <3> QED BY <3>1, <3>2
  <2>8. Q(k + 1) BY <2>2, <2>4, <2>5, <2>6, <2>7
  <2> QED BY <2>1, <2>8
<1>8. 0 .. n \subseteq A
  <2> HIDE DEF A
  <2> QED BY <1>1, <1>6, <1>7, UpTo
<1> QED BY <1>3, <1>4, <1>5, <1>8 DEF w, h, n, x, f

(* What the machine does at each step of a statement.                      *)
CodeAt(body, i, m) == Len(CompilerIn(body, i, m).code)
Ins(body, i, m) == Chunk(body).code[CodeAt(body, i, m) + 1]
Held(body, i, m) == Values(Runs(body)[i - 1].env, Statement(body[i]))[m]
Local(body, i, l) == LET v == AfterStatement(body, i - 1).locals[l] IN Runs(body)[i - 1].env[v.depth][v.name]

Advances(body, i, m) ==
  /\ CodeAt(body, i, m) \in Nat /\ CodeAt(body, i, m) < Len(Chunk(body).code)
  /\ CodeAt(body, i, m + 1) = CodeAt(body, i, m) + 1

LEMMA EmitsAt ==
  ASSUME NEW body, Compilable(body), NEW i \in 1 .. Len(body), NEW m \in 0 .. Width(body, i) - 1,
         Statement(body[i])[m + 1].do \in Emitting
  PROVE  /\ Advances(body, i, m)
         /\ Emission(CompilerIn(body, i, m), Statement(body[i])[m + 1], Chunk(body))
<1> DEFINE c == CompilerIn(body, i, m)
           d == Statement(body[i])[m + 1]
           e == CompilerIn(body, i, m + 1)
           chunk == Chunk(body)
           n == Width(body, i)
<1>1. /\ n \in Nat /\ IsList(chunk.code) /\ IsList(chunk.values)
      /\ \A k \in 0 .. n : InChunk(CompilerIn(body, i, k), chunk)
      /\ \A k \in 1 .. n : CompilerIn(body, i, k) = Do(CompilerIn(body, i, k - 1), Statement(body[i])[k])
  BY Compilation
<1>2. m \in 0 .. n - 1 OBVIOUS
<1> HIDE DEF n
<1>3. m \in 0 .. n /\ m + 1 \in 0 .. n /\ m + 1 \in 1 .. n /\ (m + 1) - 1 = m BY <1>1, <1>2
<1>4. InChunk(c, chunk) BY <1>1, <1>3
<1>5. InChunk(e, chunk) BY <1>1, <1>3
<1>6. e = Do(c, d)
  <2>1. e = Do(CompilerIn(body, i, (m + 1) - 1), d) BY <1>1, <1>3
  <2> QED BY <1>3, <2>1
<1>7. Len(chunk.values) \in Nat /\ Len(chunk.code) \in Nat BY <1>1, ListIs
<1>8. Len(chunk.values) <= Bytes BY DEF Compilable
<1>9. d.do \in Emitting OBVIOUS
<1> HIDE DEF c, d, e, chunk
<1>10. /\ Len(e.code) = Len(c.code) + 1 /\ Len(c.code) \in Nat /\ Emission(c, d, chunk)
  BY <1>4, <1>5, <1>6, <1>7, <1>8, <1>9, Emissions
<1>11. Len(c.code) < Len(chunk.code) BY <1>10 DEF Emission
<1> QED BY <1>10, <1>11 DEF Advances, CodeAt, c, d, e, chunk

Failing(r, t) == t.failed /\ t.out = r.out /\ t.value = r.value
PushTurn(body, i, m) ==
  LET ins == Ins(body, i, m) IN
  \E x : /\ x.kind # "void" /\ Held(body, i, m + 1) = Append(Held(body, i, m), x)
         /\ \/ /\ ins.op = "CONSTANT" /\ ins.arg \in 0 .. Len(Chunk(body).values) - 1
               /\ Chunk(body).values[ins.arg + 1] = x
            \/ /\ ins.op = "GET_LOCAL" /\ ins.arg \in 1 .. Len(AfterStatement(body, i - 1).locals)
               /\ x = Local(body, i, ins.arg)
ReckonTurn(body, i, m) ==
  LET ins == Ins(body, i, m)
      h == Held(body, i, m)
      n == Len(h)
  IN
  /\ ins.op \in Arithmetic /\ n \in Nat /\ n >= 2
  /\ Held(body, i, m + 1) = Append(SubSeq(h, 1, n - 2), Result(ins.op, h[n - 1], h[n]))
  /\ HasVoid(Held(body, i, m + 1)) => Failing(Runs(body)[i - 1], Runs(body)[i])

LEMMA FailingIs ==
  ASSUME NEW body, Compilable(body), NEW i \in 1 .. Len(body), Alive(Runs(body)[i - 1]),
         Calculates(body[i]), ValueOf(body[i]).kind = "void"
  PROVE  Failing(Runs(body)[i - 1], Runs(body)[i])
<1> DEFINE r == Runs(body)[i - 1]
           t == Runs(body)[i]
           s == body[i]
<1>1. IsList(body) /\ Len(body) \in Nat BY Compilation DEF Compilable, WellFormed
<1>2. i - 1 \in 0 .. Len(body) BY <1>1
<1>3. IsResult(r) /\ t = RunStatement(r, s) BY <1>1, <1>2, RunNext
<1>4. Fails(s) BY DEF Fails
<1>5. Alive(r) /\ Calculates(s) OBVIOUS
<1> HIDE DEF r, t, s
<1>6. CASE Judges(s)
  <2>1. t.failed = Fails(s) /\ t.out = r.out /\ t.value = r.value BY <1>3, <1>5, <1>6, RunIs
  <2> QED BY <1>4, <2>1 DEF Failing, r, t
<1>7. CASE s.st \in {"let", "assign", "return"}
  <2>1. t.failed = TRUE /\ t.out = r.out /\ t.value = r.value BY <1>3, <1>4, <1>5, <1>7, RunIs
  <2> QED BY <2>1 DEF Failing, r, t
<1> QED BY <1>5, <1>6, <1>7 DEF Calculates

(* A statement that leaves its value on the stack.                         *)
Rests(s) == s.st = "let" \/ (s.st = "expr" /\ s.e.ex # "call")

(* A step of a calculation pushes a value or reckons with the last two.    *)
LEMMA CalcTurns ==
  ASSUME NEW body, Compilable(body), NEW i \in 1 .. Len(body), Alive(Runs(body)[i - 1]),
         Calculates(body[i]), Plain[body[i].e],
         NEW k \in 1 .. Len(Visited(body[i]))
  PROVE  LET m == (InFront(body[i]) + k) - 1 IN
         /\ m \in 0 .. Width(body, i) - 1 /\ Advances(body, i, m)
         /\ PushTurn(body, i, m) \/ ReckonTurn(body, i, m)
         /\ m + 1 = Width(body, i) => Rests(body[i])
<1> DEFINE s == body[i]
           w == Statement(s)
           env == Runs(body)[i - 1].env
           h == Values(env, w)
           a == InFront(s)
           v == Visited(s)
           n == Len(v)
           m == (a + k) - 1
           d == w[m + 1]
           c == CompilerIn(body, i, m)
           ins == Ins(body, i, m)
<1>1. IsStatement(s) BY TidyParts
<1>2. /\ s.e \in Trees /\ n \in Nat /\ IsList(w) /\ Len(w) = (a + n) + Behind(s) /\ Placed(w, a, v)
  BY <1>1, CalculatingShape
<1>3. /\ IsList(h[a]) /\ ~HasVoid(h[a]) /\ Evaluated(ValueOf(s), n, h, w, a)
  BY <1>1, CalculatingValues
<1>4. ExecsTo(h, env, w) BY <1>2, ValuesGo
<1>5. a \in 0 .. 1 /\ Behind(s) \in 0 .. 1 BY DEF InFront, Behind
<1>6. k \in 1 .. n /\ Width(body, i) = Len(w) BY DEF Width
<1>7. Len(w) \in Nat BY <1>2, ListIs
<1>8. Failing(Runs(body)[i - 1], Runs(body)[i]) \/ ValueOf(s).kind # "void" BY FailingIs
<1>9. d = v[k] /\ v[k].do \in Emitting
  <2>1. v[k].do \in Emitting BY <1>2, <1>6, StepsEmit
  <2>2. w[a + k] = v[k] BY <1>2, <1>6 DEF Placed
  <2> HIDE DEF a, n, v, w
  <2>3. m + 1 = a + k BY <1>5, <1>6
  <2> QED BY <2>1, <2>2, <2>3
<1>10. m \in 0 .. Len(w) - 1 /\ m + 1 = a + k /\ m = a + k - 1 /\ m \in Nat /\ m + 1 <= Len(w) /\ a + n <= Len(w)
  <2> DEFINE b == Behind(s)
  <2>1. b \in 0 .. 1 /\ a \in 0 .. 1 /\ Len(w) = (a + n) + b /\ n \in Nat /\ k \in 1 .. n /\ Len(w) \in Nat
    BY <1>2, <1>5, <1>6, <1>7
  <2> HIDE DEF a, b, n, w
  <2> QED BY <2>1
<1>11. Advances(body, i, m) /\ Emission(c, d, Chunk(body))
  <2>1. m \in 0 .. Width(body, i) - 1 BY <1>6, <1>10
  <2>2. Statement(body[i])[m + 1].do \in Emitting BY <1>9
  <2> HIDE DEF m
  <2>3. Advances(body, i, m) /\ Emission(CompilerIn(body, i, m), Statement(body[i])[m + 1], Chunk(body))
    BY <2>1, <2>2, EmitsAt
  <2> QED BY <2>3
<1>12. h[m + 1] = Held(body, i, m + 1) /\ h[m] = Held(body, i, m) BY DEF Held
<1>13. ins = Chunk(body).code[Len(c.code) + 1] BY DEF Ins, CodeAt
<1> HIDE DEF m, c, ins, d
<1>14. Computes(d, h[m]) /\ IsList(h[m + 1])
  <2>1. Computes(w[a + k], h[a + k - 1]) /\ IsList(h[a + k]) BY <1>3, <1>6 DEF Evaluated
  <2>2. d = w[a + k] BY <1>10 DEF d
  <2> QED BY <1>10, <2>1, <2>2
<1>15. /\ d.do = "value" => h[m + 1] = Append(h[m], d.v)
       /\ d.do = "emit" /\ d.op \in Arithmetic =>
              h[m + 1] = Append(SubSeq(h[m], 1, Len(h[m]) - 2), Result(d.op, h[m][Len(h[m]) - 1], h[m][Len(h[m])]))
  <2> HIDE DEF w, h, env
  <2>1. ExecsTo(h, env, w) /\ m \in Nat /\ m + 1 <= Len(w) /\ Len(w) \in Nat BY <1>4, <1>7, <1>10
  <2>2. d = w[m + 1] BY DEF d
  <2> QED BY <2>1, <2>2, Executed
<1>16. ASSUME d.do = "value", d.v.kind \in Sorts PROVE PushTurn(body, i, m)
  <2>1. ins.op = "CONSTANT" /\ ins.arg \in 0 .. Len(Chunk(body).values) - 1 /\ Chunk(body).values[ins.arg + 1] = d.v
    BY <1>11, <1>13, <1>16 DEF Emission
  <2>2. Held(body, i, m + 1) = Append(Held(body, i, m), d.v) BY <1>12, <1>15, <1>16
  <2>3. d.v.kind # "void" BY <1>16 DEF Sorts
  <2> QED BY <2>1, <2>2, <2>3 DEF PushTurn, ins
<1>17. IsList(h[m])
  <2>1. CASE k = 1
    <3>1. m = a BY <1>5, <1>10, <2>1
    <3> QED BY <1>3, <3>1
  <2>2. CASE k # 1
    <3> HIDE DEF a, n
    <3>1. k - 1 \in 1 .. n /\ a + (k - 1) = m BY <1>2, <1>5, <1>6, <1>10, <2>2
    <3>2. IsList(h[a + (k - 1)]) BY <1>3, <3>1 DEF Evaluated
    <3> QED BY <3>1, <3>2
  <2> QED BY <2>1, <2>2
<1>18. ASSUME d.do = "emit", d.op \in Arithmetic, Len(h[m]) >= 2 PROVE ReckonTurn(body, i, m)
  <2>1. ins.op = d.op BY <1>11, <1>13, <1>18 DEF Emission
  <2>2. Len(h[m]) \in Nat BY <1>17, ListIs
  <2>3. ASSUME HasVoid(h[m + 1]) PROVE ValueOf(s).kind = "void"
    <3> DEFINE x == ValueOf(s)
    <3> HIDE DEF a, n, w, h, env
    <3>1. k \in 0 .. n /\ a \in Nat BY <1>2, <1>5, <1>6
    <3>2. HasVoid(h[a + k])
      <4>1. a + k = m + 1 BY <1>10
      <4> QED BY <2>3, <4>1
    <3>3. /\ ExecsTo(h, env, w) /\ Len(w) \in Nat /\ n \in Nat /\ a + n <= Len(w)
          /\ IsList(h[a]) /\ ~HasVoid(h[a]) /\ Evaluated(x, n, h, w, a)
      BY <1>2, <1>3, <1>4, <1>7, <1>10
    <3> HIDE DEF x
    <3>4. x.kind = "void" BY <3>1, <3>2, <3>3, VoidEnds
    <3> QED BY <3>4 DEF x
  <2>4. HasVoid(Held(body, i, m + 1)) => Failing(Runs(body)[i - 1], Runs(body)[i]) BY <1>8, <1>12, <2>3
  <2> DEFINE g == h[m]
  <2>5. Held(body, i, m) = g /\ Len(g) \in Nat /\ Len(g) >= 2
    /\ Held(body, i, m + 1) = Append(SubSeq(g, 1, Len(g) - 2), Result(d.op, g[Len(g) - 1], g[Len(g)]))
    BY <1>12, <1>15, <1>18, <2>2
  <2> HIDE DEF g, h
  <2> QED BY <1>18, <2>1, <2>4, <2>5 DEF ReckonTurn, ins
<1>19. PushTurn(body, i, m) \/ ReckonTurn(body, i, m) BY <1>14, <1>16, <1>18 DEF Computes
<1>20. ASSUME m + 1 = Width(body, i) PROVE Rests(s)
  <2> DEFINE b == Behind(s)
  <2>1. Len(w) = (a + n) + b /\ n \in Nat /\ k <= n /\ k \in Nat /\ a + k = Len(w) /\ b \in 0 .. 1 /\ a \in 0 .. 1
    BY <1>2, <1>5, <1>6, <1>10, <1>20
  <2>2. b = 0
    <3> HIDE DEF a, b, n, w
    <3> QED BY <2>1
  <2>3. s.st = "let" \/ Judges(s) BY <2>2 DEF Behind, Calculates
  <2> QED BY <2>3 DEF Rests, Judges
<1> QED BY <1>6, <1>10, <1>11, <1>19, <1>20 DEF m

(* The last steps of a statement, when no value below them is void.        *)
CallTurn(body, i, m) ==
  LET ins == Ins(body, i, m)
      h == Held(body, i, m)
      r == Runs(body)[i - 1]
      t == Runs(body)[i]
  IN
  /\ body[i].st = "expr" /\ ins.op = "CALL" /\ ins.arg \in Nat /\ Len(h) = 1 + ins.arg /\ m + 1 = Width(body, i)
  /\ Alive(t) /\ t.env = r.env
  /\ \/ h[1] = Native("clock") /\ t.out = r.out
     \/ h[1] = Native("console.info") /\ t.out = r.out \o [j \in 1 .. ins.arg |-> h[1 + j]]
SetTurn(body, i, m) ==
  LET ins == Ins(body, i, m)
      h == Held(body, i, m)
      r == Runs(body)[i - 1]
      t == Runs(body)[i]
      loc == AfterStatement(body, i - 1).locals[ins.arg]
  IN
  /\ body[i].st = "assign" /\ m + 1 = Width(body, i)
  /\ ins.op = "SET_LOCAL" /\ ins.arg \in 1 .. Len(AfterStatement(body, i - 1).locals)
  /\ Len(h) = 2 /\ Alive(t) /\ t.out = r.out /\ t.env = Bind(r.env, loc.depth, loc.name, h[2])
ReturnTurn(body, i, m) ==
  LET h == Held(body, i, m)
      r == Runs(body)[i - 1]
      t == Runs(body)[i]
  IN
  /\ Ins(body, i, m).op = "RETURN" /\ m + 1 = Width(body, i)
  /\ Len(h) = 1 /\ t.ended /\ ~t.failed /\ t.value = h[1] /\ t.out = r.out

LEMMA RunsFrom ==
  ASSUME NEW body, Compilable(body), NEW i \in 1 .. Len(body), Alive(Runs(body)[i - 1])
  PROVE  LET r == Runs(body)[i - 1] IN
         /\ IsResult(r) /\ Runs(body)[i] = RunStatement(r, body[i]) /\ Alive(r)
         /\ Linked(AfterStatement(body, i - 1), r.env, Scopes(body)[i - 1]) /\ r.value = Void
         /\ IsCompiler(AfterStatement(body, i - 1)) /\ IsStatement(body[i]) /\ TidyStep(body[i])
         /\ Reads(body[i]) \subseteq UNION ToSet(Scopes(body)[i - 1])
<1>1. IsList(body) /\ Len(body) \in Nat BY Compilation DEF Compilable, WellFormed
<1>2. i - 1 \in 0 .. Len(body) BY <1>1
<1>3. IsResult(Runs(body)[i - 1]) /\ Runs(body)[i] = RunStatement(Runs(body)[i - 1], body[i])
  BY <1>1, <1>2, RunNext
<1>4. Linked(AfterStatement(body, i - 1), Runs(body)[i - 1].env, Scopes(body)[i - 1]) /\ Runs(body)[i - 1].value = Void
  BY <1>2, LinkedAll
<1>5. InChunk(AfterStatement(body, i - 1), Chunk(body)) BY <1>2, Compilation
<1>6. IsCompiler(AfterStatement(body, i - 1)) BY <1>5 DEF InChunk
<1>7. IsStatement(body[i]) /\ TidyStep(body[i]) BY TidyParts
<1>8. Reads(body[i]) \subseteq UNION ToSet(Scopes(body)[i - 1]) BY DEF Compilable, IsTidy
<1> QED BY <1>3, <1>4, <1>6, <1>7, <1>8

(* A name that is read is pushed with the value it has.                    *)
NameIs(body, i, name) ==
  LET l == Resolve(AfterStatement(body, i - 1), name)
      env == Runs(body)[i - 1].env
      d == Innermost(env, name)
  IN
  /\ l \in 1 .. Len(AfterStatement(body, i - 1).locals) /\ l \in 1 .. Bytes - 1
  /\ Local(body, i, l) = env[d][name] /\ env[d][name].kind # "void"
  /\ AfterStatement(body, i - 1).locals[l] = [name |-> name, depth |-> d]
  /\ d \in 1 .. Len(env) /\ name \in DOMAIN env[d]

LEMMA NamedValue ==
  ASSUME NEW body, Compilable(body), NEW i \in 1 .. Len(body), Alive(Runs(body)[i - 1]),
         NEW name \in Reads(body[i])
  PROVE  NameIs(body, i, name)
<1> DEFINE c == AfterStatement(body, i - 1)
           env == Runs(body)[i - 1].env
           sc == Scopes(body)[i - 1]
           l == Resolve(c, name)
           d == Innermost(env, name)
<1>1. Linked(c, env, sc) /\ IsCompiler(c) /\ name \in UNION ToSet(sc)
  BY RunsFrom
<1>2. /\ l \in 1 .. Len(c.locals) /\ l \in 1 .. Bytes - 1 /\ d \in 1 .. Len(env) /\ name \in DOMAIN env[d]
      /\ c.locals[l] = [name |-> name, depth |-> d]
  <2> HIDE DEF c, env, sc
  <2> QED BY <1>1, Resolved
<1>3. env[d][name].kind # "void" BY <1>1, <1>2 DEF Linked
<1>4. Local(body, i, l) = env[d][name]
  <2>1. Local(body, i, l) = env[c.locals[l].depth][c.locals[l].name] BY DEF Local
  <2> HIDE DEF c, env, l, d
  <2> QED BY <1>2, <2>1
<1> QED BY <1>2, <1>3, <1>4 DEF NameIs

(* A step of a call pushes the callee or an argument, or calls.            *)
LEMMA CallTurns ==
  ASSUME NEW body, Compilable(body), NEW i \in 1 .. Len(body), Alive(Runs(body)[i - 1]),
         body[i].st = "expr", body[i].e.ex = "call", NEW m \in 0 .. Width(body, i) - 1
  PROVE  Advances(body, i, m) /\ ((PushTurn(body, i, m) /\ m + 1 # Width(body, i)) \/ CallTurn(body, i, m))
<1> DEFINE s == body[i]
           w == Statement(s)
           r == Runs(body)[i - 1]
           t == Runs(body)[i]
           env == r.env
           h == Values(env, w)
           n == Len(s.e.args)
           x(k) == ValueIn(env, s.e.args[k])
           d == w[m + 1]
           c == CompilerIn(body, i, m)
           ins == Ins(body, i, m)
           chunk == Chunk(body)
<1>1. /\ IsStatement(s) /\ TidyStep(s) /\ IsResult(r) /\ t = RunStatement(r, s) /\ Alive(r)
  BY RunsFrom
<1>2. /\ n \in Nat /\ DOMAIN s.e.args = 1 .. n /\ \A k \in 1 .. n : IsLeaf(s.e.args[k])
      /\ IsList(w) /\ Len(w) = (1 + n) + 1 /\ w[1] = CalleeStep(s.e) /\ w[(1 + n) + 1] = CallStep(s.e)
      /\ \A k \in 1 .. n : w[1 + k] = Leaf(s.e.args[k])
  BY <1>1, CallShape
<1>3. /\ h[0] = <<>> /\ h[1] = Append(h[0], Native(s.e.fn))
      /\ \A k \in 1 .. n : h[1 + k] = Append(h[k], x(k))
      /\ \A k \in 0 .. n : /\ IsList(h[1 + k]) /\ Len(h[1 + k]) = 1 + k /\ h[1 + k][1] = Native(s.e.fn)
                           /\ \A j \in 1 .. k : h[1 + k][1 + j] = x(j)
  BY <1>1, CallValues
<1>4. s.e.fn \in Natives /\ ~Judges(s)
  <2>1. s.st = "expr" /\ s.e.ex = "call" OBVIOUS
  <2>2. ~Judges(s) BY <2>1 DEF Judges
  <2> HIDE DEF s
  <2> QED BY <1>1, <2>1, <2>2, KindOfExpr
<1>5. \A k \in 1 .. Len(w) : w[k].do \in Emitting
  BY <1>1, VisitsEmit
<1>6. Width(body, i) = Len(w) BY DEF Width
<1>7. \A k \in 0 .. Len(w) - 1 : /\ Advances(body, i, k) /\ Emission(CompilerIn(body, i, k), w[k + 1], chunk)
  <2> TAKE k \in 0 .. Len(w) - 1
  <2>1. k \in 0 .. Width(body, i) - 1 BY <1>6
  <2>2. k + 1 \in 1 .. Len(w) BY <1>2
  <2>3. Statement(body[i])[k + 1].do \in Emitting BY <1>5, <2>2
  <2> QED BY <2>1, <2>3, EmitsAt
<1>8. m \in 0 .. Len(w) - 1 BY <1>6
<1>9. Advances(body, i, m) /\ Emission(c, d, chunk) BY <1>7, <1>8
<1>10. ins = chunk.code[Len(c.code) + 1] BY DEF Ins, CodeAt
<1>11. h[m + 1] = Held(body, i, m + 1) /\ h[m] = Held(body, i, m) BY DEF Held
<1>12. n < Bytes - 1 /\ n \in 0 .. Bytes - 1
  <2>1. 0 \in 0 .. Len(w) - 1 /\ 0 + 1 = 1 BY <1>2
  <2>2. Emission(CompilerIn(body, i, 0), w[1], chunk) BY <1>7, <2>1
  <2>3. w[1].do = "callee" /\ w[1].fn = s.e.fn /\ w[1].n = n BY <1>2 DEF CalleeStep
  <2> HIDE DEF n, w, chunk
  <2>4. n < Bytes - 1 BY <1>2, <1>4, <2>2, <2>3 DEF Emission
  <2> QED BY <1>2, <2>4, ByteAssumption
<1> HIDE DEF c, ins, d, h, w
<1>13. ASSUME m = 0 PROVE PushTurn(body, i, m)
  <2>1. d.do = "callee" /\ d.fn \in Natives /\ d.fn = s.e.fn BY <1>2, <1>4, <1>13 DEF d, CalleeStep
  <2>2. ins.op = "CONSTANT" /\ ins.arg \in 0 .. Len(chunk.values) - 1 /\ chunk.values[ins.arg + 1] = Native(s.e.fn)
    BY <1>9, <1>10, <2>1 DEF Emission
  <2>3. Held(body, i, m + 1) = Append(Held(body, i, m), Native(s.e.fn))
    <3>1. h[0 + 1] = Append(h[0], Native(s.e.fn)) BY <1>3
    <3> QED BY <1>11, <1>13, <3>1
  <2>4. Native(s.e.fn).kind # "void" BY DEF Native
  <2> QED BY <2>2, <2>3, <2>4 DEF PushTurn, ins
<1>14. ASSUME m \in 1 .. n PROVE PushTurn(body, i, m)
  <2> DEFINE e == s.e.args[m]
  <2>1. IsLeaf(e) /\ d = Leaf(e)
    <3>1. w[1 + m] = Leaf(e) /\ IsLeaf(e) BY <1>2, <1>14
    <3>2. 1 + m = m + 1 BY <1>2, <1>14
    <3> QED BY <3>1, <3>2 DEF d
  <2>2. Held(body, i, m + 1) = Append(Held(body, i, m), x(m))
    <3>1. h[1 + m] = Append(h[m], x(m)) BY <1>3, <1>14
    <3>2. 1 + m = m + 1 BY <1>2, <1>14
    <3> QED BY <1>11, <3>1, <3>2
  <2>3. CASE e.ex = "lit"
    <3>1. d.do = "value" /\ d.v = e.v /\ e.v.kind \in LiteralKinds /\ x(m) = e.v
      BY <2>1, <2>3 DEF Leaf, IsLeaf, ValueIn
    <3>2. ins.op = "CONSTANT" /\ ins.arg \in 0 .. Len(chunk.values) - 1 /\ chunk.values[ins.arg + 1] = e.v
      BY <1>9, <1>10, <3>1 DEF Emission
    <3>3. e.v.kind # "void" BY <3>1 DEF LiteralKinds
    <3> QED BY <2>2, <3>1, <3>2, <3>3 DEF PushTurn, ins
  <2>4. CASE e.ex # "lit"
    <3> DEFINE name == e.name
               l == Resolve(AfterStatement(body, i - 1), name)
    <3>1. e.ex = "var" BY <2>1, <2>4 DEF IsLeaf
    <3>2. d.do = "get" /\ d.name = name BY <2>1, <2>4 DEF Leaf
    <3>3. name \in Reads(s)
      <4>1. m \in {j \in DOMAIN s.e.args : s.e.args[j].ex = "var"} BY <1>2, <1>14, <3>1
      <4> QED BY <4>1 DEF Reads
    <3>4. /\ l \in 1 .. Len(AfterStatement(body, i - 1).locals) /\ l \in 1 .. Bytes - 1
          /\ Local(body, i, l) = env[Innermost(env, name)][name] /\ env[Innermost(env, name)][name].kind # "void"
      <4> HIDE DEF name, e
      <4>1. name \in Reads(body[i]) BY <3>3
      <4>2. NameIs(body, i, name) BY <4>1, NamedValue
      <4> QED BY <4>2 DEF NameIs
    <3>5. x(m) = env[Innermost(env, name)][name] BY <2>4 DEF ValueIn
    <3>6. Resolve(c, name) = l
      <4>1. 0 \in 0 .. Width(body, i) /\ m \in 0 .. Width(body, i) /\ 0 + 1 = 1 BY <1>2, <1>6, <1>14
      <4>2. \A k \in 0 + 1 .. Width(body, i) : Statement(body[i])[k].do \in Emitting
        BY <1>5, <1>6, <4>1 DEF w
      <4>3. c.locals = CompilerIn(body, i, 0).locals
        <5> HIDE DEF s
        <5>1. \A k \in 0 .. Width(body, i) : CompilerIn(body, i, k).locals = CompilerIn(body, i, 0).locals
          BY <4>1, <4>2, LocalsStay
        <5> QED BY <4>1, <5>1 DEF c
      <4>4. CompilerIn(body, i, 0) = AfterStatement(body, i - 1) BY Compilation
      <4> QED BY <4>3, <4>4 DEF Resolve
    <3>7. ins.op = "GET_LOCAL" /\ ins.arg = l
      <4> HIDE DEF l, name, e
      <4> QED BY <1>9, <1>10, <3>2, <3>4, <3>6 DEF Emission
    <3> QED BY <2>2, <3>4, <3>5, <3>7 DEF PushTurn, ins
  <2> QED BY <2>3, <2>4
<1>15. ASSUME m = 1 + n PROVE CallTurn(body, i, m)
  <2>1. d = CallStep(s.e) BY <1>2, <1>15 DEF d
  <2>2. d.do = "emit" /\ d.op = "CALL" /\ d.n = n BY <2>1 DEF CallStep
  <2>3. ins.op = "CALL" /\ ins.arg = n
    <3> HIDE DEF n
    <3> QED BY <1>9, <1>10, <1>12, <2>2 DEF Emission
  <2> DEFINE g == Held(body, i, m)
  <2>4. /\ IsList(g) /\ Len(g) = 1 + n /\ g[1] = Native(s.e.fn) /\ \A j \in 1 .. n : g[1 + j] = x(j)
    <3>1. n \in 0 .. n /\ m = 1 + n BY <1>2, <1>15
    <3> QED BY <1>3, <1>11, <3>1
  <2>5. m + 1 = Width(body, i) BY <1>2, <1>6, <1>15
  <2>6. s.e.fn \in {"clock", "console.info"} BY <1>4 DEF Natives
  <2>7. CASE s.e.fn = "clock"
    <3>1. ~Prints(s) BY <2>7 DEF Prints
    <3>2. t = r
      <4> HIDE DEF t, r
      <4>0. s.st = "expr" OBVIOUS
      <4> HIDE DEF s
      <4> QED BY <1>1, <1>4, <3>1, <4>0, RunIs
    <3> QED BY <1>1, <2>3, <2>4, <2>5, <2>7, <3>2, <1>2 DEF CallTurn, ins
  <2>8. CASE s.e.fn = "console.info"
    <3>1. Prints(s) BY <2>8 DEF Prints
    <3>2. /\ t.out = r.out \o Printed(r, s.e) /\ t.env = r.env /\ t.ended = r.ended /\ t.failed = r.failed
      <4> HIDE DEF t, r, s
      <4> QED BY <1>1, <3>1, RunIs
    <3>3. Printed(r, s.e) = [j \in 1 .. n |-> g[1 + j]] BY <1>2, <2>4 DEF Printed
    <3>4. Alive(t) BY <1>1, <3>2 DEF Alive
    <3> QED BY <2>3, <2>4, <2>5, <2>8, <3>2, <3>3, <3>4, <1>2 DEF CallTurn, ins
  <2> QED BY <2>6, <2>7, <2>8
<1>16. m = 0 \/ m \in 1 .. n \/ m = 1 + n BY <1>2, <1>8
<1>17. m # 1 + n => m + 1 # Width(body, i)
  <2>1. Width(body, i) = (1 + n) + 1 BY <1>2, <1>6
  <2> HIDE DEF n
  <2> QED BY <1>2, <1>8, <2>1
<1> QED BY <1>9, <1>13, <1>14, <1>15, <1>16, <1>17

LEMMA ResolvedAt ==
  ASSUME NEW body, Compilable(body), NEW i \in 1 .. Len(body), body[i].st \notin {"let", "open", "close"},
         NEW m \in 0 .. Width(body, i), NEW name
  PROVE  Resolve(CompilerIn(body, i, m), name) = Resolve(AfterStatement(body, i - 1), name)
<1>1. IsStatement(body[i]) /\ TidyStep(body[i]) BY TidyParts
<1>2. Width(body, i) \in Nat /\ CompilerIn(body, i, 0) = AfterStatement(body, i - 1) BY Compilation
<1>3. 0 \in 0 .. Width(body, i) /\ 0 + 1 = 1 BY <1>2
<1>4. \A k \in 0 + 1 .. Width(body, i) : Statement(body[i])[k].do \in Emitting
  <2>1. \A k \in 1 .. Len(Statement(body[i])) : Statement(body[i])[k].do \in Emitting
    <3> DEFINE s == body[i]
    <3>1. s.st \notin {"let", "open", "close"} /\ IsStatement(s) /\ TidyStep(s) BY <1>1
    <3> HIDE DEF s
    <3>2. \A k \in 1 .. Len(Statement(s)) : Statement(s)[k].do \in Emitting BY <3>1, VisitsEmit
    <3> QED BY <3>2 DEF s
  <2> QED BY <1>3, <2>1 DEF Width
<1>5. \A k \in 0 .. Width(body, i) : CompilerIn(body, i, k).locals = CompilerIn(body, i, 0).locals
  BY <1>3, <1>4, LocalsStay
<1> QED BY <1>2, <1>5 DEF Resolve

(* The value of an expression is on the stack when its steps are made.     *)
LEMMA LastValue ==
  ASSUME NEW body, Compilable(body), NEW i \in 1 .. Len(body), Alive(Runs(body)[i - 1]),
         Calculates(body[i]), Plain[body[i].e]
  PROVE  LET s == body[i]
             n == Len(Visited(s))
             m == InFront(s) + n
             g == Held(body, i, m)
         IN
         /\ n \in Nat /\ Width(body, i) = m + Behind(s) /\ s.e \in Trees
         /\ IsList(g) /\ ~HasVoid(g) => ~Fails(s)
         /\ s.st # "assign" => Len(g) = 1 /\ g[1] = ValueOf(s)
         /\ s.st = "assign" => Len(g) = 2 /\ g[2] = ValueOf(s)
<1> DEFINE s == body[i]
           w == Statement(s)
           env == Runs(body)[i - 1].env
           h == Values(env, w)
           a == InFront(s)
           v == Visited(s)
           n == Len(v)
           g == h[a + n]
           f == h[a]
           x == ValueOf(s)
<1>1. IsStatement(s) BY TidyParts
<1>2. /\ s.e \in Trees /\ n \in Nat /\ IsList(w) /\ Len(w) = (a + n) + Behind(s) /\ Placed(w, a, v)
  BY <1>1, CalculatingShape
<1>3. /\ h[0] = <<>> /\ IsList(f) /\ ~HasVoid(f) /\ Len(f) \in Nat
      /\ s.st = "assign" => h[1] = Append(h[0], Str(s.name)) /\ Len(h[1]) = 1
      /\ s.st # "assign" => f = <<>>
      /\ Evaluated(x, n, h, w, a)
  BY <1>1, CalculatingValues
<1>4. g = Append(f, x) BY <1>3 DEF Evaluated
<1>5. Width(body, i) = (a + n) + Behind(s) BY <1>2 DEF Width
<1>6. g = Held(body, i, a + n) BY DEF Held
<1>7. s.st = "assign" => Len(f) = 1
  <2>1. ASSUME s.st = "assign" PROVE a = 1 BY <2>1 DEF InFront
  <2> QED BY <1>3, <2>1
<1>8. s.st # "assign" => Len(f) = 0 BY <1>3, EmptyList
<1> HIDE DEF g, f, x, a, n, w, v, s
<1>9. IsList(g) /\ Len(g) = Len(f) + 1 /\ g[Len(f) + 1] = x BY <1>3, <1>4, ListAppend
<1>10. HasVoid(g) <=> x.kind = "void" BY <1>3, <1>4, VoidAppend
<1>11. ~HasVoid(g) => ~Fails(s) BY <1>10 DEF Fails, x
<1>12. s.st # "assign" => Len(g) = 1 /\ g[1] = x
  <2>1. ASSUME s.st # "assign" PROVE Len(f) + 1 = 1 BY <1>3, <1>8, <2>1
  <2> QED BY <1>9, <2>1
<1>13. s.st = "assign" => Len(g) = 2 /\ g[2] = x
  <2>1. ASSUME s.st = "assign" PROVE Len(f) + 1 = 2
    <3>1. Len(f) = 1 BY <1>7, <2>1
    <3>2. 1 + 1 = 2 OBVIOUS
    <3> QED BY <3>1, <3>2
  <2> QED BY <1>9, <2>1
<1> QED BY <1>2, <1>5, <1>6, <1>9, <1>11, <1>12, <1>13 DEF s, a, n, v, x

(* The last step of an assignment.                                         *)
LEMMA SetTurns ==
  ASSUME NEW body, Compilable(body), NEW i \in 1 .. Len(body), Alive(Runs(body)[i - 1]),
         body[i].st = "assign", NEW m \in 0 .. Width(body, i) - 1,
         m = InFront(body[i]) + Len(Visited(body[i])), ~HasVoid(Held(body, i, m))
  PROVE  Advances(body, i, m) /\ SetTurn(body, i, m)
<1> DEFINE s == body[i]
           w == Statement(s)
           r == Runs(body)[i - 1]
           t == Runs(body)[i]
           n == Len(Visited(s))
           c == CompilerIn(body, i, m)
           d == w[m + 1]
           ins == Ins(body, i, m)
           chunk == Chunk(body)
           l == Resolve(AfterStatement(body, i - 1), s.name)
           g == Held(body, i, m)
<1>1. /\ IsStatement(s) /\ TidyStep(s) /\ IsResult(r) /\ t = RunStatement(r, s) /\ Alive(r) BY RunsFrom
<1>2. s.st = "assign" /\ Calculates(s) BY DEF Calculates
<1>3. Plain[s.e] BY <1>1, <1>2 DEF TidyStep
<1>4. n \in Nat /\ w[(1 + n) + 1] = SetStep(s.name) BY <1>1, <1>2, <1>3, CalculatingShape
<1>5. InFront(s) = 1 /\ Behind(s) = 1 BY <1>2 DEF InFront, Behind
<1>6. m = 1 + n BY <1>5
<1>7. /\ Width(body, i) = (1 + n) + 1 /\ ~Fails(s) /\ Len(g) = 2 /\ g[2] = ValueOf(s)
  <2>1. LET k == InFront(s) + n
            f == Held(body, i, k)
        IN /\ Width(body, i) = k + Behind(s)
           /\ IsList(f) /\ ~HasVoid(f) => ~Fails(s)
           /\ s.st = "assign" => Len(f) = 2 /\ f[2] = ValueOf(s)
     BY <1>2, <1>3, LastValue
  <2>2. IsList(g)
    <3>1. g = Held(body, i, InFront(s) + n) OBVIOUS
    <3>2. LET f == Held(body, i, InFront(s) + n) IN IsList(f) /\ ~HasVoid(f) => ~Fails(s) BY <2>1
    <3>3. IsList(Held(body, i, InFront(s) + n))
      <4> DEFINE env == r.env
                 h == Values(env, w)
      <4>1. IsList(h[InFront(s)]) /\ Evaluated(ValueOf(s), n, h, w, InFront(s))
        BY <1>1, <1>2, <1>3, CalculatingValues
      <4>2. h[InFront(s) + n] = Append(h[InFront(s)], ValueOf(s)) BY <4>1 DEF Evaluated
      <4>3. IsList(h[InFront(s) + n])
        <5> HIDE DEF h, s, n
        <5>1. IsList(Append(h[InFront(s)], ValueOf(s))) BY <4>1, ListAppend
        <5> QED BY <4>2, <5>1
      <4> QED BY <4>3 DEF Held
    <3> QED BY <3>1, <3>3
  <2>3. g = Held(body, i, InFront(s) + n) /\ ~HasVoid(g) OBVIOUS
  <2> QED BY <1>2, <1>5, <2>1, <2>2, <2>3
<1>8. d = SetStep(s.name) BY <1>4, <1>6
<1>9. d.do = "set" /\ d.name = s.name BY <1>8 DEF SetStep
<1>10. Advances(body, i, m) /\ Emission(c, d, chunk)
  <2>1. Statement(body[i])[m + 1].do \in Emitting BY <1>9 DEF Emitting
  <2> QED BY <2>1, EmitsAt
<1>11. NameIs(body, i, s.name)
  <2>1. s.name \in Reads(body[i]) BY <1>2 DEF Reads
  <2> DEFINE name == s.name
  <2> HIDE DEF name, s
  <2>2. name \in Reads(body[i]) BY <2>1 DEF name
  <2>3. NameIs(body, i, name) BY <2>2, NamedValue
  <2> QED BY <2>3 DEF name
<1>12. Resolve(c, s.name) = l
  <2>1. body[i].st \notin {"let", "open", "close"} OBVIOUS
  <2>2. m \in 0 .. Width(body, i) BY <1>4, <1>6, <1>7
  <2> QED BY <2>1, <2>2, ResolvedAt
<1>13. ins = chunk.code[Len(c.code) + 1] BY DEF Ins, CodeAt
<1>14. l \in 1 .. Len(AfterStatement(body, i - 1).locals) /\ l \in 1 .. Bytes - 1
       /\ AfterStatement(body, i - 1).locals[l] = [name |-> s.name, depth |-> Innermost(r.env, s.name)]
  BY <1>11 DEF NameIs
<1>15. ins.op = "SET_LOCAL" /\ ins.arg = l
  <2> HIDE DEF l, c, d, ins, chunk, s
  <2> QED BY <1>9, <1>10, <1>12, <1>13, <1>14 DEF Emission
<1>16. SameResult(r, t) /\ t.env = Bind(r.env, Innermost(r.env, s.name), s.name, ValueOf(s))
  <2> HIDE DEF r, t, s
  <2> QED BY <1>1, <1>2, <1>7, RunIs
<1>17. Alive(t) /\ t.out = r.out BY <1>1, <1>16 DEF SameResult, Alive
<1>18. LET loc == AfterStatement(body, i - 1).locals[ins.arg] IN t.env = Bind(r.env, loc.depth, loc.name, g[2])
  BY <1>7, <1>14, <1>15, <1>16
<1>19. m + 1 = Width(body, i) BY <1>6, <1>7
<1>20. ins.arg \in 1 .. Len(AfterStatement(body, i - 1).locals) BY <1>14, <1>15
<1> HIDE DEF ins, t, r, g
<1>21. SetTurn(body, i, m) BY <1>7, <1>15, <1>17, <1>18, <1>19, <1>20 DEF SetTurn, ins, t, r, g
<1> QED BY <1>10, <1>21

(* The last step of a return.                                              *)
LEMMA ReturnTurns ==
  ASSUME NEW body, Compilable(body), NEW i \in 1 .. Len(body), Alive(Runs(body)[i - 1]),
         body[i].st = "return", NEW m \in 0 .. Width(body, i) - 1,
         m = Len(Visited(body[i])), ~HasVoid(Held(body, i, m)), IsList(Held(body, i, m))
  PROVE  Advances(body, i, m) /\ ReturnTurn(body, i, m)
<1> DEFINE s == body[i]
           w == Statement(s)
           r == Runs(body)[i - 1]
           t == Runs(body)[i]
           n == Len(Visited(s))
           c == CompilerIn(body, i, m)
           d == w[m + 1]
           ins == Ins(body, i, m)
           chunk == Chunk(body)
           g == Held(body, i, m)
<1>1. /\ IsStatement(s) /\ TidyStep(s) /\ IsResult(r) /\ t = RunStatement(r, s) /\ Alive(r) BY RunsFrom
<1>2. s.st = "return" /\ Calculates(s) BY DEF Calculates
<1>3. Plain[s.e] BY <1>1, <1>2 DEF TidyStep
<1>4. n \in Nat /\ w[n + 1] = ReturnStep BY <1>1, <1>2, <1>3, CalculatingShape
<1>5. InFront(s) = 0 /\ Behind(s) = 1 BY <1>2 DEF InFront, Behind
<1>6. m = n /\ 0 + n = n BY <1>4
<1>7. /\ Width(body, i) = n + 1 /\ ~Fails(s) /\ Len(g) = 1 /\ g[1] = ValueOf(s)
  <2>1. LET k == InFront(s) + n
            f == Held(body, i, k)
        IN /\ Width(body, i) = k + Behind(s)
           /\ IsList(f) /\ ~HasVoid(f) => ~Fails(s)
           /\ s.st # "assign" => Len(f) = 1 /\ f[1] = ValueOf(s)
     BY <1>2, <1>3, LastValue
  <2>2. InFront(s) + n = n BY <1>4, <1>5
  <2>3. g = Held(body, i, InFront(s) + n) /\ ~HasVoid(g) /\ IsList(g) BY <1>6, <2>2
  <2> QED BY <1>2, <1>5, <2>1, <2>2, <2>3
<1>8. d = ReturnStep BY <1>4, <1>6
<1>9. d.do = "return" BY <1>8 DEF ReturnStep
<1>10. Advances(body, i, m) /\ Emission(c, d, chunk)
  <2>1. Statement(body[i])[m + 1].do \in Emitting BY <1>9 DEF Emitting
  <2> QED BY <2>1, EmitsAt
<1>13. ins = chunk.code[Len(c.code) + 1] BY DEF Ins, CodeAt
<1>15. ins.op = "RETURN"
  <2> HIDE DEF c, d, ins, chunk, s
  <2> QED BY <1>9, <1>10, <1>13 DEF Emission
<1>16. t.ended = TRUE /\ t.value = ValueOf(s) /\ t.out = r.out /\ t.failed = r.failed
  <2> HIDE DEF r, t, s
  <2> QED BY <1>1, <1>2, <1>7, RunIs
<1>17. ~t.failed BY <1>1, <1>16 DEF Alive
<1>19. m + 1 = Width(body, i) BY <1>6, <1>7
<1> HIDE DEF ins, t, r, g
<1>21. ReturnTurn(body, i, m) BY <1>7, <1>15, <1>16, <1>17, <1>19 DEF ReturnTurn, ins, t, r, g
<1> QED BY <1>10, <1>21

LEMMA AssignTurn ==
  ASSUME NEW body, Compilable(body), NEW i \in 1 .. Len(body), Alive(Runs(body)[i - 1]),
         body[i].st = "assign"
  PROVE  Advances(body, i, 0) /\ PushTurn(body, i, 0) /\ 0 + 1 # Width(body, i)
<1> DEFINE s == body[i]
           w == Statement(s)
           n == Len(Visited(s))
           c == CompilerIn(body, i, 0)
           d == w[1]
           ins == Ins(body, i, 0)
           chunk == Chunk(body)
           h == Values(Runs(body)[i - 1].env, w)
           x == Str(s.name)
<1>1. IsStatement(s) /\ TidyStep(s) BY TidyParts
<1>2. s.st = "assign" /\ Calculates(s) BY DEF Calculates
<1>3. Plain[s.e] BY <1>1, <1>2 DEF TidyStep
<1>4. /\ n \in Nat /\ Len(w) = (InFront(s) + n) + Behind(s) /\ d = ValueStep(x)
  BY <1>1, <1>2, <1>3, CalculatingShape
<1>5. InFront(s) = 1 /\ Behind(s) = 1 BY <1>2 DEF InFront, Behind
<1>6. h[1] = Append(h[0], x) BY <1>1, <1>2, <1>3, CalculatingValues
<1>7. d.do = "value" /\ d.v = x BY <1>4 DEF ValueStep
<1>8. 0 \in 0 .. Width(body, i) - 1 /\ 0 + 1 = 1 /\ 0 + 1 # Width(body, i)
  <2>1. Width(body, i) = (1 + n) + 1 BY <1>4, <1>5 DEF Width
  <2> HIDE DEF n
  <2> QED BY <1>4, <2>1
<1>9. Advances(body, i, 0) /\ Emission(c, d, chunk)
  <2>1. Statement(body[i])[0 + 1].do \in Emitting BY <1>7, <1>8 DEF Emitting
  <2>2. Advances(body, i, 0) /\ Emission(CompilerIn(body, i, 0), Statement(body[i])[0 + 1], Chunk(body))
    BY <1>8, <2>1, EmitsAt
  <2> QED BY <1>8, <2>2
<1>10. ins = chunk.code[Len(c.code) + 1] BY DEF Ins, CodeAt
<1>11. Held(body, i, 0 + 1) = Append(Held(body, i, 0), x) BY <1>6, <1>8 DEF Held
<1> HIDE DEF d, c, ins, chunk, x
<1>12. ins.op = "CONSTANT" /\ ins.arg \in 0 .. Len(chunk.values) - 1 /\ chunk.values[ins.arg + 1] = x
  BY <1>7, <1>9, <1>10 DEF Emission
<1>13. x.kind # "void" BY DEF x, Str
<1> QED BY <1>8, <1>9, <1>11, <1>12, <1>13 DEF PushTurn, ins, chunk

(* Every step of a statement that is made is one of five.                  *)
Turn(body, i, m) ==
  \/ (PushTurn(body, i, m) \/ ReckonTurn(body, i, m)) /\ (m + 1 = Width(body, i) => Rests(body[i]))
  \/ CallTurn(body, i, m) \/ SetTurn(body, i, m) \/ ReturnTurn(body, i, m)

LEMMA CalculatingTurns ==
  ASSUME NEW body, Compilable(body), NEW i \in 1 .. Len(body), Alive(Runs(body)[i - 1]),
         Calculates(body[i]), Plain[body[i].e], NEW m \in 0 .. Width(body, i) - 1,
         ~(body[i].st = "let" /\ m = 0), IsList(Held(body, i, m)), ~HasVoid(Held(body, i, m))
  PROVE  Advances(body, i, m) /\ Turn(body, i, m)
<1> DEFINE s == body[i]
           n == Len(Visited(s))
           a == InFront(s)
           z == Behind(s)
<1>1. n \in Nat /\ Width(body, i) = (a + n) + z BY LastValue
<1>2. a \in 0 .. 1 /\ z \in 0 .. 1 BY DEF InFront, Behind
<1>3. m \in 0 .. ((a + n) + z) - 1 BY <1>1
<1>4. a = 1 => s.st \in {"let", "assign"} BY DEF InFront
<1>5. z = 1 => s.st \in {"assign", "return"} BY DEF Behind
<1>6. s.st = "return" => a = 0 BY DEF InFront
<1>7. CASE m < a
  <2>1. a = 1 /\ m = 0 BY <1>2, <1>3, <1>7
  <2>2. body[i].st = "assign" BY <1>4, <2>1
  <2> QED BY <2>1, <2>2, AssignTurn DEF Turn
<1>8. CASE m >= a /\ m < a + n
  <2> DEFINE k == (m - a) + 1
  <2> HIDE DEF n, a
  <2>1. k \in 1 .. n /\ m = (a + k) - 1 BY <1>1, <1>2, <1>3, <1>8
  <2>2. /\ Advances(body, i, (a + k) - 1)
        /\ PushTurn(body, i, (a + k) - 1) \/ ReckonTurn(body, i, (a + k) - 1)
        /\ ((a + k) - 1) + 1 = Width(body, i) => Rests(body[i])
    <3> HIDE DEF k
    <3> QED BY <2>1, CalcTurns DEF a, n
  <2> QED BY <2>1, <2>2 DEF Turn
<1>9. CASE m = a + n
  <2>1. z = 1
    <3> HIDE DEF a, n, z
    <3> QED BY <1>1, <1>2, <1>3, <1>9
  <2>2. CASE s.st = "assign" BY <1>9, <2>2, SetTurns DEF Turn
  <2>3. CASE s.st = "return"
    <3>1. m = n
      <4>1. a = 0 BY <1>6, <2>3
      <4> HIDE DEF a, n
      <4> QED BY <1>1, <1>9, <4>1
    <3> QED BY <2>3, <3>1, ReturnTurns DEF Turn
  <2> QED BY <1>5, <2>1, <2>2, <2>3
<1>10. m < a \/ (m >= a /\ m < a + n) \/ m = a + n
  <2> HIDE DEF a, n, z
  <2> QED BY <1>1, <1>2, <1>3
<1> QED BY <1>7, <1>8, <1>9, <1>10

(* Whatever step of whatever statement it is.                              *)
LEMMA Turns ==
  ASSUME NEW body, Compilable(body), NEW i \in 1 .. Len(body), Alive(Runs(body)[i - 1]),
         body[i].st \notin {"open", "close"}, NEW m \in 0 .. Width(body, i) - 1,
         ~(body[i].st = "let" /\ m = 0), IsList(Held(body, i, m)), ~HasVoid(Held(body, i, m))
  PROVE  Advances(body, i, m) /\ Turn(body, i, m)
<1> DEFINE s == body[i]
<1>1. IsStatement(s) /\ TidyStep(s) BY TidyParts
<1>2. CASE s.st \in {"let", "assign", "return"}
  <2>1. Calculates(s) /\ Plain[s.e] BY <1>1, <1>2 DEF Calculates, TidyStep
  <2> QED BY <2>1, CalculatingTurns
<1>3. CASE s.st = "expr"
  <2>1. \/ Judges(s) /\ Plain[s.e]
        \/ s.e.ex = "lambda" /\ ~Judges(s) /\ Statement(s) = <<>>
        \/ s.e.ex = "call" /\ ~Judges(s) /\ s.e.fn \in Natives
    <3> HIDE DEF s
    <3> QED BY <1>1, <1>3, KindOfExpr
  <2>2. CASE Judges(s) /\ Plain[s.e]
    <3>1. Calculates(s) BY <2>2 DEF Calculates
    <3> QED BY <2>2, <3>1, CalculatingTurns
  <2>3. CASE Statement(s) = <<>>
    <3>1. Width(body, i) = 0 BY <2>3, EmptyList DEF Width
    <3> QED BY <3>1
  <2>4. CASE s.e.ex = "call" BY <1>3, <2>4, CallTurns DEF Turn
  <2> QED BY <2>1, <2>2, <2>3, <2>4
<1>4. s.st \in {"let", "assign", "return", "expr"} BY <1>1 DEF IsStatement, TidyStep
<1> QED BY <1>2, <1>3, <1>4

-----------------------------------------------------------------------------
(* A statement that leaves its value has done no more than that.           *)
LEMMA Rested ==
  ASSUME NEW body, Compilable(body), NEW i \in 1 .. Len(body), Alive(Runs(body)[i - 1]), Rests(body[i]),
         NEW m, m = Width(body, i), IsList(Held(body, i, m)), ~HasVoid(Held(body, i, m))
  PROVE  LET s == body[i]
             r == Runs(body)[i - 1]
             t == Runs(body)[i]
             g == Held(body, i, m)
         IN
         /\ Alive(t) /\ t.out = r.out
         /\ s.st # "let" => t.env = r.env /\ Len(g) \in Nat
         /\ s.st = "let" => t.env = Bind(r.env, Len(r.env), s.name, g[1]) /\ Len(g) = 1
<1> DEFINE s == body[i]
           r == Runs(body)[i - 1]
           t == Runs(body)[i]
           g == Held(body, i, m)
<1>1. /\ IsStatement(s) /\ TidyStep(s) /\ IsResult(r) /\ t = RunStatement(r, s) /\ Alive(r) BY RunsFrom
<1>2. Len(g) \in Nat BY ListIs
<1>3. ASSUME Calculates(s), Plain[s.e]
      PROVE  ~Fails(s) /\ Len(g) = 1 /\ g[1] = ValueOf(s)
  <2> DEFINE n == Len(Visited(s))
             a == InFront(s)
  <2>1. LET f == Held(body, i, a + n)
        IN /\ n \in Nat /\ Width(body, i) = (a + n) + Behind(s)
           /\ IsList(f) /\ ~HasVoid(f) => ~Fails(s)
           /\ s.st # "assign" => Len(f) = 1 /\ f[1] = ValueOf(s)
    BY <1>3, LastValue
  <2>2. Behind(s) = 0 /\ a \in 0 .. 1 /\ s.st # "assign" BY DEF Behind, Rests, InFront
  <2>3. m = a + n
    <3>1. m = (a + n) + Behind(s) /\ n \in Nat BY <2>1
    <3> HIDE DEF a, n, s
    <3> QED BY <2>2, <3>1
  <2>4. g = Held(body, i, a + n) /\ IsList(g) /\ ~HasVoid(g) BY <2>3
  <2> QED BY <2>1, <2>2, <2>4
<1>4. CASE s.st = "let"
  <2>1. Calculates(s) /\ Plain[s.e] BY <1>1, <1>4 DEF Calculates, TidyStep
  <2>2. ~Fails(s) /\ Len(g) = 1 /\ g[1] = ValueOf(s) BY <1>3, <2>1
  <2>3. SameResult(r, t) /\ t.env = Bind(r.env, Len(r.env), s.name, ValueOf(s))
    <3> HIDE DEF r, t, s, g
    <3> QED BY <1>1, <1>4, <2>2, RunIs
  <2>4. Alive(t) BY <1>1, <2>3 DEF SameResult, Alive
  <2> QED BY <1>2, <1>4, <2>2, <2>3, <2>4 DEF SameResult
<1>5. CASE s.st # "let"
  <2>1. s.st = "expr" /\ s.e.ex # "call" BY <1>5 DEF Rests
  <2>2. \/ Judges(s) /\ Plain[s.e]
        \/ s.e.ex = "lambda" /\ ~Judges(s)
    <3> HIDE DEF s
    <3> QED BY <1>1, <2>1, KindOfExpr
  <2>3. CASE Judges(s) /\ Plain[s.e]
    <3>1. Calculates(s) BY <2>3 DEF Calculates
    <3>2. ~Fails(s) BY <1>3, <2>3, <3>1
    <3>3. t.failed = Fails(s) /\ t.out = r.out /\ t.env = r.env /\ t.ended = r.ended
      <4> HIDE DEF r, t, s, g
      <4> QED BY <1>1, <2>3, RunIs
    <3>4. Alive(t) BY <1>1, <3>2, <3>3 DEF Alive
    <3> QED BY <1>2, <1>5, <3>3, <3>4
  <2>4. CASE s.e.ex = "lambda" /\ ~Judges(s)
    <3>1. ~Prints(s) BY <2>4 DEF Prints
    <3>2. t = r
      <4> HIDE DEF r, t, s, g
      <4> QED BY <1>1, <2>1, <2>4, <3>1, RunIs
    <3> QED BY <1>1, <1>2, <1>5, <3>2
  <2> QED BY <2>2, <2>3, <2>4
<1> QED BY <1>4, <1>5

-------------------------------------------------------------------------------
(* What a statement does to the locals, and where a run is.                *)

(* What becomes of the values of the locals in a statement.                *)
LocalsOf(body, i) == AfterStatement(body, i).locals
Carries(body, i, n) == \A l \in 1 .. n : Local(body, i + 1, l) = Local(body, i, l)

LEMMA CarriesIs ==
  ASSUME NEW body, Compilable(body), NEW i \in 1 .. Len(body), NEW n \in Nat,
         \A l \in 1 .. n :
            LET v == LocalsOf(body, i - 1)[l] IN
            /\ LocalsOf(body, i)[l] = v
            /\ Runs(body)[i].env[v.depth][v.name] = Runs(body)[i - 1].env[v.depth][v.name]
  PROVE  Carries(body, i, n)
<1>1. Len(body) \in Nat BY Compilation
<1>2. (i + 1) - 1 = i BY <1>1
<1> QED BY <1>2 DEF Carries, Local, LocalsOf

(* Only a block, a let and an assignment touch the locals.                 *)
LEMMA CarrySame ==
  ASSUME NEW body, Compilable(body), NEW i \in 1 .. Len(body), Alive(Runs(body)[i - 1]),
         body[i].st \notin {"let", "open", "close"}, Runs(body)[i].env = Runs(body)[i - 1].env
  PROVE  LocalsOf(body, i) = LocalsOf(body, i - 1) /\ Carries(body, i, Len(LocalsOf(body, i)))
<1>1. LocalsOf(body, i) = LocalsOf(body, i - 1)
  BY StatementsGo DEF StatementGoes, LocalsOf
<1>2. IsCompiler(AfterStatement(body, i - 1)) BY RunsFrom
<1>3. Len(LocalsOf(body, i)) \in Nat BY <1>1, <1>2, ListIs DEF IsCompiler, LocalsOf
<1> QED BY <1>1, <1>3, CarriesIs

LEMMA CarryOpen ==
  ASSUME NEW body, Compilable(body), NEW i \in 1 .. Len(body), Alive(Runs(body)[i - 1]), body[i].st = "open"
  PROVE  /\ LocalsOf(body, i) = LocalsOf(body, i - 1) /\ Carries(body, i, Len(LocalsOf(body, i)))
         /\ AfterStatement(body, i).code = AfterStatement(body, i - 1).code
         /\ Alive(Runs(body)[i]) /\ Runs(body)[i].out = Runs(body)[i - 1].out
<1> DEFINE r == Runs(body)[i - 1]
           t == Runs(body)[i]
           s == body[i]
           c == AfterStatement(body, i - 1)
           n == Len(LocalsOf(body, i))
<1>1. LocalsOf(body, i) = LocalsOf(body, i - 1) /\ AfterStatement(body, i).code = AfterStatement(body, i - 1).code
  BY StatementsGo DEF StatementGoes, LocalsOf
<1>2. /\ IsResult(r) /\ t = RunStatement(r, s) /\ Alive(r) /\ IsCompiler(c) /\ Linked(c, r.env, Scopes(body)[i - 1])
      /\ s.st = "open"
  BY RunsFrom
<1>3. n \in Nat BY <1>1, <1>2, ListIs DEF IsCompiler, LocalsOf
<1>4. SameResult(r, t) /\ t.env = Append(r.env, <<>>)
  <2> HIDE DEF r, t, s
  <2> QED BY <1>2, RunIs
<1>5. Alive(t) /\ t.out = r.out BY <1>2, <1>4 DEF Alive, SameResult
<1>6. Within(r.env, t.env)
  <2>1. IsList(r.env) BY <1>2 DEF Linked
  <2> HIDE DEF r, t
  <2> QED BY <1>4, <2>1, ListAppend
<1>7. \A l \in 1 .. n :
            LET v == LocalsOf(body, i - 1)[l] IN
            LocalsOf(body, i)[l] = v /\ t.env[v.depth][v.name] = r.env[v.depth][v.name]
  <2> TAKE l \in 1 .. n
  <2>1. LocalsOf(body, i - 1)[l].depth \in 1 .. Len(r.env) BY <1>1, <1>2 DEF Linked, LocalsOf
  <2> QED BY <1>1, <1>6, <2>1 DEF Within
<1>8. Carries(body, i, n)
  <2> HIDE DEF n
  <2> QED BY <1>3, <1>7, CarriesIs
<1> QED BY <1>1, <1>5, <1>8

(* A let adds its name with its value.                                     *)
LEMMA CarryLet ==
  ASSUME NEW body, Compilable(body), NEW i \in 1 .. Len(body), Alive(Runs(body)[i - 1]), body[i].st = "let",
         NEW x, Runs(body)[i].env = Bind(Runs(body)[i - 1].env, Len(Runs(body)[i - 1].env), body[i].name, x)
  PROVE  LET n == Len(LocalsOf(body, i - 1)) IN
         /\ n \in Nat /\ Len(LocalsOf(body, i)) = n + 1 /\ Carries(body, i, n) /\ Local(body, i + 1, n + 1) = x
<1> DEFINE env == Runs(body)[i - 1].env
           e == Runs(body)[i].env
           name == body[i].name
           c == AfterStatement(body, i - 1)
           k == LocalsOf(body, i - 1)
           new == NewLocal(c, name)
           n == Len(k)
           d == Len(env)
<1>1. IsCompiler(c) /\ Linked(c, env, Scopes(body)[i - 1]) BY RunsFrom
<1>2. LocalsOf(body, i) = Append(k, new) /\ \A l \in DOMAIN k : k[l] # new
  BY StatementsGo DEF StatementGoes, LocalsOf
<1>3. n \in Nat /\ DOMAIN k = 1 .. n /\ IsList(k) BY <1>1, ListIs DEF IsCompiler, LocalsOf
<1>4. /\ Len(LocalsOf(body, i)) = n + 1 /\ LocalsOf(body, i)[n + 1] = new
      /\ \A l \in 1 .. n : LocalsOf(body, i)[l] = k[l]
  <2> HIDE DEF k, new
  <2> QED BY <1>2, <1>3, ListAppend DEF Within
<1>5. IsList(env) /\ d \in 1 .. d /\ c.depth = d
  <2>1. IsList(env) /\ d = c.depth /\ c.depth >= 1 BY <1>1 DEF Linked
  <2>2. d \in Nat BY <2>1, ListIs
  <2> HIDE DEF d
  <2> QED BY <2>1, <2>2
<1>6. /\ e[d][name] = x
      /\ \A y \in DOMAIN env[d] : y # name => e[d][y] = env[d][y]
      /\ \A j \in 1 .. d : j # d => e[j] = env[j]
  <2>1. e = Bind(env, d, name, x) OBVIOUS
  <2> HIDE DEF env, e, name
  <2> QED BY <1>5, <2>1, BindIs
<1>7. \A l \in 1 .. n : LET v == k[l] IN LocalsOf(body, i)[l] = v /\ e[v.depth][v.name] = env[v.depth][v.name]
  <2> TAKE l \in 1 .. n
  <2> DEFINE v == k[l]
  <2>1. v = [name |-> v.name, depth |-> v.depth] /\ v.depth \in 1 .. d /\ v.name \in DOMAIN env[v.depth]
    BY <1>1 DEF Linked, LocalsOf
  <2>2. v # [name |-> name, depth |-> d] BY <1>2, <1>3, <1>5 DEF NewLocal
  <2> HIDE DEF v, e, env, name, d
  <2>3. e[v.depth][v.name] = env[v.depth][v.name]
    <3>1. CASE v.depth # d BY <1>6, <2>1, <3>1
    <3>2. CASE v.depth = d
      <4>1. v.name # name BY <2>1, <2>2, <3>2
      <4> QED BY <1>6, <2>1, <3>2, <4>1
    <3> QED BY <3>1, <3>2
  <2> QED BY <1>4, <2>3 DEF v
<1>8. Carries(body, i, n)
  <2> HIDE DEF n
  <2> QED BY <1>3, <1>7, CarriesIs
<1>9. Local(body, i + 1, n + 1) = x
  <2>1. Len(body) \in Nat BY Compilation
  <2>2. (i + 1) - 1 = i BY <2>1
  <2>3. LocalsOf(body, i)[n + 1] = [name |-> name, depth |-> d] BY <1>4, <1>5 DEF NewLocal
  <2> HIDE DEF n, name, d
  <2>4. LocalsOf(body, i)[n + 1].depth = d /\ LocalsOf(body, i)[n + 1].name = name BY <2>3
  <2> QED BY <1>6, <2>2, <2>4 DEF Local, LocalsOf
<1> QED BY <1>3, <1>4, <1>8, <1>9

(* The k-th local of the scope is set to x, in the meaning and in what the *)
(* compiler knows of it.                                                   *)
Assigns(body, i, k, x) ==
  /\ k \in 1 .. Len(LocalsOf(body, i - 1))
  /\ Runs(body)[i].env = Bind(Runs(body)[i - 1].env, LocalsOf(body, i - 1)[k].depth, LocalsOf(body, i - 1)[k].name, x)

Replaces(body, i, k, x) ==
  /\ LocalsOf(body, i) = LocalsOf(body, i - 1)
  /\ \A l \in 1 .. Len(LocalsOf(body, i)) : Local(body, i + 1, l) = IF l = k THEN x ELSE Local(body, i, l)

LEMMA CarryAssign ==
  ASSUME NEW body, Compilable(body), NEW i \in 1 .. Len(body), Alive(Runs(body)[i - 1]), body[i].st = "assign",
         NEW k, NEW x, Assigns(body, i, k, x)
  PROVE  Replaces(body, i, k, x)
<1>0. k \in 1 .. Len(LocalsOf(body, i - 1)) BY DEF Assigns
<1> DEFINE env == Runs(body)[i - 1].env
           e == Runs(body)[i].env
           c == AfterStatement(body, i - 1)
           q == LocalsOf(body, i - 1)
           n == Len(q)
           d == q[k].depth
           name == q[k].name
<1>1. IsCompiler(c) /\ Linked(c, env, Scopes(body)[i - 1]) BY RunsFrom
<1>2. LocalsOf(body, i) = q
  BY StatementsGo DEF StatementGoes, LocalsOf
<1>3. n \in Nat /\ IsList(env) BY <1>1, ListIs DEF IsCompiler, LocalsOf, Linked
<1>4. \A l \in 1 .. n : /\ q[l] = [name |-> q[l].name, depth |-> q[l].depth]
                        /\ q[l].depth \in 1 .. Len(env) /\ q[l].name \in DOMAIN env[q[l].depth]
  BY <1>1 DEF Linked, LocalsOf
<1>5. \A l, j \in 1 .. n : l < j => q[l] # q[j] BY <1>1 DEF Linked, LocalsOf
<1>6. d \in 1 .. Len(env) /\ q[k] = [name |-> name, depth |-> d] BY <1>0, <1>4
<1>7. /\ e[d][name] = x
      /\ \A y \in DOMAIN env[d] : y # name => e[d][y] = env[d][y]
      /\ \A j \in 1 .. Len(env) : j # d => e[j] = env[j]
  <2>1. e = Bind(env, d, name, x) BY DEF Assigns
  <2> HIDE DEF env, e, name, d
  <2> QED BY <1>3, <1>6, <2>1, BindIs
<1>8. Len(body) \in Nat BY Compilation
<1>9. (i + 1) - 1 = i BY <1>8
<1>10. ASSUME NEW l \in 1 .. n PROVE Local(body, i + 1, l) = IF l = k THEN x ELSE Local(body, i, l)
  <2> DEFINE v == q[l]
  <2>1. Local(body, i + 1, l) = e[v.depth][v.name] BY <1>2, <1>9 DEF Local, LocalsOf
  <2>2. Local(body, i, l) = env[v.depth][v.name] BY DEF Local, LocalsOf
  <2>3. CASE l = k BY <1>7, <2>1, <2>3
  <2>4. CASE l # k
    <3>1. v # q[k]
      <4>1. l < k \/ k < l BY <1>0, <1>3, <2>4
      <4> QED BY <1>0, <1>5, <4>1
    <3>2. v = [name |-> v.name, depth |-> v.depth] /\ v.depth \in 1 .. Len(env) /\ v.name \in DOMAIN env[v.depth]
      BY <1>4
    <3>3. v # [name |-> name, depth |-> d] BY <1>6, <3>1
    <3> HIDE DEF v, e, env, name, d
    <3>4. e[v.depth][v.name] = env[v.depth][v.name]
      <4>1. CASE v.depth # d BY <1>7, <3>2, <4>1
      <4>2. CASE v.depth = d
        <5>1. v.name # name BY <3>2, <3>3, <4>2
        <5> QED BY <1>7, <3>2, <4>2, <5>1
      <4> QED BY <4>1, <4>2
    <3> QED BY <2>1, <2>2, <2>4, <3>4
  <2> QED BY <2>3, <2>4
<1> QED BY <1>2, <1>10 DEF Replaces

Pops(body, i) == Len(LocalsOf(body, i - 1)) - Len(LocalsOf(body, i))

(* The end of a block pops its locals and keeps the others.                *)
LEMMA CarryClose ==
  ASSUME NEW body, Compilable(body), NEW i \in 1 .. Len(body), Alive(Runs(body)[i - 1]), body[i].st = "close"
  PROVE  /\ Pops(body, i) \in 0 .. Len(LocalsOf(body, i - 1)) /\ Len(LocalsOf(body, i)) \in Nat
         /\ Len(LocalsOf(body, i - 1)) \in Nat
         /\ Carries(body, i, Len(LocalsOf(body, i)))
         /\ Alive(Runs(body)[i]) /\ Runs(body)[i].out = Runs(body)[i - 1].out
         /\ Len(AfterStatement(body, i).code) = Len(AfterStatement(body, i - 1).code) + Pops(body, i)
         /\ Len(AfterStatement(body, i - 1).code) \in Nat /\ Len(AfterStatement(body, i).code) <= Len(Chunk(body).code)
         /\ \A j \in 1 .. Pops(body, i) : Chunk(body).code[Len(AfterStatement(body, i - 1).code) + j].op = "POP"
<1> DEFINE r == Runs(body)[i - 1]
           t == Runs(body)[i]
           s == body[i]
           c == AfterStatement(body, i - 1)
           e == AfterStatement(body, i)
           n == Len(LocalsOf(body, i))
           p == Pops(body, i)
           code == Chunk(body).code
<1>1. e = CloseScope(c)
  BY StatementsGo DEF StatementGoes
<1>2. /\ IsResult(r) /\ t = RunStatement(r, s) /\ Alive(r) /\ IsCompiler(c) /\ Linked(c, r.env, Scopes(body)[i - 1])
      /\ s.st = "close"
  BY RunsFrom
<1>3. SameResult(r, t) /\ t.env = SubSeq(r.env, 1, Len(r.env) - 1)
  <2> HIDE DEF r, t, s
  <2> QED BY <1>2, RunIs
<1>4. Alive(t) /\ t.out = r.out BY <1>2, <1>3 DEF Alive, SameResult
<1>5. /\ Kept(c) \in 0 .. Len(c.locals) /\ Len(e.locals) = Kept(c)
      /\ \A l \in 1 .. Kept(c) : e.locals[l] = c.locals[l]
      /\ Len(e.code) = Len(c.code) + (Len(c.locals) - Kept(c))
      /\ \A j \in 1 .. Len(c.locals) - Kept(c) : e.code[Len(c.code) + j] = [op |-> "POP", arg |-> 0]
  <2> HIDE DEF c, e
  <2> QED BY <1>1, <1>2, Closed
<1>6. Len(c.locals) \in Nat /\ Len(c.code) \in Nat BY <1>2, ListIs DEF IsCompiler
<1>7. n = Kept(c) /\ p = Len(c.locals) - Kept(c) /\ Len(LocalsOf(body, i - 1)) = Len(c.locals)
  BY <1>5 DEF LocalsOf, Pops
<1>8. InChunk(e, Chunk(body))
  <2>1. Len(body) \in Nat BY Compilation
  <2>2. i \in 0 .. Len(body) BY <2>1
  <2> QED BY <2>2, Compilation
<1>9. Len(e.code) <= Len(code) /\ \A j \in 1 .. Len(e.code) : code[j] = e.code[j]
  BY <1>8 DEF InChunk, Within
<1>10. Linked(e, t.env, Scopes(body)[i])
  <2>1. Len(body) \in Nat BY Compilation
  <2>2. i \in 0 .. Len(body) BY <2>1
  <2> QED BY <1>4, <2>2, LinkedAll
<1>11. \A l \in 1 .. n :
            LET v == LocalsOf(body, i - 1)[l] IN
            LocalsOf(body, i)[l] = v /\ t.env[v.depth][v.name] = r.env[v.depth][v.name]
  <2> TAKE l \in 1 .. n
  <2> DEFINE v == LocalsOf(body, i - 1)[l]
  <2>1. LocalsOf(body, i)[l] = v BY <1>5, <1>7 DEF LocalsOf
  <2>2. v.depth \in 1 .. Len(t.env) BY <1>10, <2>1 DEF Linked, LocalsOf
  <2>3. IsList(r.env) /\ Len(r.env) = c.depth /\ c.depth >= 1 BY <1>2 DEF Linked
  <2>4. Len(r.env) \in Nat BY <2>3, ListIs
  <2>5. Len(r.env) - 1 \in 0 .. Len(r.env) BY <2>3, <2>4
  <2>6. Len(t.env) = Len(r.env) - 1 /\ \A j \in 1 .. Len(r.env) - 1 : t.env[j] = r.env[j]
    <3> DEFINE f == r.env
               k == Len(f) - 1
    <3>1. IsList(f) /\ k \in 0 .. Len(f) /\ t.env = SubSeq(f, 1, k) BY <1>3, <2>3, <2>5
    <3> HIDE DEF f, k
    <3>2. Len(SubSeq(f, 1, k)) = k /\ \A j \in 1 .. k : SubSeq(f, 1, k)[j] = f[j] BY <3>1, ListIs
    <3>3. Len(t.env) = k /\ \A j \in 1 .. k : t.env[j] = f[j] BY <3>1, <3>2
    <3> QED BY <3>3 DEF f, k
  <2> QED BY <2>1, <2>2, <2>6
<1>12. n \in Nat /\ p \in 0 .. Len(c.locals) /\ p \in Nat
  <2> HIDE DEF n, p
  <2> QED BY <1>5, <1>6, <1>7
<1>13. Carries(body, i, n)
  <2> HIDE DEF n
  <2> QED BY <1>11, <1>12, CarriesIs
<1>14. ASSUME NEW j \in 1 .. p PROVE code[Len(c.code) + j].op = "POP"
  <2>1. e.code[Len(c.code) + j] = [op |-> "POP", arg |-> 0] BY <1>5, <1>7
  <2>2. Len(c.code) + j \in 1 .. Len(e.code)
    <3>1. Len(e.code) = Len(c.code) + p BY <1>5, <1>7
    <3> HIDE DEF p
    <3> QED BY <1>6, <1>12, <3>1
  <2> QED BY <1>9, <2>1, <2>2
<1>15. Len(e.code) = Len(c.code) + p BY <1>5, <1>7
<1> QED BY <1>4, <1>6, <1>7, <1>9, <1>12, <1>13, <1>14, <1>15

(* Where a run of a tidy lambda is: the locals are in the slots of their   *)
(* numbers, what was left by other statements above them up to b, then     *)
(* what the statement under way holds.                                     *)
Declares(body, i) == \A j \in 1 .. i - 1 : body[j].st \in {"let", "open", "close"}
Keeps(body, i, b, stk) ==
  /\ b \in Nat /\ b >= 1 + Len(LocalsOf(body, i - 1)) /\ Len(LocalsOf(body, i - 1)) \in Nat
  /\ \A l \in 1 .. Len(LocalsOf(body, i - 1)) : stk[l] = Local(body, i, l)
  /\ Declares(body, i) => b = 1 + Len(LocalsOf(body, i - 1))
Filled(h, b, stk, tp) ==
  /\ IsList(h) /\ ~HasVoid(h) /\ tp = b + Len(h)
  /\ \A j \in 1 .. Len(h) : stk[(b + j) - 1] = h[j]
InStatement(body, i, m, b, stk, tp, ip) ==
  /\ body[i].st # "close" /\ m \in 0 .. Width(body, i)
  /\ m = Width(body, i) => Rests(body[i])
  /\ body[i].st = "open" => m = 0
  /\ ip = CodeAt(body, i, m) /\ Filled(Held(body, i, m), b, stk, tp)
Closing(body, i, x, b, tp, ip) ==
  body[i].st = "close" /\ x \in 0 .. Pops(body, i) /\ ip = CodeAt(body, i, 0) + x /\ tp = b - x
At(body, i, m, b, x, stk, tp, ip, out) ==
  /\ i \in 1 .. Len(body) /\ Alive(Runs(body)[i - 1]) /\ out = Runs(body)[i - 1].out
  /\ Keeps(body, i, b, stk) /\ ip \in Nat /\ tp <= ip + 1
  /\ InStatement(body, i, m, b, stk, tp, ip) \/ Closing(body, i, x, b, tp, ip)

LEMMA NothingHeld == ASSUME NEW body, Compilable(body), NEW i \in 1 .. Len(body)
                     PROVE  Held(body, i, 0) = <<>>
<1> DEFINE w == Statement(body[i])
           env == Runs(body)[i - 1].env
           h == Values(env, w)
<1>1. IsList(w) BY Compilation DEF IsDone
<1> HIDE DEF w, env
<1>2. h[0] = <<>> BY <1>1, ValuesGo DEF ExecsTo
<1> QED BY <1>2 DEF Held, w, env

LEMMA NoStepsRests ==
  ASSUME NEW body, Compilable(body), NEW i \in 1 .. Len(body), body[i].st # "close", Width(body, i) = 0
  PROVE  Rests(body[i]) /\ body[i].st # "open"
<1> DEFINE s == body[i]
<1>1. IsStatement(s) /\ TidyStep(s) BY TidyParts
<1>2. Len(Statement(s)) = 0 BY DEF Width
<1>3. s.st # "close" OBVIOUS
<1> HIDE DEF s
<1>4. s.st # "open"
  <2>1. ASSUME s.st = "open" PROVE FALSE
    <3>1. Statement(s) = <<[do |-> "open"]>> BY <2>1, StatementIs
    <3>2. Len(Statement(s)) = 1 BY <3>1, ListOne
    <3> QED BY <1>2, <3>2
  <2> QED BY <2>1
<1>5. ASSUME s.st \in {"assign", "return"} PROVE FALSE
  <2> DEFINE n == Len(Visited(s))
             a == InFront(s)
  <2>1. Calculates(s) /\ Plain[s.e] BY <1>1, <1>5 DEF Calculates, TidyStep
  <2>2. n \in Nat /\ Len(Statement(s)) = (a + n) + Behind(s) BY <1>1, <2>1, CalculatingShape
  <2>3. Behind(s) = 1 /\ a \in 0 .. 1 BY <1>5 DEF Behind, InFront
  <2> HIDE DEF n, a
  <2> QED BY <1>2, <2>2, <2>3
<1>6. ASSUME s.st = "expr", s.e.ex = "call" PROVE FALSE
  <2> DEFINE n == Len(s.e.args)
  <2>1. n \in Nat /\ Len(Statement(s)) = (1 + n) + 1 BY <1>1, <1>6, CallShape
  <2> HIDE DEF n
  <2> QED BY <1>2, <2>1
<1>7. s.st \in {"let", "expr", "assign", "return"} BY <1>1, <1>3, <1>4 DEF IsStatement, TidyStep
<1> QED BY <1>4, <1>5, <1>6, <1>7 DEF Rests, s

(* A run at the begin of a statement.                                      *)
LEMMA Enter ==
  ASSUME NEW body, Compilable(body), NEW i \in 1 .. Len(body), Alive(Runs(body)[i - 1]),
         NEW b, NEW stk, Keeps(body, i, b, stk), NEW ip, ip = Len(AfterStatement(body, i - 1).code), b <= ip + 1
  PROVE  At(body, i, 0, b, 0, stk, b, ip, Runs(body)[i - 1].out)
<1>1. /\ Width(body, i) \in Nat /\ CompilerIn(body, i, 0) = AfterStatement(body, i - 1) BY Compilation
<1>2. IsCompiler(AfterStatement(body, i - 1)) BY RunsFrom
<1>3. ip \in Nat /\ ip = CodeAt(body, i, 0) BY <1>1, <1>2, ListIs DEF IsCompiler, CodeAt
<1>4. b \in Nat BY DEF Keeps
<1>5. CASE body[i].st = "close"
  <2>1. Pops(body, i) \in Nat
    <3>1. Pops(body, i) \in 0 .. Len(LocalsOf(body, i - 1)) BY <1>5, CarryClose
    <3> QED BY <3>1
  <2>2. 0 \in 0 .. Pops(body, i) /\ ip = CodeAt(body, i, 0) + 0 /\ b = b - 0 BY <1>3, <1>4, <2>1
  <2>3. Closing(body, i, 0, b, b, ip) BY <1>5, <2>2 DEF Closing
  <2> QED BY <1>3, <2>3 DEF At
<1>6. CASE body[i].st # "close"
  <2> DEFINE h == <<>>
  <2>1. IsList(h) /\ Len(h) = 0 /\ ~HasVoid(h) BY EmptyList
  <2>2. Held(body, i, 0) = h BY NothingHeld
  <2> HIDE DEF h
  <2>3. Filled(h, b, stk, b) BY <1>4, <2>1 DEF Filled
  <2>4. 0 = Width(body, i) => Rests(body[i]) BY <1>6, NoStepsRests
  <2>5. 0 \in 0 .. Width(body, i) BY <1>1
  <2>6. InStatement(body, i, 0, b, stk, b, ip) BY <1>3, <1>6, <2>2, <2>3, <2>4, <2>5 DEF InStatement
  <2> QED BY <1>3, <2>6 DEF At
<1> QED BY <1>5, <1>6

(* The next statement, when the locals are where they should be.           *)
ComesNext(body, i, b, stk, ip) ==
  /\ i + 1 \in 1 .. Len(body)
  /\ At(body, i + 1, 0, b, 0, stk, b, ip, Runs(body)[i].out)

LEMMA NotTheLast ==
  ASSUME NEW body, Compilable(body), NEW i \in 1 .. Len(body), body[i].st # "return"
  PROVE  i + 1 \in 1 .. Len(body) /\ (i + 1) - 1 = i
<1>1. Len(body) \in Nat BY Compilation
<1>2. body[Len(body)].st = "return" BY DEF Compilable, IsTidy
<1>3. i # Len(body) BY <1>2
<1> QED BY <1>1, <1>3

LEMMA DeclaresNext ==
  ASSUME NEW body, Compilable(body), NEW i \in 1 .. Len(body)
  PROVE  Declares(body, i + 1) => Declares(body, i) /\ body[i].st \in {"let", "open", "close"}
<1>1. Len(body) \in Nat BY Compilation
<1>2. i \in 1 .. (i + 1) - 1 /\ \A j \in 1 .. i - 1 : j \in 1 .. (i + 1) - 1 BY <1>1
<1> QED BY <1>2 DEF Declares

(* Locals that are carried are kept where they are.                        *)
LEMMA NextComes ==
  ASSUME NEW body, Compilable(body), NEW i \in 1 .. Len(body), body[i].st # "return", Alive(Runs(body)[i]),
         NEW b, NEW stk, NEW ip, ip = Len(AfterStatement(body, i).code), b <= ip + 1,
         NEW n, n = Len(LocalsOf(body, i)), n \in Nat, b \in Nat, b >= 1 + n,
         \A l \in 1 .. n : stk[l] = Local(body, i + 1, l),
         Declares(body, i) /\ body[i].st \in {"let", "open", "close"} => b = 1 + n
  PROVE  ComesNext(body, i, b, stk, ip)
<1>1. i + 1 \in 1 .. Len(body) /\ (i + 1) - 1 = i BY NotTheLast
<1>2. Declares(body, i + 1) => b = 1 + n BY DeclaresNext
<1>3. Keeps(body, i + 1, b, stk) BY <1>1, <1>2 DEF Keeps
<1> DEFINE k == i + 1
<1>4. /\ k \in 1 .. Len(body) /\ Alive(Runs(body)[k - 1]) /\ Keeps(body, k, b, stk)
      /\ ip = Len(AfterStatement(body, k - 1).code) /\ k - 1 = i
  BY <1>1, <1>3
<1> HIDE DEF k
<1>5. At(body, k, 0, b, 0, stk, b, ip, Runs(body)[k - 1].out) BY <1>4, Enter
<1> QED BY <1>1, <1>4, <1>5 DEF ComesNext, k

(* A statement of a run that is passed: the run is at the next one.        *)
LEMMA PassRested ==
  ASSUME NEW body, Compilable(body), NEW i, NEW m, NEW b, NEW x, NEW stk, NEW tp, NEW ip, NEW out,
         At(body, i, m, b, x, stk, tp, ip, out), body[i].st # "close", m = Width(body, i)
  PROVE  \E c : ComesNext(body, i, c, stk, ip) /\ tp = c /\ out = Runs(body)[i].out
<1> DEFINE s == body[i]
           r == Runs(body)[i - 1]
           t == Runs(body)[i]
           g == Held(body, i, m)
           n == Len(LocalsOf(body, i - 1))
<1>1. /\ i \in 1 .. Len(body) /\ Alive(r) /\ out = r.out /\ Keeps(body, i, b, stk)
      /\ ip \in Nat /\ tp <= ip + 1 /\ InStatement(body, i, m, b, stk, tp, ip)
  BY DEF At, Closing
<1>2. Rests(s) /\ ip = CodeAt(body, i, m) /\ Filled(g, b, stk, tp) BY <1>1 DEF InStatement
<1>3. IsList(g) /\ ~HasVoid(g) /\ tp = b + Len(g) /\ \A j \in 1 .. Len(g) : stk[(b + j) - 1] = g[j]
  BY <1>2 DEF Filled
<1>4. /\ Alive(t) /\ t.out = r.out
      /\ s.st # "let" => t.env = r.env /\ Len(g) \in Nat
      /\ s.st = "let" => t.env = Bind(r.env, Len(r.env), s.name, g[1]) /\ Len(g) = 1
  BY <1>1, <1>2, <1>3, Rested
<1>5. ip = Len(AfterStatement(body, i).code)
  <2>1. CompilerIn(body, i, Width(body, i)) = AfterStatement(body, i) BY <1>1, Compilation
  <2> QED BY <1>2, <2>1 DEF CodeAt
<1>6. b \in Nat /\ b >= 1 + n /\ n \in Nat /\ (\A l \in 1 .. n : stk[l] = Local(body, i, l))
      /\ (Declares(body, i) => b = 1 + n)
  BY <1>1 DEF Keeps
<1>7. s.st # "return" BY <1>2 DEF Rests
<1>8. Len(g) \in Nat BY <1>3, ListIs
<1>9. tp \in Nat /\ tp >= 1 + n BY <1>3, <1>6, <1>8
<1>10. CASE s.st = "let"
  <2> DEFINE y == g[1]
             k == Len(LocalsOf(body, i))
  <2>1. /\ k = n + 1 /\ Carries(body, i, n) /\ Local(body, i + 1, n + 1) = y
    <3>1. /\ i \in 1 .. Len(body) /\ Alive(Runs(body)[i - 1]) /\ body[i].st = "let"
          /\ Runs(body)[i].env = Bind(Runs(body)[i - 1].env, Len(Runs(body)[i - 1].env), body[i].name, y)
      BY <1>1, <1>4, <1>10
    <3> HIDE DEF y
    <3>2. LET j == Len(LocalsOf(body, i - 1)) IN
          Len(LocalsOf(body, i)) = j + 1 /\ Carries(body, i, j) /\ Local(body, i + 1, j + 1) = y
      BY <3>1, CarryLet
    <3> QED BY <3>2
  <2>2. Declares(body, i) BY <1>1, <1>10 DEF Compilable, IsTidy, Declares
  <2>3. b = 1 + n /\ tp = b + 1
    <3>1. b = 1 + n BY <1>6, <2>2
    <3>2. Len(g) = 1 /\ tp = b + Len(g) BY <1>3, <1>4, <1>10
    <3> QED BY <3>1, <3>2
  <2>4. stk[n + 1] = y
    <3>0. Len(g) = 1 BY <1>4, <1>10
    <3>1. 1 \in 1 .. Len(g)
      <4> HIDE DEF g
      <4> QED BY <3>0
    <3>2. stk[(b + 1) - 1] = y BY <1>3, <3>1
    <3>3. (b + 1) - 1 = n + 1 BY <1>6, <2>3
    <3> QED BY <3>2, <3>3
  <2>5. \A l \in 1 .. k : stk[l] = Local(body, i + 1, l)
    <3> TAKE l \in 1 .. k
    <3>1. CASE l = n + 1 BY <2>1, <2>4, <3>1
    <3>2. CASE l # n + 1
      <4>1. l \in 1 .. n BY <1>6, <2>1, <3>2
      <4> QED BY <1>6, <2>1, <4>1 DEF Carries
    <3> QED BY <3>1, <3>2
  <2>6. k \in Nat /\ tp >= 1 + k /\ tp = 1 + k BY <1>6, <2>1, <2>3
  <2> HIDE DEF k, n, t, r, g, y
  <2>7. ComesNext(body, i, tp, stk, ip) BY <1>1, <1>4, <1>5, <1>7, <1>9, <2>5, <2>6, NextComes DEF k, t
  <2> QED BY <1>1, <1>4, <2>7 DEF t
<1>11. CASE s.st # "let"
  <2> DEFINE k == Len(LocalsOf(body, i))
  <2>1. s.st = "expr" BY <1>2, <1>11 DEF Rests
  <2>2. k = n /\ Carries(body, i, k)
    <3>1. body[i].st \notin {"let", "open", "close"} BY <2>1
    <3>2. t.env = r.env BY <1>4, <1>11
    <3> QED BY <1>1, <3>1, <3>2, CarrySame
  <2>3. \A l \in 1 .. k : stk[l] = Local(body, i + 1, l) BY <1>6, <2>2 DEF Carries
  <2>4. ~(body[i].st \in {"let", "open", "close"}) BY <2>1
  <2>5. k \in Nat /\ tp >= 1 + k BY <1>6, <1>9, <2>2
  <2> HIDE DEF k, n, t, r, g
  <2>6. ComesNext(body, i, tp, stk, ip)
    BY <1>1, <1>4, <1>5, <1>7, <1>9, <2>3, <2>4, <2>5, NextComes DEF k, t
  <2> QED BY <1>1, <1>4, <2>6 DEF t
<1> QED BY <1>10, <1>11

LEMMA PassOpen ==
  ASSUME NEW body, Compilable(body), NEW i, NEW m, NEW b, NEW x, NEW stk, NEW tp, NEW ip, NEW out,
         At(body, i, m, b, x, stk, tp, ip, out), body[i].st = "open"
  PROVE  \E c : ComesNext(body, i, c, stk, ip) /\ tp = c /\ out = Runs(body)[i].out
<1> DEFINE s == body[i]
           r == Runs(body)[i - 1]
           t == Runs(body)[i]
           n == Len(LocalsOf(body, i - 1))
           k == Len(LocalsOf(body, i))
<1>1. /\ i \in 1 .. Len(body) /\ Alive(r) /\ out = r.out /\ Keeps(body, i, b, stk)
      /\ ip \in Nat /\ tp <= ip + 1 /\ InStatement(body, i, m, b, stk, tp, ip)
  BY DEF At, Closing
<1>2. m = 0 /\ ip = CodeAt(body, i, 0) /\ Filled(Held(body, i, 0), b, stk, tp) BY <1>1 DEF InStatement
<1>3. tp = b
  <2> DEFINE h == <<>>
  <2>1. Len(h) = 0 BY EmptyList
  <2>2. Held(body, i, 0) = h BY <1>1, NothingHeld
  <2> HIDE DEF h
  <2>3. tp = b + Len(h) /\ b \in Nat BY <1>1, <1>2, <2>2 DEF Filled, Keeps
  <2> QED BY <2>1, <2>3
<1>4. /\ LocalsOf(body, i) = LocalsOf(body, i - 1) /\ Carries(body, i, k)
      /\ AfterStatement(body, i).code = AfterStatement(body, i - 1).code /\ Alive(t) /\ t.out = r.out
  BY <1>1, CarryOpen
<1>5. ip = Len(AfterStatement(body, i).code)
  <2>1. CompilerIn(body, i, 0) = AfterStatement(body, i - 1) BY <1>1, Compilation
  <2> QED BY <1>2, <1>4, <2>1 DEF CodeAt
<1>6. b \in Nat /\ b >= 1 + n /\ n \in Nat /\ (\A l \in 1 .. n : stk[l] = Local(body, i, l))
      /\ (Declares(body, i) => b = 1 + n)
  BY <1>1 DEF Keeps
<1>7. k = n /\ \A l \in 1 .. k : stk[l] = Local(body, i + 1, l) BY <1>4, <1>6 DEF Carries
<1>8. s.st # "return" OBVIOUS
<1> HIDE DEF k, n, t, r
<1>9. ComesNext(body, i, b, stk, ip) BY <1>1, <1>3, <1>4, <1>5, <1>6, <1>7, <1>8, NextComes DEF k, t
<1> QED BY <1>1, <1>3, <1>4, <1>9 DEF t

LEMMA PassClose ==
  ASSUME NEW body, Compilable(body), NEW i, NEW m, NEW b, NEW x, NEW stk, NEW tp, NEW ip, NEW out,
         At(body, i, m, b, x, stk, tp, ip, out), body[i].st = "close", x = Pops(body, i)
  PROVE  \E c : ComesNext(body, i, c, stk, ip) /\ tp = c /\ out = Runs(body)[i].out
<1> DEFINE s == body[i]
           r == Runs(body)[i - 1]
           t == Runs(body)[i]
           n == Len(LocalsOf(body, i - 1))
           k == Len(LocalsOf(body, i))
           p == Pops(body, i)
<1>1. /\ i \in 1 .. Len(body) /\ Alive(r) /\ out = r.out /\ Keeps(body, i, b, stk)
      /\ ip \in Nat /\ tp <= ip + 1 /\ Closing(body, i, x, b, tp, ip)
  BY DEF At, InStatement
<1>2. /\ p \in 0 .. n /\ k \in Nat /\ n \in Nat /\ Carries(body, i, k) /\ Alive(t) /\ t.out = r.out
      /\ Len(AfterStatement(body, i).code) = Len(AfterStatement(body, i - 1).code) + p
  BY <1>1, CarryClose
<1>3. p = n - k BY DEF Pops
<1>4. ip = Len(AfterStatement(body, i).code)
  <2>1. CompilerIn(body, i, 0) = AfterStatement(body, i - 1) BY <1>1, Compilation
  <2> QED BY <1>1, <1>2, <2>1 DEF CodeAt, Closing
<1>6. b \in Nat /\ b >= 1 + n /\ n \in Nat /\ (\A l \in 1 .. n : stk[l] = Local(body, i, l))
      /\ (Declares(body, i) => b = 1 + n)
  BY <1>1 DEF Keeps
<1>7. tp = b - p BY <1>1 DEF Closing
<1> HIDE DEF k, n, p
<1>8. tp \in Nat /\ tp >= 1 + k /\ k <= n /\ (Declares(body, i) => tp = 1 + k) BY <1>2, <1>3, <1>6, <1>7
<1>9. \A l \in 1 .. k : stk[l] = Local(body, i + 1, l)
  <2> TAKE l \in 1 .. k
  <2>1. l \in 1 .. n BY <1>2, <1>8
  <2> QED BY <1>2, <1>6, <2>1 DEF Carries
<1>10. s.st # "return" OBVIOUS
<1> HIDE DEF t, r
<1>11. ComesNext(body, i, tp, stk, ip) BY <1>1, <1>2, <1>4, <1>8, <1>9, <1>10, NextComes DEF k, t
<1> QED BY <1>1, <1>2, <1>11 DEF t

(* A run that is somewhere is also at an instruction.                      *)
Active(body, i, m, x) ==
  \/ body[i].st \notin {"open", "close"} /\ m \in 0 .. Width(body, i) - 1 /\ ~(body[i].st = "let" /\ m = 0)
  \/ body[i].st = "close" /\ x \in 0 .. Pops(body, i) - 1

LEMMA DeclarationIsPassed ==
  ASSUME NEW body, Compilable(body), NEW i, NEW b, NEW x, NEW stk, NEW tp, NEW ip, NEW out,
         At(body, i, 0, b, x, stk, tp, ip, out), body[i].st = "let"
  PROVE  At(body, i, 1, b, x, stk, tp, ip, out) /\ 1 <= Width(body, i) /\ Width(body, i) \in Nat
<1> DEFINE s == body[i]
<1>1. /\ i \in 1 .. Len(body) /\ Alive(Runs(body)[i - 1]) /\ out = Runs(body)[i - 1].out /\ Keeps(body, i, b, stk)
      /\ ip \in Nat /\ tp <= ip + 1 /\ InStatement(body, i, 0, b, stk, tp, ip)
  BY DEF At, Closing
<1>2. ip = CodeAt(body, i, 0) /\ Filled(Held(body, i, 0), b, stk, tp) BY <1>1 DEF InStatement
<1>3. IsStatement(s) /\ TidyStep(s) BY <1>1, TidyParts
<1>4. Calculates(s) /\ Plain[s.e] BY <1>3 DEF Calculates, TidyStep
<1>5. Held(body, i, 1) = <<>>
  <2> DEFINE w == Statement(s)
             env == Runs(body)[i - 1].env
             h == Values(env, w)
  <2>1. s.st = "let" OBVIOUS
  <2> HIDE DEF s
  <2>2. h[1] = <<>> BY <1>3, <1>4, <2>1, CalculatingValues
  <2> QED BY <2>2 DEF Held, s
<1>6. Held(body, i, 0) = <<>> BY <1>1, NothingHeld
<1>7. CompilerIn(body, i, 1).code = AfterStatement(body, i - 1).code /\ 1 <= Width(body, i)
  BY <1>1, StatementsGo
<1>8. CompilerIn(body, i, 0) = AfterStatement(body, i - 1) /\ Width(body, i) \in Nat
  BY <1>1, Compilation
<1>9. ip = CodeAt(body, i, 1) BY <1>2, <1>7, <1>8 DEF CodeAt
<1>10. 1 \in 0 .. Width(body, i) BY <1>7, <1>8
<1>11. Filled(Held(body, i, 1), b, stk, tp) BY <1>2, <1>5, <1>6
<1>12. Rests(s) BY DEF Rests
<1>13. InStatement(body, i, 1, b, stk, tp, ip) BY <1>9, <1>10, <1>11, <1>12 DEF InStatement
<1> QED BY <1>1, <1>7, <1>8, <1>13 DEF At

LEMMA Poised ==
  ASSUME NEW body, Compilable(body), NEW stk, NEW tp, NEW ip, NEW out,
         \E i, m, b, x : At(body, i, m, b, x, stk, tp, ip, out)
  PROVE  \E i, m, b, x : At(body, i, m, b, x, stk, tp, ip, out) /\ Active(body, i, m, x)
<1> DEFINE Here(i) == \E m, b, x : At(body, i, m, b, x, stk, tp, ip, out)
           S == {j \in 0 .. Len(body) : Here(j)}
<1>1. Len(body) \in Nat BY Compilation
<1>2. PICK i0 : Here(i0) OBVIOUS
<1>3. \A i : Here(i) => i \in 1 .. Len(body) BY DEF At
<1>4. i0 \in S
  <2>1. Here(i0) /\ i0 \in 1 .. Len(body) BY <1>2, <1>3
  <2> HIDE DEF Here
  <2>2. i0 \in 0 .. Len(body) BY <1>1, <2>1
  <2> QED BY <2>1, <2>2
<1> DEFINE i == Max(S)
<1>5. i \in S /\ \A j \in S : j <= i
  <2>1. S \subseteq 0 .. Len(body) /\ S # {} BY <1>4
  <2> HIDE DEF S
  <2> QED BY <1>1, <2>1, GreatestOf
<1> HIDE DEF i
<1>6. Here(i) /\ i \in 1 .. Len(body) BY <1>3, <1>5
<1>7. PICK m0, b, x : At(body, i, m0, b, x, stk, tp, ip, out) BY <1>6
<1>8. ASSUME NEW c, ComesNext(body, i, c, stk, ip), tp = c, out = Runs(body)[i].out PROVE FALSE
  <2>1. i + 1 \in 1 .. Len(body) /\ At(body, i + 1, 0, c, 0, stk, c, ip, Runs(body)[i].out)
    BY <1>8 DEF ComesNext
  <2>2. At(body, i + 1, 0, c, 0, stk, tp, ip, out) BY <1>8, <2>1
  <2>3. i + 1 \in S BY <2>1, <2>2
  <2>4. i + 1 <= i BY <1>5, <2>3
  <2> QED BY <1>1, <1>6, <2>4
<1>9. PICK m : At(body, i, m, b, x, stk, tp, ip, out) /\ ~(body[i].st = "let" /\ m = 0)
  <2>1. CASE body[i].st = "let" /\ m0 = 0
    <3>1. At(body, i, 0, b, x, stk, tp, ip, out) BY <1>7, <2>1
    <3>2. At(body, i, 1, b, x, stk, tp, ip, out) BY <2>1, <3>1, DeclarationIsPassed
    <3> QED BY <3>2
  <2>2. CASE ~(body[i].st = "let" /\ m0 = 0) BY <1>7, <2>2
  <2> QED BY <2>1, <2>2
<1>10. body[i].st # "open"
  <2>1. ASSUME body[i].st = "open" PROVE FALSE
    <3>1. \E c : ComesNext(body, i, c, stk, ip) /\ tp = c /\ out = Runs(body)[i].out
      BY <1>9, <2>1, PassOpen
    <3> QED BY <1>8, <3>1
  <2> QED BY <2>1
<1>11. CASE body[i].st = "close"
  <2>1. Closing(body, i, x, b, tp, ip) BY <1>9, <1>11 DEF At, InStatement
  <2>2. x \in 0 .. Pops(body, i) BY <2>1 DEF Closing
  <2>3. x # Pops(body, i)
    <3>1. ASSUME x = Pops(body, i) PROVE FALSE
      <4>1. \E c : ComesNext(body, i, c, stk, ip) /\ tp = c /\ out = Runs(body)[i].out
        BY <1>9, <1>11, <3>1, PassClose
      <4> QED BY <1>8, <4>1
    <3> QED BY <3>1
  <2>4. Pops(body, i) \in Nat
    <3>1. Alive(Runs(body)[i - 1]) BY <1>9 DEF At
    <3>2. Pops(body, i) \in 0 .. Len(LocalsOf(body, i - 1)) BY <1>6, <1>11, <3>1, CarryClose
    <3> QED BY <3>2
  <2>5. x \in 0 .. Pops(body, i) - 1 BY <2>2, <2>3, <2>4
  <2>6. Active(body, i, m, x) BY <1>11, <2>5 DEF Active
  <2> QED BY <1>9, <2>6
<1>12. CASE body[i].st # "close"
  <2>1. InStatement(body, i, m, b, stk, tp, ip) BY <1>9, <1>12 DEF At, Closing
  <2>2. m \in 0 .. Width(body, i) BY <2>1 DEF InStatement
  <2>3. m # Width(body, i)
    <3>1. ASSUME m = Width(body, i) PROVE FALSE
      <4>1. \E c : ComesNext(body, i, c, stk, ip) /\ tp = c /\ out = Runs(body)[i].out
        BY <1>9, <1>12, <3>1, PassRested
      <4> QED BY <1>8, <4>1
    <3> QED BY <3>1
  <2>4. Width(body, i) \in Nat BY <1>6, Compilation
  <2>5. m \in 0 .. Width(body, i) - 1 BY <2>2, <2>3, <2>4
  <2>6. Active(body, i, m, x) BY <1>9, <1>10, <1>12, <2>5 DEF Active
  <2> QED BY <1>9, <2>6
<1> QED BY <1>11, <1>12

(* What a step does to the cells of the stack.                             *)
Below(stk, new, n) == \A k \in Nat : k < n => new[k] = stk[k]

LEMMA KeepsBelow ==
  ASSUME NEW body, NEW i, NEW b, NEW stk, Keeps(body, i, b, stk), NEW new, Below(stk, new, b)
  PROVE  Keeps(body, i, b, new)
<1> DEFINE n == Len(LocalsOf(body, i - 1))
<1>1. b \in Nat /\ b >= 1 + n /\ n \in Nat /\ \A l \in 1 .. n : stk[l] = Local(body, i, l) BY DEF Keeps
<1>2. \A l \in 1 .. n : new[l] = stk[l]
  <2> HIDE DEF n
  <2> QED BY <1>1 DEF Below
<1> QED BY <1>1, <1>2 DEF Keeps

(* A value pushed, and two values replaced by one.                         *)
LEMMA FilledPush ==
  ASSUME NEW h, NEW b \in Nat, NEW stk, NEW tp, Filled(h, b, stk, tp), NEW x, x.kind # "void",
         NEW new, Below(stk, new, tp), new[tp] = x
  PROVE  Filled(Append(h, x), b, new, tp + 1)
<1> DEFINE t == Append(h, x)
<1>1. IsList(h) /\ ~HasVoid(h) /\ tp = b + Len(h) /\ \A j \in 1 .. Len(h) : stk[(b + j) - 1] = h[j]
  BY DEF Filled
<1>2. IsList(t) /\ Len(t) = Len(h) + 1 /\ t[Len(h) + 1] = x /\ \A j \in 1 .. Len(h) : t[j] = h[j]
  BY <1>1, ListAppend DEF Within
<1>3. ~HasVoid(t) BY <1>1, VoidAppend
<1>4. Len(h) \in Nat BY <1>1, ListIs
<1> HIDE DEF t
<1>5. ASSUME NEW j \in 1 .. Len(t) PROVE new[(b + j) - 1] = t[j]
  <2>1. CASE j = Len(h) + 1
    <3>1. (b + j) - 1 = tp BY <1>1, <1>4, <2>1
    <3> QED BY <1>2, <2>1, <3>1
  <2>2. CASE j # Len(h) + 1
    <3>1. j \in 1 .. Len(h) BY <1>2, <1>4, <2>2
    <3>2. (b + j) - 1 \in Nat /\ (b + j) - 1 < tp BY <1>1, <1>4, <3>1
    <3> QED BY <1>1, <1>2, <3>1, <3>2 DEF Below
  <2> QED BY <2>1, <2>2
<1>6. tp + 1 = b + Len(t) BY <1>1, <1>2, <1>4
<1> QED BY <1>2, <1>3, <1>5, <1>6 DEF Filled, t

LEMMA FilledReckon ==
  ASSUME NEW h, NEW b \in Nat, NEW stk, NEW tp, Filled(h, b, stk, tp), Len(h) >= 2
  PROVE  /\ Len(h) \in Nat /\ tp \in Nat /\ tp >= 2 /\ tp - 2 \in Nat /\ b <= tp - 2
         /\ stk[tp - 2] = h[Len(h) - 1] /\ stk[tp - 1] = h[Len(h)]
         /\ \A x, new : x.kind # "void" /\ Below(stk, new, tp - 2) /\ new[tp - 2] = x
              => Filled(Append(SubSeq(h, 1, Len(h) - 2), x), b, new, tp - 1)
<1> DEFINE n == Len(h)
           f == SubSeq(h, 1, n - 2)
<1>1. IsList(h) /\ ~HasVoid(h) /\ tp = b + n /\ \A j \in 1 .. n : stk[(b + j) - 1] = h[j] BY DEF Filled
<1>2. n \in Nat BY <1>1, ListIs
<1>3. n >= 2 OBVIOUS
<1>4. IsList(f) /\ Len(f) = n - 2 /\ \A j \in 1 .. n - 2 : f[j] = h[j]
  <2>1. n - 2 \in 0 .. n
    <3> HIDE DEF n
    <3> QED BY <1>2, <1>3
  <2> QED BY <1>1, <2>1, ListIs
<1> HIDE DEF n, f
<1>5. tp \in Nat /\ tp >= 2 /\ tp - 2 \in Nat /\ b <= tp - 2 BY <1>1, <1>2, <1>3
<1>6. stk[tp - 2] = h[n - 1] /\ stk[tp - 1] = h[n]
  <2>1. n - 1 \in 1 .. n /\ n \in 1 .. n /\ (b + (n - 1)) - 1 = tp - 2 /\ (b + n) - 1 = tp - 1
    BY <1>1, <1>2, <1>3
  <2>2. stk[(b + (n - 1)) - 1] = h[n - 1] /\ stk[(b + n) - 1] = h[n] BY <1>1, <2>1
  <2> QED BY <2>1, <2>2
<1>7. ~HasVoid(f)
  <2>1. ASSUME HasVoid(f) PROVE FALSE
    <3>1. PICK j \in 1 .. Len(f) : f[j].kind = "void" BY <2>1 DEF HasVoid
    <3>2. j \in 1 .. n - 2 /\ j \in 1 .. n BY <1>2, <1>3, <1>4, <3>1
    <3>3. h[j].kind = "void" BY <1>4, <3>1, <3>2
    <3> QED BY <1>1, <3>2, <3>3 DEF HasVoid, n
  <2> QED BY <2>1
<1>8. Filled(f, b, stk, tp - 2)
  <2>1. tp - 2 = b + Len(f) BY <1>1, <1>2, <1>4
  <2>2. \A j \in 1 .. Len(f) : stk[(b + j) - 1] = f[j]
    <3> TAKE j \in 1 .. Len(f)
    <3>1. j \in 1 .. n - 2 /\ j \in 1 .. n BY <1>2, <1>3, <1>4
    <3> QED BY <1>1, <1>4, <3>1
  <2> QED BY <1>4, <1>7, <2>1, <2>2 DEF Filled
<1>9. ASSUME NEW x, NEW new, x.kind # "void", Below(stk, new, tp - 2), new[tp - 2] = x
      PROVE  Filled(Append(f, x), b, new, tp - 1)
  <2> DEFINE k == tp - 2
  <2>1. k + 1 = tp - 1 /\ Filled(f, b, stk, k) /\ Below(stk, new, k) /\ new[k] = x BY <1>5, <1>8, <1>9
  <2> HIDE DEF k
  <2>2. Filled(Append(f, x), b, new, k + 1) BY <1>9, <2>1, FilledPush
  <2> QED BY <2>1, <2>2
<1> QED BY <1>2, <1>5, <1>6, <1>9 DEF n, f

(* A run that has ended has the meaning of its lambda.                     *)
LEMMA EndsSo ==
  ASSUME NEW body, Compilable(body), NEW i \in 1 .. Len(body), ~Alive(Runs(body)[i])
  PROVE  MeaningOf(body) = Runs(body)[i]
<1> DEFINE n == Len(body)
           r(j) == Runs(body)[j]
           A == {k \in 0 .. n - i : r(i + k) = r(i)}
<1>1. n \in Nat /\ IsList(body) BY Compilation DEF Compilable, WellFormed
<1>2. \A j \in 1 .. n : ~Alive(r(j - 1)) => r(j) = r(j - 1) BY <1>1, RunNext
<1>3. i \in 1 .. n OBVIOUS
<1>4. ~Alive(r(i)) OBVIOUS
<1> DEFINE d == n - i
<1> HIDE DEF n, r, d
<1>5. d \in Nat /\ i + 0 = i /\ i + d = n BY <1>1, <1>3 DEF d
<1>6. A = {k \in 0 .. d : r(i + k) = r(i)} BY DEF d
<1>7. 0 \in A BY <1>5, <1>6
<1>8. ASSUME NEW k \in 0 .. d - 1, k \in A PROVE k + 1 \in A
  <2>1. i + (k + 1) \in 1 .. n /\ (i + (k + 1)) - 1 = i + k /\ k + 1 \in 0 .. d
    BY <1>1, <1>3, <1>5 DEF d
  <2>2. r(i + k) = r(i) BY <1>8
  <2>3. r(i + (k + 1)) = r(i + k) BY <1>2, <1>4, <2>1, <2>2
  <2> QED BY <1>6, <2>1, <2>2, <2>3
<1>9. 0 .. d \subseteq A
  <2> HIDE DEF A
  <2> QED BY <1>5, <1>7, <1>8, UpTo
<1>10. r(n) = r(i)
  <2>1. d \in A BY <1>5, <1>9
  <2> QED BY <1>5, <1>6, <2>1
<1> QED BY <1>10 DEF MeaningOf, r, n

-------------------------------------------------------------------------------
(* The steps of the machine.                                               *)

(* The machine in the run of a lambda that is the only frame.              *)
InRun(body) ==
  /\ mode = "running" /\ frameSize = 1 /\ cur = 0
  /\ frames[0] = [func |-> Chunk(body), ip |-> frames[0].ip, slots |-> 0, owner |-> "plan"]
Position(body) ==
  \E i, m, b, x : At(body, i, m, b, x, stack, top, frames[0].ip, printed)
Finished(body) ==
  LET r == MeaningOf(body) IN
  /\ mode = "idle" /\ printed = r.out
  /\ outcome = [code |-> IF r.failed THEN "fail" ELSE "success", value |-> r.value]
  /\ ~r.failed => frameSize = 0

(* Which action a step of the machine is.                                  *)
LEMMA StepOf ==
  ASSUME MachineStep
  PROVE  /\ mode = "running"
         /\ Instruction.op = "CONSTANT" => Constant
         /\ Instruction.op \in Arithmetic => Binary
         /\ Instruction.op = "POP" => Pop
         /\ Instruction.op = "GET_LOCAL" => GetLocal
         /\ Instruction.op = "SET_LOCAL" => SetLocal
         /\ Instruction.op = "CALL" => Call
         /\ Instruction.op = "RETURN" => Return
<1> DEFINE o == Instruction.op
<1>1. Constant => mode = "running" /\ o = "CONSTANT" BY DEF Constant, Executing
<1>2. Binary => mode = "running" /\ o \in Arithmetic BY DEF Binary, Executing, Arithmetic
<1>3. Pop => mode = "running" /\ o = "POP" BY DEF Pop, Executing
<1>4. GetLocal => mode = "running" /\ o = "GET_LOCAL" BY DEF GetLocal, Executing
<1>5. SetLocal => mode = "running" /\ o = "SET_LOCAL" BY DEF SetLocal, Executing
<1>6. GetGlobal => mode = "running" /\ o = "GET_GLOBAL" BY DEF GetGlobal, Executing
<1>7. SetGlobal => mode = "running" /\ o = "SET_GLOBAL" BY DEF SetGlobal, Executing
<1>8. Call => mode = "running" /\ o = "CALL" BY DEF Call, Executing
<1>9. Return => mode = "running" /\ o = "RETURN" BY DEF Return, Executing
<1>10. \/ Constant \/ Binary \/ Pop \/ GetLocal \/ SetLocal \/ GetGlobal \/ SetGlobal \/ Call \/ Return
  BY DEF MachineStep
<1> HIDE DEF o
<1> QED BY <1>1, <1>2, <1>3, <1>4, <1>5, <1>6, <1>7, <1>8, <1>9, <1>10 DEF o, Arithmetic

(* The instruction in a run of one frame.                                  *)
LEMMA Fetched ==
  ASSUME NEW body, InRun(body), MachineTypeOK
  PROVE  LET ip == frames[0].ip IN
         /\ ip \in Nat
         /\ ip < Len(Chunk(body).code) => Instruction = Chunk(body).code[ip + 1]
         /\ Constants = Chunk(body).values /\ \A k : Slot(k) = 0 + k
         /\ Ahead[0] = [func |-> Chunk(body), ip |-> ip + 1, slots |-> 0, owner |-> "plan"]
<1> DEFINE f == frames[0]
<1>1. f = [func |-> Chunk(body), ip |-> f.ip, slots |-> 0, owner |-> "plan"] /\ cur = 0 BY DEF InRun
<1>2. 0 \in DOMAIN frames /\ f.ip \in Nat BY MachineAssumption DEF MachineTypeOK
<1>3. f.func = Chunk(body) /\ f.slots = 0 BY <1>1
<1>4. Constants = Chunk(body).values /\ \A k : Slot(k) = 0 + k BY <1>1, <1>3 DEF Constants, Slot
<1>5. f.ip < Len(Chunk(body).code) => Instruction = Chunk(body).code[f.ip + 1]
  BY <1>1, <1>3 DEF Instruction
<1>6. Ahead[0] = [f EXCEPT !.ip = @ + 1] BY <1>1, <1>2 DEF Ahead
<1>7. Ahead[0] = [func |-> Chunk(body), ip |-> f.ip + 1, slots |-> 0, owner |-> "plan"] BY <1>1, <1>6
<1> QED BY <1>2, <1>4, <1>5, <1>7

LEMMA StaysInRun ==
  ASSUME NEW body, InRun(body), MachineTypeOK, NEW cells, NEW n, GoOn(cells, n)
  PROVE  /\ InRun(body)' /\ stack' = cells /\ top' = n /\ frames[0].ip' = frames[0].ip + 1 /\ printed' = printed
         /\ mode' = "running"
<1>1. Ahead[0] = [func |-> Chunk(body), ip |-> frames[0].ip + 1, slots |-> 0, owner |-> "plan"] BY Fetched
<1>2. /\ stack' = cells /\ top' = n /\ frames' = Ahead /\ frameSize' = frameSize /\ cur' = cur
      /\ mode' = mode /\ printed' = printed
  BY DEF GoOn
<1>3. frames'[0] = [func |-> Chunk(body), ip |-> frames[0].ip + 1, slots |-> 0, owner |-> "plan"] BY <1>1, <1>2
<1>4. mode = "running" /\ frameSize = 1 /\ cur = 0 BY DEF InRun
<1> QED BY <1>2, <1>3, <1>4 DEF InRun

(* A cell is written.                                                      *)
LEMMA Written ==
  ASSUME MachineTypeOK, NEW n \in Cell, NEW v
  PROVE  LET new == Put(stack, n, v) IN
         new[n] = v /\ Below(stack, new, n) /\ \A k \in Nat : k # n => new[k] = stack[k]
<1> DEFINE new == Put(stack, n, v)
<1>0. new = [stack EXCEPT ![n] = v] BY DEF Put
<1> HIDE DEF new
<1>1. DOMAIN stack = Cell BY DEF MachineTypeOK
<1>2. new[n] = v BY <1>0, <1>1
<1>3. \A k \in Nat : k # n => new[k] = stack[k]
  <2> TAKE k \in Nat
  <2>1. CASE k \in DOMAIN stack BY <1>0, <2>1
  <2>2. CASE k \notin DOMAIN stack BY <1>0, <2>2
  <2> QED BY <2>1, <2>2
<1>4. n \in Nat BY DEF Cell
<1> QED BY <1>2, <1>3, <1>4 DEF Below, new

(* The instruction a statement is at.                                      *)
LEMMA AtInstruction ==
  ASSUME NEW body, Compilable(body), InRun(body), MachineTypeOK,
         NEW i, NEW m, NEW b, NEW x, At(body, i, m, b, x, stack, top, frames[0].ip, printed), Active(body, i, m, x),
         body[i].st # "close"
  PROVE  /\ i \in 1 .. Len(body) /\ Alive(Runs(body)[i - 1]) /\ printed = Runs(body)[i - 1].out
         /\ Keeps(body, i, b, stack) /\ b \in Nat /\ b >= 1 /\ top \in Nat
         /\ m \in 0 .. Width(body, i) - 1 /\ m + 1 \in 0 .. Width(body, i)
         /\ frames[0].ip = CodeAt(body, i, m) /\ frames[0].ip + 1 = CodeAt(body, i, m + 1)
         /\ frames[0].ip + 1 \in Nat
         /\ Filled(Held(body, i, m), b, stack, top) /\ top <= frames[0].ip + 1
         /\ Turn(body, i, m) /\ Instruction = Ins(body, i, m)
         /\ top < MaxStack /\ top \in Cell
<1> DEFINE ip == frames[0].ip
           h == Held(body, i, m)
<1>1. /\ i \in 1 .. Len(body) /\ Alive(Runs(body)[i - 1]) /\ printed = Runs(body)[i - 1].out
      /\ Keeps(body, i, b, stack) /\ ip \in Nat /\ top <= ip + 1 /\ InStatement(body, i, m, b, stack, top, ip)
  BY DEF At, Closing
<1>2. ip = CodeAt(body, i, m) /\ Filled(h, b, stack, top) BY <1>1 DEF InStatement
<1>3. body[i].st \notin {"open", "close"} /\ m \in 0 .. Width(body, i) - 1 /\ ~(body[i].st = "let" /\ m = 0)
  BY DEF Active
<1>4. IsList(h) /\ ~HasVoid(h) /\ top = b + Len(h) BY <1>2 DEF Filled
<1>5. Advances(body, i, m) /\ Turn(body, i, m) BY <1>1, <1>3, <1>4, Turns
<1>6. Width(body, i) \in Nat BY <1>1, Compilation
<1>7. m + 1 \in 0 .. Width(body, i) BY <1>3, <1>6
<1>8. /\ CodeAt(body, i, m) \in Nat /\ CodeAt(body, i, m) < Len(Chunk(body).code)
      /\ CodeAt(body, i, m + 1) = CodeAt(body, i, m) + 1
  BY <1>5 DEF Advances
<1>9. Instruction = Ins(body, i, m)
  <2>1. ip < Len(Chunk(body).code) BY <1>2, <1>8
  <2>2. Instruction = Chunk(body).code[ip + 1] BY <2>1, Fetched
  <2> QED BY <1>2, <2>2 DEF Ins
<1>10. b \in Nat /\ b >= 1 BY <1>1 DEF Keeps
<1>11. Len(h) \in Nat BY <1>4, ListIs
<1>12. top \in Nat BY <1>4, <1>10, <1>11
<1>13. top < MaxStack
  <2> DEFINE n == Len(Chunk(body).code)
  <2>1. n < MaxStack /\ MaxStack \in Nat BY MachineAssumption DEF Compilable
  <2>2. n \in Nat BY Compilation, ListIs
  <2>3. ip < n /\ top <= ip + 1 BY <1>1, <1>2, <1>8
  <2> HIDE DEF n, ip
  <2> QED BY <1>1, <1>12, <2>1, <2>2, <2>3
<1>14. top \in Cell BY <1>12, <1>13, MachineAssumption DEF Cell
<1> QED BY <1>1, <1>2, <1>3, <1>5, <1>7, <1>8, <1>9, <1>10, <1>12, <1>13, <1>14

(* The next step of a statement.                                           *)
LEMMA AtNext ==
  ASSUME NEW body, NEW i \in 1 .. Len(body), Alive(Runs(body)[i - 1]), body[i].st \notin {"open", "close"},
         NEW m, m + 1 \in 0 .. Width(body, i), m + 1 = Width(body, i) => Rests(body[i]),
         NEW b, NEW x, NEW stk, Keeps(body, i, b, stk), NEW tp, NEW ip \in Nat, tp <= ip + 1,
         ip = CodeAt(body, i, m + 1), Filled(Held(body, i, m + 1), b, stk, tp)
  PROVE  At(body, i, m + 1, b, x, stk, tp, ip, Runs(body)[i - 1].out)
<1>1. InStatement(body, i, m + 1, b, stk, tp, ip) BY DEF InStatement
<1> QED BY <1>1 DEF At

Here(body, i, m, b, x) ==
  /\ Compilable(body) /\ InRun(body) /\ MachineTypeOK
  /\ At(body, i, m, b, x, stack, top, frames[0].ip, printed) /\ Active(body, i, m, x)

(* Each kind of step brings the run to its next instruction.               *)
LEMMA PushGoes ==
  ASSUME NEW body, NEW i, NEW m, NEW b, NEW x, Here(body, i, m, b, x), body[i].st # "close",
         PushTurn(body, i, m), m + 1 = Width(body, i) => Rests(body[i]), MachineStep
  PROVE  InRun(body)' /\ Position(body)'
<1> DEFINE ins == Ins(body, i, m)
           ip == frames[0].ip
<1>1. /\ Compilable(body) /\ InRun(body) /\ MachineTypeOK BY DEF Here
<1>2. /\ i \in 1 .. Len(body) /\ Alive(Runs(body)[i - 1]) /\ printed = Runs(body)[i - 1].out
      /\ Keeps(body, i, b, stack) /\ b \in Nat /\ b >= 1 /\ top \in Nat
      /\ m \in 0 .. Width(body, i) - 1 /\ m + 1 \in 0 .. Width(body, i)
      /\ ip + 1 = CodeAt(body, i, m + 1) /\ ip + 1 \in Nat
      /\ Filled(Held(body, i, m), b, stack, top) /\ top <= ip + 1
      /\ Instruction = ins /\ top < MaxStack /\ top \in Cell
  BY AtInstruction DEF Here
<1>3. PICK v : /\ v.kind # "void" /\ Held(body, i, m + 1) = Append(Held(body, i, m), v)
               /\ \/ /\ ins.op = "CONSTANT" /\ ins.arg \in 0 .. Len(Chunk(body).values) - 1
                     /\ Chunk(body).values[ins.arg + 1] = v
                  \/ /\ ins.op = "GET_LOCAL" /\ ins.arg \in 1 .. Len(AfterStatement(body, i - 1).locals)
                     /\ v = Local(body, i, ins.arg)
  BY DEF PushTurn
<1>4. Constants = Chunk(body).values /\ \A k : Slot(k) = 0 + k BY <1>1, Fetched
<1>5. Push(v)
  <2>1. CASE ins.op = "CONSTANT" /\ ins.arg \in 0 .. Len(Chunk(body).values) - 1 /\ Chunk(body).values[ins.arg + 1] = v
    <3>1. Constant BY <1>2, <2>1, StepOf
    <3>2. IsList(Chunk(body).values) BY <1>1, Compilation
    <3>3. Len(Chunk(body).values) \in Nat BY <3>2, ListIs
    <3>4. HasConstant(ins.arg) BY <1>4, <2>1, <3>3 DEF HasConstant
    <3>5. Constants[ins.arg + 1] = v BY <1>4, <2>1
    <3> QED BY <1>2, <3>1, <3>4, <3>5 DEF Constant
  <2>2. CASE ins.op = "GET_LOCAL" /\ ins.arg \in 1 .. Len(AfterStatement(body, i - 1).locals) /\ v = Local(body, i, ins.arg)
    <3> DEFINE l == ins.arg
    <3>1. GetLocal BY <1>2, <2>2, StepOf
    <3>2. stack[l] = v /\ l < b /\ l \in Nat
      <4> DEFINE n == Len(LocalsOf(body, i - 1))
      <4>1. b >= 1 + n /\ n \in Nat /\ \A k \in 1 .. n : stack[k] = Local(body, i, k) BY <1>2 DEF Keeps
      <4>2. l \in 1 .. n BY <2>2 DEF LocalsOf
      <4> HIDE DEF n, l
      <4>3. stack[l] = Local(body, i, l) BY <4>1, <4>2
      <4> QED BY <1>2, <2>2, <4>1, <4>2, <4>3 DEF l
    <3>3. b <= top
      <4> DEFINE h == Held(body, i, m)
      <4>1. top = b + Len(h) /\ IsList(h) BY <1>2 DEF Filled
      <4>2. Len(h) \in Nat BY <4>1, ListIs
      <4> QED BY <1>2, <4>1, <4>2
    <3>4. Slot(l) = l /\ l \in Cell
      <4> HIDE DEF l
      <4>1. Slot(l) = l BY <1>4, <3>2
      <4>2. l < MaxStack BY <1>2, <3>2, <3>3, MachineAssumption
      <4> QED BY <3>2, <4>1, <4>2, MachineAssumption DEF Cell
    <3> QED BY <1>2, <3>1, <3>2, <3>4 DEF GetLocal
  <2> QED BY <1>3, <2>1, <2>2
<1> DEFINE new == [stack EXCEPT ![top] = v]
<1>6. GoOn(new, top + 1) BY <1>2, <1>5 DEF Push
<1>7. new[top] = v /\ Below(stack, new, top)
  <2>1. MachineTypeOK /\ top \in Cell BY <1>1, <1>2
  <2>2. new = Put(stack, top, v) BY DEF Put
  <2> HIDE DEF new
  <2> QED BY <2>1, <2>2, Written
<1> HIDE DEF new, ip
<1>8. /\ InRun(body)' /\ stack' = new /\ top' = top + 1 /\ frames[0].ip' = ip + 1 /\ printed' = printed
  BY <1>1, <1>6, StaysInRun DEF ip
<1>9. Filled(Held(body, i, m + 1), b, new, top + 1) BY <1>2, <1>3, <1>7, FilledPush
<1>10. Below(stack, new, b)
  <2> DEFINE h == Held(body, i, m)
  <2>1. top = b + Len(h) /\ IsList(h) BY <1>2 DEF Filled
  <2>2. Len(h) \in Nat BY <2>1, ListIs
  <2>3. b <= top BY <1>2, <2>1, <2>2
  <2>4. \A k \in Nat : k < b => k < top BY <1>2, <2>3
  <2> QED BY <1>7, <2>4 DEF Below
<1>11. Keeps(body, i, b, new) BY <1>2, <1>10, KeepsBelow
<1>12. body[i].st \notin {"open", "close"} BY DEF Here, Active
<1>13. top + 1 <= (ip + 1) + 1 BY <1>2
<1> DEFINE k == ip + 1
<1>14. k \in Nat /\ k = CodeAt(body, i, m + 1) /\ top + 1 <= k + 1 BY <1>2, <1>13 DEF ip
<1> HIDE DEF k
<1>15. At(body, i, m + 1, b, x, new, top + 1, k, Runs(body)[i - 1].out)
  BY <1>2, <1>9, <1>11, <1>12, <1>14, AtNext
<1>16. At(body, i, m + 1, b, x, stack', top', frames[0].ip', printed') BY <1>2, <1>8, <1>15 DEF k
<1> QED BY <1>8, <1>16 DEF Position

LEMMA ApplyIs ==
  ASSUME NEW op \in Arithmetic, NEW l, NEW r, Defined(op, l, r)
  PROVE  Apply(op, l, r).kind # "void"
<1>1. \A x : Double(x).kind = "double" /\ Str(x).kind = "str" BY DEF Double, Str
<1> QED BY <1>1 DEF Apply

LEMMA ReckonGoes ==
  ASSUME NEW body, NEW i, NEW m, NEW b, NEW x, Here(body, i, m, b, x), body[i].st # "close",
         ReckonTurn(body, i, m), m + 1 = Width(body, i) => Rests(body[i]), MachineStep
  PROVE  (InRun(body)' /\ Position(body)') \/ Finished(body)'
<1> DEFINE ins == Ins(body, i, m)
           ip == frames[0].ip
           h == Held(body, i, m)
           n == Len(h)
           l == h[n - 1]
           r == h[n]
           op == ins.op
<1>1. /\ Compilable(body) /\ InRun(body) /\ MachineTypeOK BY DEF Here
<1>2. /\ i \in 1 .. Len(body) /\ Alive(Runs(body)[i - 1]) /\ printed = Runs(body)[i - 1].out
      /\ Keeps(body, i, b, stack) /\ b \in Nat /\ b >= 1 /\ top \in Nat
      /\ m \in 0 .. Width(body, i) - 1 /\ m + 1 \in 0 .. Width(body, i)
      /\ ip + 1 = CodeAt(body, i, m + 1) /\ ip + 1 \in Nat
      /\ Filled(h, b, stack, top) /\ top <= ip + 1
      /\ Instruction = ins /\ top < MaxStack /\ top \in Cell
  BY AtInstruction DEF Here
<1>3. /\ op \in Arithmetic /\ n \in Nat /\ n >= 2
      /\ Held(body, i, m + 1) = Append(SubSeq(h, 1, n - 2), Result(op, l, r))
      /\ HasVoid(Held(body, i, m + 1)) => Failing(Runs(body)[i - 1], Runs(body)[i])
  BY DEF ReckonTurn
<1>4. /\ top >= 2 /\ top - 2 \in Nat /\ b <= top - 2 /\ stack[top - 2] = l /\ stack[top - 1] = r
      /\ \A v, new : v.kind # "void" /\ Below(stack, new, top - 2) /\ new[top - 2] = v
              => Filled(Append(SubSeq(h, 1, n - 2), v), b, new, top - 1)
  <2>1. b \in Nat /\ Filled(h, b, stack, top) /\ Len(h) >= 2 BY <1>2, <1>3
  <2> HIDE DEF h
  <2> QED BY <2>1, FilledReckon
<1>5. Binary BY <1>2, <1>3, StepOf
<1> HIDE DEF l, r, h, ip
<1>6. IF Defined(op, l, r) THEN GoOn([stack EXCEPT ![top - 2] = Apply(op, l, r)], top - 1) ELSE Fail
  BY <1>2, <1>4, <1>5 DEF Binary
<1>7. CASE ~Defined(op, l, r)
  <2>1. Fail BY <1>6, <1>7
  <2>2. Result(op, l, r) = Void BY <1>7 DEF Result
  <2>3. HasVoid(Held(body, i, m + 1))
    <3> DEFINE f == SubSeq(h, 1, n - 2)
    <3>1. IsList(h) BY <1>2 DEF Filled
    <3>2. n - 2 \in 0 .. n BY <1>3
    <3>3. IsList(f) BY <3>1, <3>2, ListIs
    <3>4. Held(body, i, m + 1) = Append(f, Void) BY <1>3, <2>2
    <3> HIDE DEF f
    <3> DEFINE t == Append(f, Void)
    <3>5. Len(t) = Len(f) + 1 /\ t[Len(f) + 1] = Void /\ Len(f) \in Nat BY <3>3, ListAppend, ListIs
    <3> HIDE DEF t
    <3>6. Len(f) + 1 \in 1 .. Len(t) /\ t[Len(f) + 1].kind = "void" BY <3>5 DEF Void
    <3>7. HasVoid(t) BY <3>6 DEF HasVoid
    <3> QED BY <3>4, <3>7 DEF t
  <2>4. Failing(Runs(body)[i - 1], Runs(body)[i]) BY <1>3, <2>3
  <2> DEFINE t == Runs(body)[i]
  <2>5. t.failed /\ t.out = printed /\ t.value = Void
    <3>1. Runs(body)[i - 1].value = Void BY <1>1, <1>2, RunsFrom
    <3> QED BY <1>2, <2>4, <3>1 DEF Failing
  <2>6. MeaningOf(body) = t
    <3>1. ~Alive(t) BY <2>5 DEF Alive
    <3> QED BY <1>1, <1>2, <3>1, EndsSo
  <2>7. mode' = "idle" /\ outcome' = [code |-> "fail", value |-> Void] /\ printed' = printed
    BY <2>1 DEF Fail, FailAfter
  <2> HIDE DEF t
  <2>8. Finished(body)' BY <2>5, <2>6, <2>7 DEF Finished
  <2> QED BY <2>8
<1>8. CASE Defined(op, l, r)
  <2> DEFINE v == Apply(op, l, r)
             k == top - 2
             new == [stack EXCEPT ![k] = v]
             q == ip + 1
  <2>1. GoOn(new, top - 1) BY <1>6, <1>8
  <2>2. v.kind # "void" BY <1>3, <1>8, ApplyIs
  <2>3. Held(body, i, m + 1) = Append(SubSeq(h, 1, n - 2), v) BY <1>3, <1>8 DEF Result
  <2>4. k \in Cell /\ k \in Nat /\ b <= k BY <1>2, <1>4, MachineAssumption DEF Cell
  <2> HIDE DEF v, k
  <2>5. new[k] = v /\ Below(stack, new, k)
    <3>1. new = Put(stack, k, v) BY DEF Put
    <3> HIDE DEF new
    <3> QED BY <1>1, <2>4, <3>1, Written
  <2> HIDE DEF new
  <2>6. Filled(Held(body, i, m + 1), b, new, top - 1) BY <1>4, <2>2, <2>3, <2>5 DEF k
  <2>7. /\ InRun(body)' /\ stack' = new /\ top' = top - 1 /\ frames[0].ip' = ip + 1 /\ printed' = printed
    BY <1>1, <2>1, StaysInRun DEF ip
  <2>8. Below(stack, new, b) BY <1>2, <2>4, <2>5 DEF Below
  <2>9. Keeps(body, i, b, new) BY <1>2, <2>8, KeepsBelow
  <2>10. body[i].st \notin {"open", "close"} BY DEF Here, Active
  <2>11. q \in Nat /\ q = CodeAt(body, i, m + 1) /\ top - 1 <= q + 1 BY <1>2 DEF ip
  <2> HIDE DEF q
  <2>12. At(body, i, m + 1, b, x, new, top - 1, q, Runs(body)[i - 1].out)
    BY <1>2, <2>6, <2>9, <2>10, <2>11, AtNext
  <2>13. At(body, i, m + 1, b, x, stack', top', frames[0].ip', printed') BY <1>2, <2>7, <2>12 DEF q
  <2> QED BY <2>7, <2>13 DEF Position
<1> QED BY <1>7, <1>8

(* The next statement, after the last step of one.                         *)
LEMMA StepsOn ==
  ASSUME NEW body, Compilable(body), NEW i \in 1 .. Len(body), Alive(Runs(body)[i - 1]), Alive(Runs(body)[i]),
         body[i].st \in {"expr", "assign"}, NEW m, m + 1 = Width(body, i),
         NEW b \in Nat, NEW stk, NEW ip, ip = CodeAt(body, i, m + 1), b <= ip + 1,
         NEW n, n = Len(LocalsOf(body, i)), n \in Nat, b >= 1 + n,
         \A l \in 1 .. n : stk[l] = Local(body, i + 1, l)
  PROVE  \E k, q, c, x : At(body, k, q, c, x, stk, b, ip, Runs(body)[i].out)
<1>1. CompilerIn(body, i, Width(body, i)) = AfterStatement(body, i) BY Compilation
<1>2. ip = Len(AfterStatement(body, i).code) BY <1>1 DEF CodeAt
<1>3. body[i].st # "return" /\ ~(body[i].st \in {"let", "open", "close"}) OBVIOUS
<1>4. ComesNext(body, i, b, stk, ip) BY <1>2, <1>3, NextComes
<1> QED BY <1>4 DEF ComesNext

LEMMA LocalsCounted ==
  ASSUME NEW body, Compilable(body), NEW i \in 1 .. Len(body), Alive(Runs(body)[i - 1]),
         NEW b, NEW stk, Keeps(body, i, b, stk)
  PROVE  /\ Len(LocalsOf(body, i - 1)) \in Nat /\ b \in Nat /\ b >= 1 + Len(LocalsOf(body, i - 1))
         /\ \A l \in 1 .. Len(LocalsOf(body, i - 1)) : stk[l] = Local(body, i, l)
BY DEF Keeps

LEMMA CallGoes ==
  ASSUME NEW body, NEW i, NEW m, NEW b, NEW x, Here(body, i, m, b, x), body[i].st # "close",
         CallTurn(body, i, m), MachineStep
  PROVE  InRun(body)' /\ Position(body)'
<1> DEFINE ins == Ins(body, i, m)
           ip == frames[0].ip
           h == Held(body, i, m)
           n == ins.arg
           r == Runs(body)[i - 1]
           t == Runs(body)[i]
           k == Len(LocalsOf(body, i))
           args == [j \in 1 .. n |-> h[1 + j]]
<1>1. /\ Compilable(body) /\ InRun(body) /\ MachineTypeOK BY DEF Here
<1>2. /\ i \in 1 .. Len(body) /\ Alive(r) /\ printed = r.out
      /\ Keeps(body, i, b, stack) /\ b \in Nat /\ b >= 1 /\ top \in Nat
      /\ m \in 0 .. Width(body, i) - 1 /\ m + 1 \in 0 .. Width(body, i)
      /\ ip + 1 = CodeAt(body, i, m + 1) /\ ip + 1 \in Nat
      /\ Filled(h, b, stack, top) /\ top <= ip + 1
      /\ Instruction = ins /\ top < MaxStack /\ top \in Cell
  BY AtInstruction DEF Here
<1>3. /\ body[i].st = "expr" /\ ins.op = "CALL" /\ n \in Nat /\ Len(h) = 1 + n /\ m + 1 = Width(body, i)
      /\ Alive(t) /\ t.env = r.env
      /\ \/ h[1] = Native("clock") /\ t.out = r.out
         \/ h[1] = Native("console.info") /\ t.out = r.out \o args
  BY DEF CallTurn
<1>4. ~HasVoid(h) /\ top = b + Len(h) /\ \A j \in 1 .. Len(h) : stack[(b + j) - 1] = h[j]
  BY <1>2 DEF Filled
<1>5. k \in Nat /\ b >= 1 + k /\ \A l \in 1 .. k : stack[l] = Local(body, i + 1, l)
  <2>1. LocalsOf(body, i) = LocalsOf(body, i - 1) /\ Carries(body, i, k)
    <3>1. body[i].st \notin {"let", "open", "close"} BY <1>3
    <3> QED BY <1>1, <1>2, <1>3, <3>1, CarrySame
  <2>2. /\ k \in Nat /\ b >= 1 + k /\ \A l \in 1 .. k : stack[l] = Local(body, i, l)
    BY <1>1, <1>2, <2>1, LocalsCounted
  <2> QED BY <2>1, <2>2 DEF Carries
<1> HIDE DEF k, h, n, r, t, args
<1>6. Callee = b /\ ~(Callee < 0)
  <2>1. Callee = (top - n) - 1 BY <1>2 DEF Callee, n
  <2> HIDE DEF ip
  <2>2. (top - n) - 1 = b
    <3>1. n \in Nat /\ Len(h) = 1 + n BY <1>3
    <3>2. top = b + Len(h) /\ b \in Nat BY <1>2, <1>4
    <3> QED BY <3>1, <3>2
  <2> QED BY <1>2, <2>1, <2>2
<1>7. stack[b] = h[1] /\ \A j \in 1 .. n : stack[b + j] = h[1 + j] /\ h[1 + j].kind # "void"
  <2>1. 1 \in 1 .. Len(h) /\ (b + 1) - 1 = b BY <1>2, <1>3
  <2>2. stack[b] = h[1] BY <1>4, <2>1
  <2>3. ASSUME NEW j \in 1 .. n PROVE stack[b + j] = h[1 + j] /\ h[1 + j].kind # "void"
    <3>1. 1 + j \in 1 .. Len(h) /\ (b + (1 + j)) - 1 = b + j BY <1>2, <1>3
    <3> QED BY <1>4, <3>1 DEF HasVoid
  <2> QED BY <2>2, <2>3
<1>8. Call BY <1>2, <1>3, StepOf
<1>9. CallClock \/ CallPrint \/ CallFunction \/ CallOther BY <1>6, <1>8 DEF Call
<1>10. h[1].kind = "native" BY <1>3 DEF Native
<1>11. ~CallFunction /\ ~CallOther BY <1>6, <1>7, <1>10 DEF CallFunction, CallOther, Kinds
<1>12. b \in Cell
  <2> HIDE DEF ip
  <2>1. b < MaxStack BY <1>2, <1>3, <1>4, MachineAssumption
  <2> QED BY <1>2, <2>1, MachineAssumption DEF Cell
<1> DEFINE q == ip + 1
<1>13. ASSUME NEW v, NEW d, GoOn(Put(stack, b, v), d), d = b \/ d = b + 1, t.out = r.out
       PROVE  InRun(body)' /\ Position(body)'
  <2> DEFINE new == Put(stack, b, v)
  <2>1. \A l \in Nat : l # b => new[l] = stack[l] BY <1>1, <1>12, Written
  <2>2. /\ InRun(body)' /\ stack' = new /\ top' = d /\ frames[0].ip' = q /\ printed' = printed
    <3> HIDE DEF new
    <3>1. GoOn(new, d) BY <1>13 DEF new
    <3> QED BY <1>1, <3>1, StaysInRun
  <2> HIDE DEF new
  <2>3. \A l \in 1 .. k : new[l] = Local(body, i + 1, l)
    <3> TAKE l \in 1 .. k
    <3>1. l \in Nat /\ l # b BY <1>2, <1>5
    <3> QED BY <1>5, <2>1, <3>1
  <2> DEFINE e == ip + 1
  <2>4. d \in Nat /\ d >= 1 + k /\ e = CodeAt(body, i, m + 1)
    BY <1>2, <1>5, <1>13
  <2>5. d <= e + 1
    <3>1. d <= b + 1 BY <1>2, <1>13
    <3>2. b + 1 <= top BY <1>2, <1>3, <1>4
    <3>3. top <= e /\ e \in Nat BY <1>2
    <3> HIDE DEF e, ip
    <3> QED BY <1>2, <2>4, <3>1, <3>2, <3>3
  <2> HIDE DEF e
  <2>6. \E j, p, c, y : At(body, j, p, c, y, new, d, e, t.out)
    BY <1>1, <1>2, <1>3, <1>5, <2>3, <2>4, <2>5, StepsOn DEF k, r, t
  <2>7. stack' = new /\ top' = d /\ frames[0].ip' = e /\ printed' = t.out BY <1>2, <1>13, <2>2 DEF e
  <2>8. Position(body)' BY <2>6, <2>7 DEF Position
  <2> QED BY <2>2, <2>8
<1>14. ASSUME h[1] = Native("clock"), t.out = r.out PROVE InRun(body)' /\ Position(body)'
  <2>1. ~CallPrint BY <1>6, <1>7, <1>14 DEF CallPrint, Native
  <2>2. CallClock BY <1>9, <1>11, <2>1
  <2>3. GoOn(Put(stack, b, Double(Clock)), b + 1) BY <1>6, <2>2 DEF CallClock, Put
  <2> QED BY <1>13, <1>14, <2>3
<1>15. ASSUME h[1] = Native("console.info"), t.out = r.out \o args PROVE InRun(body)' /\ Position(body)'
  <2>1. ~CallClock BY <1>6, <1>7, <1>15 DEF CallClock, Native
  <2>2. CallPrint BY <1>9, <1>11, <2>1
  <2>3. Arguments = args BY <1>2, <1>6, <1>7 DEF Arguments, args, n
  <2>4. ~\E j \in DOMAIN Arguments : Arguments[j].kind = "void" BY <1>7, <2>3 DEF args
  <2>5. PICK empty \in BOOLEAN :
            /\ stack' = IF empty THEN stack ELSE [stack EXCEPT ![Callee] = Void]
            /\ top' = IF empty THEN Callee ELSE Callee + 1
            /\ printed' = printed \o Arguments /\ frames' = Ahead
            /\ UNCHANGED <<frameSize, cur, globals, mode, outcome, fails, opened>>
    BY <2>2, <2>4 DEF CallPrint
  <2> DEFINE new == IF empty THEN stack ELSE Put(stack, b, Void)
             d == IF empty THEN b ELSE b + 1
             e == ip + 1
  <2>6. stack' = new /\ top' = d BY <1>6, <2>5 DEF Put
  <2>7. printed' = t.out BY <1>2, <1>15, <2>3, <2>5
  <2>8. Ahead[0] = [func |-> Chunk(body), ip |-> e, slots |-> 0, owner |-> "plan"] BY <1>1, Fetched
  <2>9. frames[0].ip' = e /\ InRun(body)'
    <3> HIDE DEF e
    <3>1. frames'[0] = [func |-> Chunk(body), ip |-> e, slots |-> 0, owner |-> "plan"] BY <2>5, <2>8
    <3>2. mode = "running" /\ frameSize = 1 /\ cur = 0 BY <1>1 DEF InRun
    <3> QED BY <2>5, <3>1, <3>2 DEF InRun
  <2>10. \A l \in Nat : l # b => new[l] = stack[l]
    <3>1. \A l \in Nat : l # b => Put(stack, b, Void)[l] = stack[l] BY <1>1, <1>12, Written
    <3> QED BY <3>1
  <2> HIDE DEF new, d
  <2>11. \A l \in 1 .. k : new[l] = Local(body, i + 1, l)
    <3> TAKE l \in 1 .. k
    <3>1. l \in Nat /\ l # b BY <1>2, <1>5
    <3> QED BY <1>5, <2>10, <3>1
  <2>12. d \in Nat /\ d >= 1 + k /\ e = CodeAt(body, i, m + 1) /\ d <= b + 1
    BY <1>2, <1>5 DEF d
  <2>13. d <= e + 1
    <3>2. b + 1 <= top BY <1>2, <1>3, <1>4
    <3>3. top <= e /\ e \in Nat BY <1>2
    <3> HIDE DEF e, ip
    <3> QED BY <1>2, <2>12, <3>2, <3>3
  <2> HIDE DEF e
  <2>14. \E j, p, c, y : At(body, j, p, c, y, new, d, e, t.out)
    BY <1>1, <1>2, <1>3, <1>5, <2>11, <2>12, <2>13, StepsOn DEF k, r, t
  <2>15. Position(body)' BY <2>6, <2>7, <2>9, <2>14 DEF Position
  <2> QED BY <2>9, <2>15
<1> QED BY <1>3, <1>14, <1>15

LEMMA SetGoes ==
  ASSUME NEW body, NEW i, NEW m, NEW b, NEW x, Here(body, i, m, b, x), body[i].st # "close",
         SetTurn(body, i, m), MachineStep
  PROVE  InRun(body)' /\ Position(body)'
<1> DEFINE ins == Ins(body, i, m)
           ip == frames[0].ip
           h == Held(body, i, m)
           l == ins.arg
           r == Runs(body)[i - 1]
           t == Runs(body)[i]
           k == Len(LocalsOf(body, i))
           n == Len(LocalsOf(body, i - 1))
           v == h[2]
           e == ip + 1
<1>1. /\ Compilable(body) /\ InRun(body) /\ MachineTypeOK BY DEF Here
<1>2. /\ i \in 1 .. Len(body) /\ Alive(r) /\ printed = r.out
      /\ Keeps(body, i, b, stack) /\ b \in Nat /\ b >= 1 /\ top \in Nat
      /\ m \in 0 .. Width(body, i) - 1 /\ m + 1 \in 0 .. Width(body, i)
      /\ e = CodeAt(body, i, m + 1) /\ e \in Nat
      /\ Filled(h, b, stack, top) /\ top <= e
      /\ Instruction = ins /\ top < MaxStack /\ top \in Cell
  BY AtInstruction DEF Here
<1>3. /\ body[i].st = "assign" /\ ins.op = "SET_LOCAL" /\ l \in 1 .. n /\ m + 1 = Width(body, i)
      /\ Len(h) = 2 /\ Alive(t) /\ t.out = r.out
      /\ t.env = Bind(r.env, LocalsOf(body, i - 1)[l].depth, LocalsOf(body, i - 1)[l].name, v)
  BY DEF SetTurn, LocalsOf
<1>4. top = b + 2 /\ stack[top - 1] = v
  <2>1. top = b + Len(h) /\ \A j \in 1 .. Len(h) : stack[(b + j) - 1] = h[j] BY <1>2 DEF Filled
  <2>2. Len(h) = 2 BY <1>3
  <2> HIDE DEF h, e
  <2>3. 2 \in 1 .. Len(h) /\ (b + 2) - 1 = top - 1 BY <1>2, <2>1, <2>2
  <2>4. stack[(b + 2) - 1] = h[2] BY <2>1, <2>3
  <2> QED BY <2>1, <2>2, <2>3, <2>4
<1>5. n \in Nat /\ b >= 1 + n /\ \A j \in 1 .. n : stack[j] = Local(body, i, j)
  BY <1>1, <1>2, LocalsCounted
<1> HIDE DEF v
<1>6. k = n /\ \A j \in 1 .. n : Local(body, i + 1, j) = IF j = l THEN v ELSE Local(body, i, j)
  <2> HIDE DEF l
  <2>1. /\ LocalsOf(body, i) = LocalsOf(body, i - 1)
        /\ \A j \in 1 .. Len(LocalsOf(body, i)) :
              Local(body, i + 1, j) = IF j = l THEN v ELSE Local(body, i, j)
    <3>1. Assigns(body, i, l, v) BY <1>3 DEF Assigns
    <3>2. i \in 1 .. Len(body) /\ Alive(Runs(body)[i - 1]) /\ body[i].st = "assign" BY <1>2, <1>3
    <3>3. Replaces(body, i, l, v) BY <1>1, <3>1, <3>2, CarryAssign
    <3> QED BY <3>3 DEF Replaces
  <2> QED BY <2>1
<1> HIDE DEF h, r, t, k, n
<1>7. SetLocal BY <1>2, <1>3, StepOf
<1>8. Slot(l) = l /\ l \in Cell /\ l \in Nat
  <2> HIDE DEF l, e
  <2>1. l \in Nat /\ l < MaxStack BY <1>2, <1>3, <1>4, <1>5, MachineAssumption
  <2>2. \A j : Slot(j) = 0 + j BY <1>1, Fetched
  <2>3. Slot(l) = l BY <2>1, <2>2
  <2> QED BY <2>1, <2>3, MachineAssumption DEF Cell
<1> DEFINE new == Put(stack, l, v)
<1>9. GoOn(new, top)
  <2>1. GoOn([stack EXCEPT ![l] = stack[top - 1]], top)
    <3> HIDE DEF e
    <3>1. top > 0 BY <1>2, <1>4
    <3> QED BY <1>2, <1>7, <1>8, <3>1 DEF SetLocal
  <2> QED BY <1>4, <2>1 DEF Put
<1>10. new[l] = v /\ \A j \in Nat : j # l => new[j] = stack[j] BY <1>1, <1>8, Written
<1> HIDE DEF new
<1>11. /\ InRun(body)' /\ stack' = new /\ top' = top /\ frames[0].ip' = e /\ printed' = printed
  BY <1>1, <1>9, StaysInRun
<1> HIDE DEF e, l
<1>12. \A j \in 1 .. k : new[j] = Local(body, i + 1, j)
  <2> TAKE j \in 1 .. k
  <2>1. j \in 1 .. n /\ j \in Nat BY <1>5, <1>6
  <2> QED BY <1>5, <1>6, <1>10, <2>1
<1>13. k \in Nat /\ top >= 1 + k /\ top <= e + 1 BY <1>2, <1>4, <1>5, <1>6
<1>14. \E j, p, c, y : At(body, j, p, c, y, new, top, e, t.out)
  <2> DEFINE d == top
  <2>1. d \in Nat /\ d >= 1 + k /\ d <= e + 1 BY <1>2, <1>13
  <2> HIDE DEF d
  <2>2. \E j, p, c, y : At(body, j, p, c, y, new, d, e, t.out)
    BY <1>1, <1>2, <1>3, <1>12, <1>13, <2>1, StepsOn DEF k, r, t
  <2> QED BY <2>2 DEF d
<1>15. stack' = new /\ top' = top /\ frames[0].ip' = e /\ printed' = t.out BY <1>2, <1>3, <1>11
<1>16. Position(body)' BY <1>14, <1>15 DEF Position
<1> QED BY <1>11, <1>16

LEMMA ReturnGoes ==
  ASSUME NEW body, NEW i, NEW m, NEW b, NEW x, Here(body, i, m, b, x), body[i].st # "close",
         ReturnTurn(body, i, m), MachineStep
  PROVE  Finished(body)'
<1> DEFINE ins == Ins(body, i, m)
           h == Held(body, i, m)
           r == Runs(body)[i - 1]
           t == Runs(body)[i]
<1>1. /\ Compilable(body) /\ InRun(body) /\ MachineTypeOK BY DEF Here
<1>2. /\ i \in 1 .. Len(body) /\ Alive(r) /\ printed = r.out /\ b \in Nat /\ b >= 1 /\ top \in Nat
      /\ Filled(h, b, stack, top) /\ Instruction = ins
  BY AtInstruction DEF Here
<1>3. ins.op = "RETURN" /\ Len(h) = 1 /\ t.ended /\ ~t.failed /\ t.value = h[1] /\ t.out = r.out
  BY DEF ReturnTurn
<1>4. top = b + 1 /\ stack[top - 1] = h[1]
  <2>1. top = b + Len(h) /\ \A j \in 1 .. Len(h) : stack[(b + j) - 1] = h[j] BY <1>2 DEF Filled
  <2>2. Len(h) = 1 BY <1>3
  <2> HIDE DEF h
  <2>3. 1 \in 1 .. Len(h) /\ (b + 1) - 1 = top - 1 BY <1>2, <2>1, <2>2
  <2>4. stack[(b + 1) - 1] = h[1] BY <2>1, <2>3
  <2> QED BY <2>1, <2>2, <2>3, <2>4
<1>5. MeaningOf(body) = t
  <2>1. ~Alive(t) BY <1>3 DEF Alive
  <2> QED BY <1>1, <1>2, <2>1, EndsSo
<1>6. Return BY <1>2, <1>3, StepOf
<1>7. top # 0 /\ frameSize = 1 /\ ~Dangling BY <1>1, <1>2, <1>4 DEF InRun, Dangling
<1> HIDE DEF t, r, h
<1>8. mode' = "idle" /\ outcome' = [code |-> "success", value |-> h[1]] /\ frameSize' = 1 - 1 /\ printed' = printed
  BY <1>4, <1>6, <1>7 DEF Return
<1> QED BY <1>2, <1>3, <1>5, <1>8 DEF Finished

LEMMA PopGoes ==
  ASSUME NEW body, NEW i, NEW m, NEW b, NEW x, Here(body, i, m, b, x), body[i].st = "close", MachineStep
  PROVE  InRun(body)' /\ Position(body)'
<1> DEFINE r == Runs(body)[i - 1]
           p == Pops(body, i)
           n == Len(LocalsOf(body, i - 1))
           c == Len(AfterStatement(body, i - 1).code)
           code == Chunk(body).code
           ip == frames[0].ip
<1>1. /\ Compilable(body) /\ InRun(body) /\ MachineTypeOK BY DEF Here
<1>2. /\ i \in 1 .. Len(body) /\ Alive(r) /\ printed = r.out
      /\ Keeps(body, i, b, stack) /\ ip \in Nat /\ top <= ip + 1 /\ Closing(body, i, x, b, top, ip)
  BY DEF Here, At, InStatement
<1>3. x \in 0 .. p - 1 BY DEF Here, Active
<1>4. /\ p \in 0 .. n /\ n \in Nat /\ c \in Nat /\ Len(AfterStatement(body, i).code) = c + p
      /\ Len(AfterStatement(body, i).code) <= Len(code)
      /\ \A j \in 1 .. p : code[c + j].op = "POP"
  BY <1>1, <1>2, CarryClose
<1>5. CodeAt(body, i, 0) = c
  <2>1. CompilerIn(body, i, 0) = AfterStatement(body, i - 1) BY <1>1, <1>2, Compilation
  <2> QED BY <2>1 DEF CodeAt
<1>6. ip = c + x /\ top = b - x BY <1>2, <1>5 DEF Closing
<1>7. b \in Nat /\ b >= 1 + n BY <1>2 DEF Keeps
<1>8. Len(code) \in Nat BY <1>1, Compilation, ListIs
<1>9. Instruction = code[ip + 1] /\ code[ip + 1].op = "POP"
  <2>1. ip < Len(code)
    <3> HIDE DEF p, c, code, ip, n
    <3> QED BY <1>3, <1>4, <1>6, <1>8
  <2>2. x + 1 \in 1 .. p /\ c + (x + 1) = ip + 1
    <3> HIDE DEF p, c, code, ip, n
    <3> QED BY <1>3, <1>4, <1>6
  <2>3. Instruction = code[ip + 1] BY <1>1, <2>1, Fetched
  <2>4. code[c + (x + 1)].op = "POP" BY <1>4, <2>2
  <2> QED BY <2>2, <2>3, <2>4
<1>10. Pop BY <1>9, StepOf
<1> DEFINE e == ip + 1
           d == top - 1
<1>11. top > 0 /\ d = b - (x + 1) /\ e = c + (x + 1) /\ x + 1 \in 0 .. p /\ d <= e + 1 /\ e \in Nat
  <2> HIDE DEF p, c, code, ip, n
  <2>1. p \in 0 .. n /\ n \in Nat /\ c \in Nat BY <1>4
  <2>2. x \in 0 .. p - 1 BY <1>3
  <2>3. ip \in Nat /\ top <= ip + 1 BY <1>2
  <2>4. x \in Nat /\ x + 1 \in 0 .. p /\ x + 1 <= n BY <2>1, <2>2
  <2>5. top > 0 BY <1>6, <1>7, <2>1, <2>4
  <2>6. d = b - (x + 1) BY <1>6, <1>7, <2>4
  <2>7. e = c + (x + 1) BY <1>6, <2>1, <2>4
  <2>8. top \in Int BY <1>6, <1>7, <2>4
  <2>9. d <= e + 1 /\ e \in Nat BY <2>3, <2>8
  <2> QED BY <2>4, <2>5, <2>6, <2>7, <2>9
<1>12. GoOn(stack, d) BY <1>10, <1>11 DEF Pop
<1>13. /\ InRun(body)' /\ stack' = stack /\ top' = d /\ frames[0].ip' = e /\ printed' = printed
  <2> HIDE DEF d
  <2> DEFINE s == stack
  <2>1. GoOn(s, d) BY <1>12
  <2> HIDE DEF s
  <2>2. /\ InRun(body)' /\ stack' = s /\ top' = d /\ frames[0].ip' = e /\ printed' = printed
    BY <1>1, <2>1, StaysInRun
  <2> QED BY <2>2 DEF s
<1> HIDE DEF d, e, c, p
<1>14. Closing(body, i, x + 1, b, d, e) BY <1>5, <1>11 DEF Closing, p
<1>15. At(body, i, m, b, x + 1, stack, d, e, printed) BY <1>2, <1>11, <1>14 DEF At
<1>16. Position(body)' BY <1>13, <1>15 DEF Position
<1> QED BY <1>13, <1>16

(* A step of the machine goes on in the lambda or finishes it as meant.    *)
LEMMA MachineGoes ==
  ASSUME NEW body, Compilable(body), InRun(body), MachineTypeOK, Position(body), MachineStep
  PROVE  (InRun(body)' /\ Position(body)') \/ Finished(body)'
<1> DEFINE ip == frames[0].ip
<1>1. \E i, m, b, x : At(body, i, m, b, x, stack, top, ip, printed) BY DEF Position
<1>2. PICK i, m, b, x : At(body, i, m, b, x, stack, top, ip, printed) /\ Active(body, i, m, x)
  BY <1>1, Poised
<1>3. Here(body, i, m, b, x) BY <1>2 DEF Here
<1>4. CASE body[i].st = "close" BY <1>3, <1>4, PopGoes
<1>5. CASE body[i].st # "close"
  <2>1. Turn(body, i, m) BY <1>2, <1>5, AtInstruction
  <2>2. CASE PushTurn(body, i, m) /\ (m + 1 = Width(body, i) => Rests(body[i]))
    BY <1>3, <1>5, <2>2, PushGoes
  <2>3. CASE ReckonTurn(body, i, m) /\ (m + 1 = Width(body, i) => Rests(body[i]))
    BY <1>3, <1>5, <2>3, ReckonGoes
  <2>4. CASE CallTurn(body, i, m) BY <1>3, <1>5, <2>4, CallGoes
  <2>5. CASE SetTurn(body, i, m) BY <1>3, <1>5, <2>5, SetGoes
  <2>6. CASE ReturnTurn(body, i, m) BY <1>3, <1>5, <2>6, ReturnGoes
  <2> QED BY <2>1, <2>2, <2>3, <2>4, <2>5, <2>6 DEF Turn
<1> QED BY <1>4, <1>5

-------------------------------------------------------------------------------
(* The lambdas of a session.                                               *)

LEMMA QueryCompiles ==
  ASSUME NEW q \in First \cup Later, q.source # <<>>, ~q.script.err, Tidy(q)
  PROVE  Compilable(q.source) /\ q.script.chunk = Chunk(q.source)
<1> DEFINE body == q.source
<1>1. IsBody(body) /\ q.script = Lambda(body) /\ Len(q.script.chunk.code) < MaxStack
  BY SourceAssumption, StackAssumption
<1>2. q.script.chunk = Chunk(body) /\ ~Lambda(body).err /\ Len(Chunk(body).values) <= Bytes
      /\ Len(Chunk(body).code) < MaxStack
  BY <1>1 DEF Tidy, Chunk
<1>3. body \in Seq(ToSet(body)) /\ body # <<>> BY <1>1 DEF IsBody
<1>4. IsList(body) /\ DOMAIN body = 1 .. Len(body) /\ Len(body) > 0
  <2> HIDE DEF body
  <2>1. DOMAIN body = 1 .. Len(body) /\ Len(body) > 0 BY <1>3
  <2> QED BY <1>3, <2>1 DEF IsList
<1>5. \A i \in 1 .. Len(body) : IsStatement(body[i]) BY <1>1, <1>4 DEF IsBody, IsStatement
<1>6. IsTidy(body) BY <1>1, <1>4 DEF IsTidy, IsBody, Tidy
<1> QED BY <1>2, <1>4, <1>5, <1>6 DEF Compilable, WellFormed

(* The run of a lambda begins.                                             *)
LEMMA RunBegins ==
  ASSUME NEW body, Compilable(body), MachineTypeOK, frameSize = 0, Interpret(Chunk(body))
  PROVE  InRun(body)' /\ Position(body)'
<1> DEFINE c == AfterStatement(body, 0)
           b == 1
           s == [stack EXCEPT ![0] = Function(Chunk(body))]
<1>1. frameSize # MaxFrame /\ 0 \in DOMAIN frames BY MachineAssumption DEF MachineTypeOK
<1>2. /\ frames' = [frames EXCEPT ![0] = Frame(Chunk(body), 0, "plan")] /\ frameSize' = 0 + 1 /\ cur' = 0
      /\ mode' = "running" /\ printed' = <<>> /\ stack' = s /\ top' = 1
  BY <1>1 DEF Interpret
<1>3. frames'[0] = [func |-> Chunk(body), ip |-> 0, slots |-> 0, owner |-> "plan"] BY <1>1, <1>2 DEF Frame
<1>4. frames'[0].ip = 0 BY <1>3
<1>5. InRun(body)' BY <1>2, <1>3, <1>4 DEF InRun
<1> HIDE DEF s
<1>6. c = Do(NewCompiler, [do |-> "open"]) /\ Len(body) \in Nat BY Compilation
<1>7. c.locals = <<>> /\ c.code = <<>>
  <2> DEFINE d == [do |-> "open"]
  <2>1. d.do = "open" /\ ~NewCompiler.err /\ NewCompiler.locals = <<>> /\ NewCompiler.code = <<>>
    BY DEF NewCompiler
  <2>2. c = Do(NewCompiler, d) BY <1>6
  <2> HIDE DEF c, d
  <2>3. c.locals = NewCompiler.locals /\ c.code = NewCompiler.code BY <2>1, <2>2, NewIsCompiler, Opened
  <2> QED BY <2>1, <2>3
<1>8. Len(c.locals) = 0 /\ Len(c.code) = 0 BY <1>7, EmptyList
<1>9. Runs(body)[0] = Nothing BY LinkedFirst
<1>10. Alive(Runs(body)[0]) /\ Runs(body)[0].out = <<>> BY <1>9 DEF Alive, Nothing
<1> DEFINE i == 1
<1>11. i \in 1 .. Len(body) /\ i - 1 = 0
  <2>1. Len(body) > 0 BY DEF Compilable
  <2> QED BY <1>6, <2>1
<1> HIDE DEF i, c
<1>12. Keeps(body, i, b, s)
  <2>1. LocalsOf(body, i - 1) = c.locals BY <1>11 DEF LocalsOf, c
  <2>2. Len(LocalsOf(body, i - 1)) = 0 BY <1>8, <2>1
  <2> QED BY <2>2 DEF Keeps
<1> DEFINE ip == 0
<1>13. ip = Len(AfterStatement(body, i - 1).code) /\ b <= ip + 1 BY <1>8, <1>11 DEF c
<1>14. Alive(Runs(body)[i - 1]) /\ Runs(body)[i - 1].out = <<>> BY <1>10, <1>11
<1> HIDE DEF b, ip
<1>15. At(body, i, 0, b, 0, s, b, ip, <<>>)
  <2>1. At(body, i, 0, b, 0, s, b, ip, Runs(body)[i - 1].out) BY <1>11, <1>12, <1>13, <1>14, Enter
  <2> QED BY <1>14, <2>1
<1>16. stack' = s /\ top' = b /\ frames[0].ip' = ip /\ printed' = <<>> BY <1>2, <1>4 DEF b, ip
<1>17. Position(body)' BY <1>15, <1>16 DEF Position
<1> QED BY <1>5, <1>17

(* The lambdas that ran before a query were fine, and its own is tidy and, *)
(* once it has run, fine.                                                  *)
Runnable(q) == q.source # <<>> /\ ~q.script.err
Allowed(past, q, r) ==
  /\ past # <<>> /\ \A i \in 1 .. Len(past) - 1 : Runnable(past[i]) => Fine(past[i])
  /\ Runnable(q) => Tidy(q) /\ (r = 1 \/ Fine(q))
Trusted == Allowed(asked, query, row)

Meant(body) ==
  LET r == MeaningOf(body) IN
  /\ printed = r.out
  /\ outcome = [code |-> IF r.failed THEN "fail" ELSE "success", value |-> r.value]
  /\ ~r.failed => frameSize = 0

(* Only a lambda that compiles is run.                                     *)
PhaseInv ==
  /\ asked = <<>> => phase = "done" /\ mode = "idle" /\ frameSize = 0
  /\ phase = "begin" /\ query.kind # "edge" => ~query.script.err
  /\ phase = "judge" => Runnable(query)

(* Of a session that is trusted: the machine has no frame between the      *)
(* runs, is in its lambda within a run, and has done after it what the     *)
(* lambda means.                                                           *)
SessionInv ==
  Trusted =>
    /\ mode = "idle" /\ phase # "judge" => frameSize = 0
    /\ mode = "undefined" => Judged(row) = "undefined"
    /\ \A body : body = query.source =>
         /\ mode = "running" => InRun(body) /\ Position(body)
         /\ mode # "running" /\ phase = "judge" => Meant(body)

LEMMA OneMore ==
  ASSUME NEW S, NEW past \in Seq(S), past # <<>>, NEW q
  PROVE  LET n == Len(past)
             t == Append(past, q)
         IN n \in Nat /\ n > 0 /\ Last(past) = past[n] /\ Len(t) = n + 1 /\ \A i \in 1 .. n : t[i] = past[i]
<1> DEFINE n == Len(past)
           t == Append(past, q)
<1>1. n \in Nat /\ n > 0 OBVIOUS
<1>2. Last(past) = past[n] BY DEF Last
<1>3. t \in Seq(S \cup {q}) /\ DOMAIN t = 1 .. n + 1 /\ \A i \in 1 .. n : t[i] = past[i]
  BY AppendIsNotEmpty
<1>4. Len(t) = n + 1
  <2> HIDE DEF t, n
  <2>1. Len(t) \in Nat /\ DOMAIN t = 1 .. Len(t) BY <1>3
  <2> QED BY <1>1, <1>3, <2>1
<1> QED BY <1>1, <1>2, <1>3, <1>4

LEMMA AllowedBefore ==
  ASSUME NEW S, NEW past \in Seq(S), past # <<>>, NEW q, NEW t, t = Append(past, q), Allowed(t, q, 1), NEW r
  PROVE  Allowed(past, Last(past), r)
<1> DEFINE n == Len(past)
<1>1. n \in Nat /\ n > 0 /\ Last(past) = past[n] /\ Len(t) = n + 1 /\ \A i \in 1 .. n : t[i] = past[i]
  BY OneMore
<1> HIDE DEF n
<1>2. \A i \in 1 .. Len(t) - 1 : Runnable(t[i]) => Fine(t[i]) BY DEF Allowed
<1>3. \A i \in 1 .. n : Runnable(past[i]) => Fine(past[i])
  <2> TAKE i \in 1 .. n
  <2>1. i \in 1 .. Len(t) - 1 /\ t[i] = past[i] BY <1>1
  <2> QED BY <1>2, <2>1
<1>4. \A i \in 1 .. n - 1 : Runnable(past[i]) => Fine(past[i]) BY <1>1, <1>3
<1>5. Runnable(past[n]) => Fine(past[n]) BY <1>1, <1>3
<1> QED BY <1>1, <1>4, <1>5 DEF Allowed, Fine, n

LEMMA PhaseNext == ASSUME QueryInv, TypeInv, PhaseInv, [Next]_vars PROVE PhaseInv'
<1>1. CASE \E q \in First \cup Later : Start(q)
  <2>1. PICK q \in First \cup Later : Start(q) BY <1>1
  <2>2. query' = q /\ asked' = Append(asked, q) BY <2>1 DEF Start
  <2>3. asked' # <<>> BY <2>2
  <2>4. phase' # "judge" /\ (phase' = "begin" /\ q.kind # "edge" => ~q.script.err) BY <2>1 DEF Start
  <2> QED BY <2>2, <2>3, <2>4 DEF PhaseInv
<1>2. CASE RunScript
  <2>1. phase = "begin" /\ query.kind = "vertex" /\ query.script # NoScript /\ UNCHANGED <<query, asked>>
        /\ phase' \in {"aborted", "judge"}
    BY <1>2 DEF RunScript, HasScript, Script
  <2>2. asked # <<>> /\ ~query.script.err BY <2>1 DEF PhaseInv
  <2>3. query.source # <<>> BY <2>1, <2>2, SourceAssumption DEF QueryInv
  <2> QED BY <2>1, <2>2, <2>3 DEF PhaseInv, Runnable
<1>3. CASE RunStep
  <2>1. phase = "judge" /\ UNCHANGED <<query, asked, phase>> BY <1>3 DEF RunStep, scan
  <2> QED BY <2>1 DEF PhaseInv, Runnable
<1>4. ASSUME NEW found, Report(found), phase \in {"begin", "judge"} PROVE PhaseInv'
  <2>1. asked # <<>> /\ UNCHANGED <<query, asked>> /\ phase' \in {phase, "begin"}
    BY <1>4 DEF PhaseInv, Report, scan
  <2>2. query.kind # "edge" => ~query.script.err BY <1>4 DEF PhaseInv, Runnable
  <2> QED BY <1>4, <2>1, <2>2 DEF PhaseInv, Runnable
<1>5. CASE JudgeVertex
  <2>1. PICK found : Report(found) BY <1>5 DEF JudgeVertex
  <2>2. phase \in {"begin", "judge"} BY <1>5 DEF JudgeVertex
  <2> QED BY <1>4, <2>1, <2>2
<1>6. CASE JudgeEdge
  <2>1. PICK found : Report(found) BY <1>6 DEF JudgeEdge
  <2>2. phase \in {"begin", "judge"} BY <1>6 DEF JudgeEdge
  <2> QED BY <1>4, <2>1, <2>2
<1>7. CASE EndScan
  <2>1. phase = "begin" /\ phase' = "done" /\ UNCHANGED <<query, asked>> BY <1>7 DEF EndScan
  <2> QED BY <2>1 DEF PhaseInv
<1>8. CASE UNCHANGED vars
  <2>1. UNCHANGED <<query, asked, phase, mode, frameSize>> BY <1>8 DEF vars, scan, machine
  <2> QED BY <2>1 DEF PhaseInv, Runnable
<1> QED BY <1>1, <1>2, <1>3, <1>5, <1>6, <1>7, <1>8 DEF Next

LEMMA SessionStart ==
  ASSUME NEW q, ReportInv, QueryInv, PhaseInv, SessionInv, Start(q)
  PROVE  SessionInv'
<1>1. /\ query' = q /\ row' = 1 /\ asked' = Append(asked, q) /\ mode' = "idle" /\ frameSize' = frameSize
      /\ mode = "idle" /\ phase \in {"done", "aborted"} /\ phase' # "judge"
  BY DEF Start, machine
<1>2. ASSUME Trusted' PROVE frameSize = 0
  <2>1. CASE asked = <<>> BY <2>1 DEF PhaseInv
  <2>2. CASE asked # <<>>
    <3>1. Allowed(Append(asked, q), q, 1) BY <1>1, <1>2 DEF Trusted
    <3>2. PICK S : asked \in Seq(S) BY DEF ReportInv
    <3>3. Allowed(asked, Last(asked), row) BY <2>2, <3>1, <3>2, AllowedBefore
    <3>4. Trusted BY <2>2, <3>3 DEF Trusted, QueryInv
    <3> QED BY <1>1, <3>4 DEF SessionInv
  <2> QED BY <2>1, <2>2
<1> QED BY <1>1, <1>2 DEF SessionInv

(* What a trusted session runs compiles.                                   *)
LEMMA TrustedCompiles ==
  ASSUME QueryInv, PhaseInv, Trusted, Runnable(query)
  PROVE  Compilable(query.source) /\ query.script.chunk = Chunk(query.source) /\ asked # <<>>
<1>1. asked # <<>> /\ Tidy(query) BY DEF Trusted, Allowed
<1>2. query \in First \cup Later BY <1>1 DEF QueryInv
<1>3. query.source # <<>> /\ ~query.script.err BY DEF Runnable
<1> QED BY <1>1, <1>2, <1>3, QueryCompiles

(* The steps that leave the machine alone and the row.                     *)
LEMMA TrustStays == ASSUME UNCHANGED <<asked, query, row>> PROVE Trusted' => Trusted
BY DEF Trusted, Allowed, Runnable

LEMMA TrustPasses == ASSUME UNCHANGED <<asked, query>>, row' = row + 1, row \in Nat \ {0}
                     PROVE  Trusted' => Trusted /\ (Runnable(query) => Fine(query))
BY DEF Trusted, Allowed, Runnable

(* The steps of the session.                                               *)
LEMMA SessionRun ==
  ASSUME BoundInv, QueryInv, PhaseInv, PhaseInv', SessionInv, RunScript
  PROVE  SessionInv'
<1>1. /\ UNCHANGED <<asked, query, row>> /\ phase = "begin" /\ mode = "idle" /\ HasScript
      /\ Interpret(query.script.chunk) /\ phase' = IF mode' = "idle" THEN "aborted" ELSE "judge"
  BY DEF RunScript, Interpret, Script
<1> SUFFICES ASSUME Trusted' PROVE SessionInv' BY DEF SessionInv
<1>2. Trusted BY <1>1, TrustStays
<1>3. frameSize = 0 BY <1>1, <1>2 DEF SessionInv
<1>4. MachineTypeOK BY DEF BoundInv
<1>5. Runnable(query)
  <2>1. frameSize # MaxFrame BY <1>3, MachineAssumption
  <2>2. mode' = "running" BY <1>1, <2>1 DEF Interpret
  <2>3. Runnable(query)' BY <1>1, <2>2 DEF PhaseInv
  <2> QED BY <1>1, <2>3 DEF Runnable
<1> DEFINE code == query.source
<1>6. Compilable(code) /\ query.script.chunk = Chunk(code) BY <1>2, <1>5, TrustedCompiles
<1>7. ASSUME NEW body, body = code PROVE InRun(body)' /\ Position(body)'
  <2>1. Compilable(body) /\ Interpret(Chunk(body)) BY <1>1, <1>6, <1>7
  <2> QED BY <1>3, <1>4, <2>1, RunBegins
<1>8. mode' = "running"
  <2>1. frameSize # MaxFrame BY <1>3, MachineAssumption
  <2> QED BY <1>1, <2>1 DEF Interpret
<1> QED BY <1>1, <1>7, <1>8 DEF SessionInv

LEMMA SessionStep ==
  ASSUME BoundInv, TypeInv, QueryInv, PhaseInv, SessionInv, RunStep
  PROVE  SessionInv'
<1>1. UNCHANGED <<asked, query, row, phase>> /\ phase = "judge" /\ MachineStep BY DEF RunStep, scan
<1> SUFFICES ASSUME Trusted' PROVE SessionInv' BY DEF SessionInv
<1>2. Trusted BY <1>1, TrustStays
<1>3. Runnable(query) BY <1>1 DEF PhaseInv
<1>4. mode = "running" BY <1>1, StepOf
<1>5. MachineTypeOK BY DEF BoundInv
<1> DEFINE code == query.source
<1>6. Compilable(code) BY <1>2, <1>3, TrustedCompiles
<1>7. \A body : body = code => InRun(body) /\ Position(body) BY <1>2, <1>4 DEF SessionInv
<1>8. ASSUME NEW body, body = code
      PROVE  \/ mode' = "running" /\ InRun(body)' /\ Position(body)'
             \/ mode' = "idle" /\ Meant(body)'
  <2>1. Compilable(body) /\ InRun(body) /\ Position(body) BY <1>6, <1>7, <1>8
  <2>2. (InRun(body)' /\ Position(body)') \/ Finished(body)' BY <1>1, <1>5, <2>1, MachineGoes
  <2>3. InRun(body)' => mode' = "running" BY DEF InRun
  <2>4. Finished(body)' => mode' = "idle" /\ Meant(body)' BY DEF Finished, Meant
  <2> QED BY <2>2, <2>3, <2>4
<1>9. mode' \in {"running", "idle"} BY <1>8
<1>10. \A body : body = query'.source =>
          /\ mode' = "running" => InRun(body)' /\ Position(body)'
          /\ mode' # "running" => Meant(body)'
  BY <1>1, <1>8
<1> QED BY <1>1, <1>9, <1>10 DEF SessionInv

LEMMA SessionReport ==
  ASSUME BoundInv, ReportInv, PhaseInv, SessionInv, NEW found, Report(found), found = Judged(row), mode # "running"
  PROVE  SessionInv'
<1> SUFFICES ASSUME Trusted' PROVE SessionInv' BY DEF SessionInv
<1>1. CASE found = "undefined"
  <2>1. /\ UNCHANGED <<asked, query, row, phase, clause>> /\ mode' = "undefined"
        /\ UNCHANGED <<printed, outcome, frameSize>>
    BY <1>1 DEF Report, Undefined, scan
  <2>2. Trusted BY <2>1, TrustStays
  <2>3. Judged(row)' = Judged(row) BY <2>1 DEF Judged
  <2>4. \A body : body = query.source /\ phase = "judge" => Meant(body) BY <2>2 DEF SessionInv
  <2>5. ASSUME NEW body, body = query'.source, phase' = "judge" PROVE Meant(body)'
    <3>1. Meant(body) BY <2>1, <2>4, <2>5
    <3> QED BY <2>1, <3>1 DEF Meant
  <2> QED BY <1>1, <2>1, <2>3, <2>5 DEF SessionInv
<1>2. CASE found # "undefined"
  <2>1. UNCHANGED <<asked, query, mode, frameSize>> /\ row' = row + 1 /\ phase' = "begin"
    BY <1>2 DEF Report, machine
  <2>2. row \in Nat \ {0} BY DEF ReportInv
  <2>3. Trusted /\ (Runnable(query) => Fine(query)) BY <2>1, <2>2, TrustPasses
  <2>4. mode # "undefined" BY <1>2, <2>3 DEF SessionInv
  <2>5. frameSize = 0
    <3>1. CASE phase = "judge"
      <4>1. ~MeaningOf(query.source).failed BY <2>3, <3>1 DEF PhaseInv, Fine
      <4>2. \A body : body = query.source => Meant(body) BY <2>3, <3>1 DEF SessionInv
      <4>3. Meant(query.source) BY <4>2
      <4> QED BY <4>1, <4>3 DEF Meant
    <3>2. CASE phase # "judge"
      <4>1. mode = "idle" => frameSize = 0 BY <2>3, <3>2 DEF SessionInv
      <4>2. mode \in {"idle", "running", "undefined"} BY DEF BoundInv, MachineTypeOK
      <4> QED BY <2>4, <4>1, <4>2
    <3> QED BY <3>1, <3>2
  <2> QED BY <2>1, <2>4, <2>5 DEF SessionInv
<1> QED BY <1>1, <1>2

LEMMA SessionNext ==
  ASSUME BoundInv, ReportInv, TypeInv, QueryInv, PhaseInv, PhaseInv', SessionInv, [Next]_vars
  PROVE  SessionInv'
<1>1. CASE \E q \in First \cup Later : Start(q) BY <1>1, SessionStart
<1>2. CASE RunScript BY <1>2, SessionRun
<1>3. CASE RunStep BY <1>3, SessionStep
<1>4. CASE JudgeVertex
  <2>1. PredictVertex(clause, Rows[row].key, Rows[row].attrs) = Judged(row)
    BY <1>4 DEF JudgeVertex, Rows, Judged
  <2>2. PICK found \in {PredictVertex(clause, Rows[row].key, Rows[row].attrs)} : Report(found)
    BY <1>4 DEF JudgeVertex
  <2>3. mode # "running" BY <1>4 DEF JudgeVertex
  <2> QED BY <2>1, <2>2, <2>3, SessionReport
<1>5. CASE JudgeEdge
  <2>1. PredictEdge(MakeEdgeId(Rows[row].directed, Rows[row].from, Rows[row].to), clause.edges) = Judged(row)
    BY <1>5 DEF JudgeEdge, Rows, Judged
  <2>2. PICK found \in {PredictEdge(MakeEdgeId(Rows[row].directed, Rows[row].from, Rows[row].to), clause.edges)} :
               Report(found)
    BY <1>5 DEF JudgeEdge
  <2>3. mode # "running" BY <1>5 DEF JudgeEdge, TypeInv
  <2> QED BY <2>1, <2>2, <2>3, SessionReport
<1>6. ASSUME UNCHANGED <<machine, asked, query, row, clause>>, phase' = phase \/ (phase = "begin" /\ phase' = "done")
      PROVE  SessionInv'
  <2> SUFFICES ASSUME Trusted' PROVE SessionInv' BY DEF SessionInv
  <2>1. /\ UNCHANGED <<asked, query, row, clause>>
        /\ UNCHANGED <<stack, top, frames, frameSize, cur, mode, printed, outcome>>
    BY <1>6 DEF machine
  <2>2. Trusted BY <2>1, TrustStays
  <2>3. Judged(row)' = Judged(row) BY <2>1 DEF Judged
  <2>4. mode = "idle" /\ phase # "judge" => frameSize = 0 BY <2>2 DEF SessionInv
  <2>5. mode = "undefined" => Judged(row) = "undefined" BY <2>2 DEF SessionInv
  <2>6. ASSUME NEW body, body = query'.source
        PROVE  /\ mode' = "running" => InRun(body)' /\ Position(body)'
               /\ mode' # "running" /\ phase' = "judge" => Meant(body)'
    <3>1. body = query.source BY <2>1, <2>6
    <3>2. InRun(body)' <=> InRun(body) BY <2>1 DEF InRun
    <3>3. Position(body)' <=> Position(body) BY <2>1 DEF Position
    <3>4. Meant(body)' <=> Meant(body) BY <2>1 DEF Meant
    <3>5. /\ mode = "running" => InRun(body) /\ Position(body)
          /\ mode # "running" /\ phase = "judge" => Meant(body)
      BY <2>2, <3>1 DEF SessionInv
    <3>6. phase' = "judge" => phase = "judge" BY <1>6
    <3> QED BY <2>1, <3>2, <3>3, <3>4, <3>5, <3>6
  <2>7. mode' = "idle" /\ phase' # "judge" => frameSize' = 0 BY <1>6, <2>1, <2>4
  <2> QED BY <2>1, <2>3, <2>5, <2>6, <2>7 DEF SessionInv
<1>7. CASE EndScan
  <2> SUFFICES ASSUME Trusted' PROVE SessionInv' BY DEF SessionInv
  <2>1. phase = "begin" /\ phase' = "done" /\ UNCHANGED <<asked, query, row, clause, mode, frameSize>>
    BY <1>7 DEF EndScan, CleanPlan
  <2>2. mode # "running" BY <2>1 DEF TypeInv
  <2>3. Trusted BY <2>1, TrustStays
  <2>4. Judged(row)' = Judged(row) BY <2>1 DEF Judged
  <2>5. frameSize = 0 \/ mode # "idle" BY <2>1, <2>3 DEF SessionInv
  <2>6. mode = "undefined" => Judged(row) = "undefined" BY <2>3 DEF SessionInv
  <2> QED BY <2>1, <2>2, <2>4, <2>5, <2>6 DEF SessionInv
<1>8. CASE UNCHANGED vars BY <1>6, <1>8 DEF vars, scan
<1> QED BY <1>1, <1>2, <1>3, <1>4, <1>5, <1>7, <1>8 DEF Next

(* What the invariant says of the query under way is the property.         *)
LEMMA TidyLambdasHold ==
  ASSUME ReportInv, QueryInv, PhaseInv, SessionInv
  PROVE  TidyLambdas
<1> DEFINE n == Len(asked)
           q == Last(asked)
           r == MeaningOf(q.source)
<1> SUFFICES ASSUME \A i \in Ran \ {n} : Fine(asked[i]), n \in Ran, Tidy(q), row = 1 \/ Fine(q)
             PROVE  /\ mode = "undefined" => Judged(row) = "undefined"
                    /\ mode # "running" /\ phase = "judge" =>
                         printed = r.out /\ outcome = [code |-> IF r.failed THEN "fail" ELSE "success", value |-> r.value]
  BY DEF TidyLambdas
<1>1. DOMAIN asked = 1 .. n /\ n \in Nat BY DEF ReportInv
<1>2. asked # <<>>
  <2>1. n \in DOMAIN asked BY DEF Ran
  <2> QED BY <2>1
<1>3. query = q BY <1>2 DEF QueryInv
<1>4. \A i \in 1 .. n - 1 : Runnable(asked[i]) => Fine(asked[i])
  <2> TAKE i \in 1 .. n - 1
  <2> HIDE DEF n
  <2>1. i \in 1 .. n /\ i # n BY <1>1
  <2> QED BY <1>1, <2>1 DEF Runnable, Ran, n
<1> HIDE DEF q
<1>5. Trusted BY <1>2, <1>3, <1>4 DEF Trusted, Allowed
<1> HIDE DEF n
<1>6. mode = "undefined" => Judged(row) = "undefined" BY <1>5 DEF SessionInv
<1>7. \A body : body = query.source => (mode # "running" /\ phase = "judge" => Meant(body))
  BY <1>5 DEF SessionInv
<1>8. mode # "running" /\ phase = "judge" => Meant(q.source) BY <1>3, <1>7
<1> QED BY <1>6, <1>8 DEF Meant

(* The machine does what a lambda means: as long as only tidy lambdas have *)
(* run and none of them failed, a run prints and returns what the lambda   *)
(* means and fails exactly when its arithmetic is undefined, and nothing   *)
(* undefined is reached (ByteCodeVisitor.cpp, Compiler.cpp,                *)
(* GVM.cpp:152-283), for all lambdas, rows and sizes of the machine.       *)
THEOREM TidyLambdasMean == Spec => []TidyLambdas
<1> DEFINE I == BoundAll /\ ReportInv /\ TypeInv /\ QueryInv /\ PhaseInv /\ SessionInv
<1>1. Init => I
  <2>1. Init => QueryInv BY DEF Init, QueryInv
  <2>2. Init => PhaseInv BY DEF Init, MachineInit, PhaseInv
  <2>3. Init => SessionInv
    <3>1. Init => asked = <<>> BY DEF Init
    <3> QED BY <3>1 DEF SessionInv, Trusted, Allowed
  <2> QED BY <2>1, <2>2, <2>3, MachineInits, ReportInit, TypeInit
<1>2. I /\ [Next]_vars => I'
  <2> SUFFICES ASSUME I, [Next]_vars PROVE I' OBVIOUS
  <2>1. BoundInv /\ FrameInv BY DEF BoundAll
  <2>2. PhaseInv' BY PhaseNext
  <2>3. SessionInv' BY <2>1, <2>2, SessionNext
  <2> QED BY <2>1, <2>2, <2>3, BoundNext, ReportNext, TypeNext, QueryNext
<1>3. I => TidyLambdas BY TidyLambdasHold
<1> QED BY <1>1, <1>2, <1>3, PTL DEF Spec
===============================================================================
