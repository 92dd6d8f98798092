------------------------------ MODULE ScanProofs ------------------------------
(***************************************************************************)
(* What Scan keeps for every set of queries, every lambda and all rows:    *)
(* the frames failed runs leave, the bounds of the machine, and that a     *)
(* scan judges each row once.  Then what an id and a where clause tell.    *)
(***************************************************************************)
EXTENDS ScanMeaning, Recursions, SequenceTheorems, FiniteSetTheorems, TLAPS

-------------------------------------------------------------------------------
(* The frames a failed run leaves.                                         *)

FrameInv ==
  /\ mode \in {"idle", "running", "undefined"}
  /\ frameSize \in Nat /\ fails \in Nat /\ opened \in Nat
  /\ LeftFrames

LEMMA FramesInit == MachineInit => FrameInv
BY DEF MachineInit, FrameInv, LeftFrames

LEMMA FramesInterpret == ASSUME NEW chunk, FrameInv, Interpret(chunk) PROVE FrameInv'
<1>1. mode = "idle" /\ frameSize <= fails + opened /\ fails' = fails /\ opened' = opened
      /\ (fails = 0 => frameSize = 0)
  BY DEF FrameInv, LeftFrames, Interpret
<1>2. CASE frameSize = MaxFrame
  <2>1. mode' = mode /\ frameSize' = frameSize /\ fails # 0
    BY <1>1, <1>2, MachineAssumption DEF Interpret
  <2> QED BY <1>1, <2>1 DEF FrameInv, LeftFrames
<1>3. CASE frameSize # MaxFrame
  BY <1>1, <1>3 DEF Interpret, FrameInv, LeftFrames
<1> QED BY <1>2, <1>3

(* The steps that go on and those that end in something undefined.         *)
LEMMA FramesQuiet ==
  ASSUME FrameInv, mode = "running", mode' \in {"running", "undefined"},
         UNCHANGED <<frameSize, fails, opened>>
  PROVE  FrameInv'
BY DEF FrameInv, LeftFrames

LEMMA FramesFail == ASSUME FrameInv, mode = "running", NEW text, FailAfter(text) PROVE FrameInv'
BY DEF FrameInv, LeftFrames, FailAfter

LEMMA FramesCall == ASSUME FrameInv, Call PROVE FrameInv'
<1>1. mode = "running" BY DEF Call, Executing
<1>2. CASE Undefined BY <1>1, <1>2, FramesQuiet DEF Undefined
<1>3. CASE CallClock BY <1>1, <1>3, FramesQuiet DEF CallClock, GoOn
<1>4. CASE CallPrint
  <2>1. CASE \E text : FailAfter(text) BY <1>1, <2>1, FramesFail
  <2>2. CASE UNCHANGED <<frameSize, mode, fails, opened>> BY <1>1, <2>2, FramesQuiet
  <2> QED BY <1>4, <2>1, <2>2 DEF CallPrint
<1>5. CASE CallFunction
  <2>1. CASE Fail BY <1>1, <2>1, FramesFail DEF Fail
  <2>2. CASE frameSize' = frameSize + 1 /\ opened' = opened + 1 /\ UNCHANGED <<mode, fails>>
    BY <1>1, <2>2 DEF FrameInv, LeftFrames
  <2> QED BY <1>5, <2>1, <2>2 DEF CallFunction
<1>6. CASE CallOther BY <1>1, <1>6, FramesFail DEF CallOther, Fail
<1> QED BY <1>2, <1>3, <1>4, <1>5, <1>6 DEF Call

LEMMA FramesReturn == ASSUME FrameInv, Return PROVE FrameInv'
<1>1. mode = "running" /\ frameSize \in 1 .. fails + opened + 1
  BY DEF Return, Executing, FrameInv, LeftFrames
<1>2. CASE Undefined BY <1>1, <1>2, FramesQuiet DEF Undefined
<1>3. CASE ~Undefined
  <2>1. frameSize' = frameSize - 1 /\ fails' = fails /\ opened' = opened
    BY <1>3 DEF Return
  <2>2. CASE frameSize = 1
    <3>1. mode' = "idle" /\ outcome'.code = "success" BY <1>3, <2>2 DEF Return
    <3> QED BY <1>1, <2>1, <2>2, <3>1 DEF FrameInv, LeftFrames
  <2>3. CASE frameSize # 1
    <3>1. mode' = mode BY <1>3, <2>3 DEF Return
    <3> QED BY <1>1, <2>1, <2>3, <3>1 DEF FrameInv, LeftFrames
  <2> QED BY <2>2, <2>3
<1> QED BY <1>2, <1>3

LEMMA FramesStep == ASSUME FrameInv, MachineStep PROVE FrameInv'
<1>1. CASE Constant \/ Binary \/ Pop \/ GetLocal \/ SetLocal \/ GetGlobal \/ SetGlobal
  <2>1. mode = "running"
    BY <1>1 DEF Constant, Binary, Pop, GetLocal, SetLocal, GetGlobal, SetGlobal, Executing
  <2>2. \/ mode' \in {"running", "undefined"} /\ UNCHANGED <<frameSize, fails, opened>>
        \/ FailAfter(printed)
    BY <1>1, <2>1
    DEF Constant, Binary, Pop, GetLocal, SetLocal, GetGlobal, SetGlobal, Push, GoOn, Undefined, Fail
  <2> QED BY <2>1, <2>2, FramesQuiet, FramesFail
<1>2. CASE Call BY <1>2, FramesCall
<1>3. CASE Return BY <1>3, FramesReturn
<1> QED BY <1>1, <1>2, <1>3 DEF MachineStep

LEMMA FramesIdle == ASSUME FrameInv, UNCHANGED machine PROVE FrameInv'
BY DEF FrameInv, LeftFrames, machine

(* What a step of the scan does to the machine.                            *)
LEMMA MachineSteps ==
  ASSUME [Next]_vars
  PROVE  \/ UNCHANGED machine
         \/ phase = "begin" /\ HasScript /\ Interpret(Script.chunk)
         \/ MachineStep
         \/ Undefined
         \/ CleanPlan
<1>1. CASE \E q \in First \cup Later : Start(q) BY <1>1 DEF Start
<1>2. CASE RunScript BY <1>2 DEF RunScript
<1>3. CASE RunStep BY <1>3 DEF RunStep
<1>4. CASE JudgeVertex
  <2>1. PICK found : Report(found) BY <1>4 DEF JudgeVertex
  <2> QED BY <2>1 DEF Report
<1>5. CASE JudgeEdge
  <2>1. PICK found : Report(found) BY <1>5 DEF JudgeEdge
  <2> QED BY <2>1 DEF Report
<1>6. CASE EndScan BY <1>6 DEF EndScan
<1>7. CASE UNCHANGED vars BY <1>7 DEF vars
<1> QED BY <1>1, <1>2, <1>3, <1>4, <1>5, <1>6, <1>7 DEF Next

LEMMA FramesNext == ASSUME FrameInv, [Next]_vars PROVE FrameInv'
<1>1. CASE Undefined BY <1>1 DEF Undefined, FrameInv, LeftFrames
<1>2. CASE CleanPlan BY <1>2 DEF CleanPlan, FrameInv, LeftFrames
<1> QED BY <1>1, <1>2, MachineSteps, FramesIdle, FramesInterpret, FramesStep

(* A run that succeeds leaves no frame: the frames left when the machine   *)
(* is idle are at most the failed runs and the calls inside runs, and      *)
(* interpret throws (GVM.cpp:158) only after a failure.                    *)
THEOREM FramesLeftByFailures == Spec => []LeftFrames
<1>1. Init => FrameInv BY FramesInit DEF Init
<1>2. FrameInv /\ [Next]_vars => FrameInv' BY FramesNext
<1>3. FrameInv => LeftFrames BY DEF FrameInv
<1> QED BY <1>1, <1>2, <1>3, PTL DEF Spec

-------------------------------------------------------------------------------
(* The bounds of the machine.                                              *)

Code == Chunks \cup {NoChunk}
FrameType == [func : Code, ip : Nat, slots : Cell, owner : Owners]
ValueOK(v) == v.kind = "fn" => v.val \in Chunks

BoundInv ==
  /\ MachineTypeOK
  /\ frames \in [0 .. MaxFrame - 1 -> FrameType]
  /\ \A c \in Cell : ValueOK(stack[c])
  /\ \A name \in DOMAIN globals : ValueOK(globals[name])

LEMMA CodeIsTyped ==
  ASSUME NEW c \in Code
  PROVE  /\ c.code \in Seq([op : STRING, arg : Nat])
         /\ Len(c.values) \in Nat /\ DOMAIN c.values = 1 .. Len(c.values)
         /\ \A i \in DOMAIN c.values : ValueOK(c.values[i])
<1>1. CASE c \in Chunks BY <1>1, ChunkAssumption DEF ValueOK
<1>2. CASE c = NoChunk BY <1>2 DEF NoChunk
<1> QED BY <1>1, <1>2 DEF Code

LEMMA ElementIsTyped ==
  ASSUME NEW S, NEW s \in Seq(S), NEW i \in Nat, i < Len(s) PROVE s[i + 1] \in S
OBVIOUS

LEMMA InstructionIsTyped ==
  ASSUME BoundInv
  PROVE  /\ Instruction.arg \in Nat
         /\ frames[cur] \in FrameType
         /\ \A k \in Nat : HasConstant(k) => ValueOK(Constants[k + 1])
<1>1. frames[cur] \in FrameType /\ frames[cur].func \in Code /\ frames[cur].ip \in Nat
  BY MachineAssumption DEF BoundInv, MachineTypeOK, FrameType
<1>2. Instruction.arg \in Nat
  <2> DEFINE func == frames[cur].func
             ip == frames[cur].ip
  <2>1. func.code \in Seq([op : STRING, arg : Nat]) /\ ip \in Nat BY <1>1, CodeIsTyped
  <2>2. CASE ip < Len(func.code)
    <3>1. func.code[ip + 1] \in [op : STRING, arg : Nat] BY <2>1, <2>2, ElementIsTyped
    <3>2. Instruction = func.code[ip + 1] BY <2>2 DEF Instruction
    <3> QED BY <3>1, <3>2
  <2>3. CASE ~(ip < Len(func.code))
    <3>1. Instruction = [op |-> "SET_GLOBAL", arg |-> 0] BY <2>3 DEF Instruction
    <3> QED BY <3>1
  <2> QED BY <2>2, <2>3
<1>3. \A k \in Nat : HasConstant(k) => ValueOK(Constants[k + 1])
  BY <1>1, CodeIsTyped DEF HasConstant, Constants
<1> QED BY <1>1, <1>2, <1>3

LEMMA AheadIsTyped ==
  ASSUME BoundInv PROVE Ahead \in [0 .. MaxFrame - 1 -> FrameType]
<1>1. frames[cur] \in FrameType /\ frames \in [0 .. MaxFrame - 1 -> FrameType]
  BY InstructionIsTyped DEF BoundInv
<1>2. [frames[cur] EXCEPT !.ip = @ + 1] \in FrameType BY <1>1 DEF FrameType
<1>3. Ahead = [frames EXCEPT ![cur] = [frames[cur] EXCEPT !.ip = @ + 1]] BY DEF Ahead
<1> QED BY <1>1, <1>2, <1>3

(* A frame type gives the part of MachineTypeOK about frames.              *)
LEMMA FramesAreTyped ==
  ASSUME NEW fs \in [0 .. MaxFrame - 1 -> FrameType]
  PROVE  /\ DOMAIN fs = 0 .. MaxFrame - 1
         /\ \A f \in DOMAIN fs : fs[f].ip \in Nat /\ fs[f].slots \in Cell /\ fs[f].owner \in Owners
BY DEF FrameType

LEMMA BoundInit == MachineInit => BoundInv
<1> SUFFICES ASSUME MachineInit PROVE BoundInv OBVIOUS
<1>1. 0 \in Cell /\ 0 \in 0 .. MaxFrame - 1 BY MachineAssumption DEF Cell
<1>2. frames \in [0 .. MaxFrame - 1 -> FrameType]
  BY <1>1 DEF MachineInit, Frame, FrameType, Code, Owners
<1>3. /\ \A c \in Cell : ValueOK(stack[c])
      /\ \A name \in DOMAIN globals : ValueOK(globals[name])
  BY DEF MachineInit, ValueOK, Void, Native
<1>4. MachineTypeOK
  <2>1. /\ DOMAIN frames = 0 .. MaxFrame - 1
        /\ \A f \in DOMAIN frames : frames[f].ip \in Nat /\ frames[f].slots \in Cell /\ frames[f].owner \in Owners
    BY <1>2, FramesAreTyped
  <2>2. /\ DOMAIN stack = Cell /\ top \in 0 .. MaxStack /\ frameSize \in 0 .. MaxFrame /\ cur \in 0 .. MaxFrame - 1
        /\ mode \in {"idle", "running", "undefined"} /\ fails \in Nat /\ opened \in Nat
        /\ outcome.code \in {"none", "success", "fail", "thrown"}
    BY <1>1, MachineAssumption DEF MachineInit
  <2> QED BY <2>1, <2>2 DEF MachineTypeOK
<1> QED BY <1>2, <1>3, <1>4 DEF BoundInv

LEMMA BoundUndefined == ASSUME BoundInv, Undefined PROVE BoundInv'
BY DEF BoundInv, Undefined, MachineTypeOK

LEMMA BoundIdle == ASSUME BoundInv, UNCHANGED machine PROVE BoundInv'
BY DEF BoundInv, machine, MachineTypeOK

LEMMA BoundGoOn ==
  ASSUME BoundInv, NEW cells, NEW newTop, GoOn(cells, newTop), newTop \in 0 .. MaxStack,
         DOMAIN cells = Cell, \A c \in Cell : ValueOK(cells[c])
  PROVE  BoundInv'
<1>1. frames' \in [0 .. MaxFrame - 1 -> FrameType] BY AheadIsTyped DEF GoOn
<1>2. MachineTypeOK' BY <1>1, FramesAreTyped DEF BoundInv, MachineTypeOK, GoOn
<1> QED BY <1>1, <1>2 DEF BoundInv, GoOn

(* One cell is written and the top moves.                                  *)
LEMMA BoundWrite ==
  ASSUME BoundInv, NEW c \in Cell, NEW value, ValueOK(value), NEW newTop \in 0 .. MaxStack,
         GoOn([stack EXCEPT ![c] = value], newTop)
  PROVE  BoundInv'
<1> DEFINE cells == [stack EXCEPT ![c] = value]
<1>1. DOMAIN cells = Cell /\ \A d \in Cell : cells[d] = IF d = c THEN value ELSE stack[d]
  BY DEF BoundInv, MachineTypeOK
<1>2. \A d \in Cell : ValueOK(cells[d])
  <2> TAKE d \in Cell
  <2>1. CASE d = c BY <1>1, <2>1
  <2>2. CASE d # c BY <1>1, <2>2 DEF BoundInv
  <2> QED BY <2>1, <2>2
<1> HIDE DEF cells
<1> QED BY <1>1, <1>2, BoundGoOn DEF cells

LEMMA BoundPush == ASSUME BoundInv, NEW value, ValueOK(value), Push(value) PROVE BoundInv'
<1>1. CASE top \in Cell
  <2>1. top + 1 \in 0 .. MaxStack BY <1>1, MachineAssumption DEF Cell
  <2> QED BY <1>1, <2>1, BoundWrite DEF Push
<1>2. CASE top \notin Cell BY <1>2, BoundUndefined DEF Push
<1> QED BY <1>1, <1>2

LEMMA BoundFail == ASSUME BoundInv, NEW text, FailAfter(text) PROVE BoundInv'
<1>1. frames' \in [0 .. MaxFrame - 1 -> FrameType] BY AheadIsTyped DEF FailAfter
<1>2. MachineTypeOK'
  BY <1>1, FramesAreTyped, MachineAssumption DEF BoundInv, MachineTypeOK, FailAfter
<1> QED BY <1>1, <1>2 DEF BoundInv, FailAfter

LEMMA BoundInterpret ==
  ASSUME BoundInv, NEW chunk \in Chunks, Interpret(chunk) PROVE BoundInv'
<1>1. 0 \in Cell /\ 1 \in 0 .. MaxStack BY MachineAssumption DEF Cell
<1>2. stack' = [stack EXCEPT ![0] = Function(chunk)] /\ top' = 1 BY DEF Interpret
<1>3. DOMAIN stack' = Cell /\ \A c \in Cell : ValueOK(stack'[c])
  <2>1. ValueOK(Function(chunk)) BY DEF ValueOK, Function
  <2>2. DOMAIN stack' = Cell /\ \A d \in Cell : stack'[d] = IF d = 0 THEN Function(chunk) ELSE stack[d]
    BY <1>2 DEF BoundInv, MachineTypeOK
  <2> QED BY <2>1, <2>2 DEF BoundInv
<1>4. globals' = globals /\ fails' = fails /\ opened' = opened BY DEF Interpret
<1>5. CASE frameSize = MaxFrame
  <2>1. /\ outcome' = [code |-> "thrown", value |-> Void]
        /\ UNCHANGED <<frames, frameSize, cur, mode>>
    BY <1>5 DEF Interpret
  <2> QED BY <1>1, <1>2, <1>3, <1>4, <2>1 DEF BoundInv, MachineTypeOK
<1>6. CASE frameSize # MaxFrame
  <2>1. /\ frames' = [frames EXCEPT ![frameSize] = Frame(chunk, 0, "plan")]
        /\ frameSize' = frameSize + 1 /\ cur' = frameSize
        /\ mode' = "running" /\ UNCHANGED outcome
    BY <1>6 DEF Interpret
  <2>2. frameSize \in 0 .. MaxFrame - 1
    BY <1>6, MachineAssumption DEF BoundInv, MachineTypeOK
  <2>3. Frame(chunk, 0, "plan") \in FrameType BY <1>1 DEF Frame, FrameType, Code, Owners
  <2>4. frames' \in [0 .. MaxFrame - 1 -> FrameType] BY <2>1, <2>3 DEF BoundInv
  <2>5. MachineTypeOK'
    <3>1. /\ DOMAIN frames' = 0 .. MaxFrame - 1
          /\ \A f \in DOMAIN frames' :
               frames'[f].ip \in Nat /\ frames'[f].slots \in Cell /\ frames'[f].owner \in Owners
      BY <2>4, FramesAreTyped
    <3>2. DOMAIN stack' = Cell /\ top' \in 0 .. MaxStack BY <1>1, <1>2, <1>3
    <3>3. frameSize' \in 0 .. MaxFrame /\ cur' \in 0 .. MaxFrame - 1
      BY <2>1, <2>2, MachineAssumption
    <3>4. /\ mode' \in {"idle", "running", "undefined"} /\ fails' \in Nat /\ opened' \in Nat
          /\ outcome'.code \in {"none", "success", "fail", "thrown"}
      BY <1>4, <2>1 DEF BoundInv, MachineTypeOK
    <3> QED BY <3>1, <3>2, <3>3, <3>4 DEF MachineTypeOK
  <2> QED BY <1>3, <1>4, <2>4, <2>5 DEF BoundInv
<1> QED BY <1>5, <1>6

LEMMA BoundBinary == ASSUME BoundInv, Binary PROVE BoundInv'
<1>1. CASE top < 2 BY <1>1, BoundUndefined DEF Binary
<1>2. CASE ~(top < 2)
  <2> DEFINE op == Instruction.op
             l == stack[top - 2]
             r == stack[top - 1]
  <2>1. CASE Defined(op, l, r)
    <3>1. GoOn([stack EXCEPT ![top - 2] = Apply(op, l, r)], top - 1) BY <1>2, <2>1 DEF Binary
    <3>2. top - 2 \in Cell /\ top - 1 \in 0 .. MaxStack
      BY <1>2, MachineAssumption DEF BoundInv, MachineTypeOK, Cell
    <3>3. op \in {"ADD", "SUBTRACT", "MULTIPLY", "DIVIDE"} BY DEF Binary, Executing
    <3>4. ValueOK(Apply(op, l, r))
      <4> HIDE DEF op, l, r
      <4> QED BY <3>3 DEF Apply, ValueOK, Double, Str
    <3> HIDE DEF op, l, r
    <3> QED BY <3>1, <3>2, <3>4, BoundWrite
  <2>2. CASE ~Defined(op, l, r)
    <3>1. FailAfter(printed) BY <1>2, <2>2 DEF Binary, Fail
    <3> QED BY <3>1, BoundFail
  <2> QED BY <2>1, <2>2
<1> QED BY <1>1, <1>2

(* The stack as it is: only the top moves.                                 *)
LEMMA BoundMove ==
  ASSUME BoundInv, NEW newTop \in 0 .. MaxStack, GoOn(stack, newTop) PROVE BoundInv'
<1>1. DOMAIN stack = Cell /\ \A c \in Cell : ValueOK(stack[c]) BY DEF BoundInv, MachineTypeOK
<1> QED BY <1>1, BoundGoOn

LEMMA BoundSimple ==
  ASSUME BoundInv, Constant \/ Pop \/ GetLocal \/ SetLocal \/ GetGlobal PROVE BoundInv'
<1>1. top \in 0 .. MaxStack /\ Instruction.arg \in Nat
  BY InstructionIsTyped DEF BoundInv, MachineTypeOK
<1>2. CASE Constant
  <2>1. CASE HasConstant(Instruction.arg)
    BY <1>1, <1>2, <2>1, InstructionIsTyped, BoundPush DEF Constant
  <2>2. CASE ~HasConstant(Instruction.arg) BY <1>2, <2>2, BoundUndefined DEF Constant
  <2> QED BY <2>1, <2>2
<1>3. CASE Pop
  <2>1. CASE top > 0
    <3>1. top - 1 \in 0 .. MaxStack BY <1>1, <2>1, MachineAssumption
    <3> QED BY <1>3, <2>1, <3>1, BoundMove DEF Pop
  <2>2. CASE ~(top > 0) BY <1>3, <2>2, BoundUndefined DEF Pop
  <2> QED BY <2>1, <2>2
<1>4. CASE GetLocal
  <2> DEFINE c == Slot(Instruction.arg)
  <2>1. CASE c \in Cell
    <3>1. ValueOK(stack[c]) /\ Push(stack[c]) BY <1>4, <2>1 DEF BoundInv, GetLocal
    <3> QED BY <3>1, BoundPush
  <2>2. CASE c \notin Cell BY <1>4, <2>2, BoundUndefined DEF GetLocal
  <2> QED BY <2>1, <2>2
<1>5. CASE SetLocal
  <2> DEFINE c == Slot(Instruction.arg)
  <2>1. CASE c \in Cell /\ top > 0
    <3>1. top - 1 \in Cell BY <1>1, <2>1, MachineAssumption DEF Cell
    <3>2. ValueOK(stack[top - 1]) BY <3>1 DEF BoundInv
    <3>3. GoOn([stack EXCEPT ![c] = stack[top - 1]], top) BY <1>5, <2>1 DEF SetLocal
    <3> HIDE DEF c
    <3> QED BY <1>1, <2>1, <3>2, <3>3, BoundWrite
  <2>2. CASE ~(c \in Cell /\ top > 0) BY <1>5, <2>2, BoundUndefined DEF SetLocal
  <2> QED BY <2>1, <2>2
<1>6. CASE GetGlobal
  <2>1. CASE Undefined BY <2>1, BoundUndefined
  <2>2. CASE Fail BY <2>2, BoundFail DEF Fail
  <2>3. CASE Name \in DOMAIN globals /\ Push(globals[Name])
    BY <2>3, BoundPush DEF BoundInv
  <2> QED BY <1>6, <2>1, <2>2, <2>3 DEF GetGlobal
<1> QED BY <1>2, <1>3, <1>4, <1>5, <1>6

LEMMA BoundSetGlobal == ASSUME BoundInv, SetGlobal PROVE BoundInv'
<1>1. CASE Undefined BY <1>1, BoundUndefined
<1>2. CASE Fail BY <1>2, BoundFail DEF Fail
<1>3. CASE /\ top \in Cell
           /\ globals' = [globals EXCEPT ![Name] = stack[top]] /\ frames' = Ahead
           /\ UNCHANGED <<stack, top, frameSize, cur, mode, outcome, printed, fails, opened>>
  <2>1. frames' \in [0 .. MaxFrame - 1 -> FrameType] BY <1>3, AheadIsTyped
  <2>2. MachineTypeOK' BY <1>3, <2>1, FramesAreTyped DEF BoundInv, MachineTypeOK
  <2>3. \A name \in DOMAIN globals' : ValueOK(globals'[name])
    <3>1. ValueOK(stack[top]) BY <1>3 DEF BoundInv
    <3> QED BY <1>3, <3>1 DEF BoundInv
  <2> QED BY <1>3, <2>1, <2>2, <2>3 DEF BoundInv
<1> QED BY <1>1, <1>2, <1>3 DEF SetGlobal

LEMMA BoundCall == ASSUME BoundInv, Call PROVE BoundInv'
<1>1. CASE Callee < 0 BY <1>1, BoundUndefined DEF Call
<1>2. CASE ~(Callee < 0)
  <2>1. Callee \in Cell /\ Callee + 1 \in 0 .. MaxStack /\ Callee \in 0 .. MaxStack
    <3>1. Instruction.arg \in Nat /\ top \in 0 .. MaxStack /\ MaxStack \in Nat
      BY InstructionIsTyped, MachineAssumption DEF BoundInv, MachineTypeOK
    <3>2. Callee = top - Instruction.arg - 1 BY DEF Callee
    <3> HIDE DEF Callee
    <3> QED BY <1>2, <3>1, <3>2 DEF Cell
  <2>2. CASE CallClock
    <3>1. ValueOK(Double(Clock)) BY DEF ValueOK, Double
    <3> QED BY <2>1, <2>2, <3>1, BoundWrite DEF CallClock
  <2>3. CASE CallPrint
    <3>1. CASE \E text : FailAfter(text) BY <3>1, BoundFail
    <3>2. CASE \E empty \in BOOLEAN :
                 /\ stack' = IF empty THEN stack ELSE [stack EXCEPT ![Callee] = Void]
                 /\ top' = IF empty THEN Callee ELSE Callee + 1
                 /\ frames' = Ahead
                 /\ UNCHANGED <<frameSize, cur, globals, mode, outcome, fails, opened>>
      <4>1. frames' \in [0 .. MaxFrame - 1 -> FrameType] BY <3>2, AheadIsTyped
      <4>2. DOMAIN stack' = Cell /\ \A c \in Cell : ValueOK(stack'[c])
        BY <2>1, <3>2 DEF BoundInv, MachineTypeOK, ValueOK, Void
      <4>3. top' \in 0 .. MaxStack BY <2>1, <3>2
      <4>4. MachineTypeOK'
        BY <3>2, <4>1, <4>2, <4>3, FramesAreTyped DEF BoundInv, MachineTypeOK
      <4> QED BY <3>2, <4>1, <4>2, <4>4 DEF BoundInv
    <3> QED BY <2>3, <3>1, <3>2 DEF CallPrint
  <2>4. CASE CallFunction
    <3>1. CASE Fail BY <3>1, BoundFail DEF Fail
    <3>2. CASE /\ frameSize # MaxFrame
               /\ frames' = [Ahead EXCEPT ![frameSize] = Frame(stack[Callee].val, Callee, "nobody")]
               /\ frameSize' = frameSize + 1 /\ opened' = opened + 1
               /\ UNCHANGED <<stack, top, cur, globals, mode, outcome, printed, fails>>
      <4>1. frameSize \in 0 .. MaxFrame - 1
        BY <3>2, MachineAssumption DEF BoundInv, MachineTypeOK
      <4>2. stack[Callee].val \in Chunks
        BY <2>1, <2>4 DEF CallFunction, BoundInv, ValueOK
      <4>3. Frame(stack[Callee].val, Callee, "nobody") \in FrameType
        BY <2>1, <4>2 DEF Frame, FrameType, Code, Owners
      <4>4. frames' \in [0 .. MaxFrame - 1 -> FrameType] BY <3>2, <4>3, AheadIsTyped
      <4>5. frameSize' \in 0 .. MaxFrame /\ opened' \in Nat
        BY <3>2, <4>1, MachineAssumption DEF BoundInv, MachineTypeOK
      <4>6. MachineTypeOK'
        BY <3>2, <4>4, <4>5, FramesAreTyped DEF BoundInv, MachineTypeOK
      <4> QED BY <3>2, <4>4, <4>6 DEF BoundInv
    <3> QED BY <2>4, <3>1, <3>2 DEF CallFunction
  <2>5. CASE CallOther BY <2>5, BoundFail DEF CallOther, Fail
  <2> QED BY <1>2, <2>2, <2>3, <2>4, <2>5 DEF Call
<1> QED BY <1>1, <1>2

LEMMA BoundReturn == ASSUME BoundInv, FrameInv, Return PROVE BoundInv'
<1>1. CASE top = 0 \/ Dangling BY <1>1, BoundUndefined DEF Return
<1>2. CASE ~(top = 0 \/ Dangling)
  <2>1. frameSize \in 1 .. MaxFrame
    BY MachineAssumption DEF FrameInv, LeftFrames, Return, Executing, BoundInv, MachineTypeOK
  <2>2. top - 1 \in Cell /\ ValueOK(stack[top - 1]) /\ top - 1 \in 0 .. MaxStack
    <3>1. top - 1 \in Cell /\ top - 1 \in 0 .. MaxStack
      BY <1>2, MachineAssumption DEF BoundInv, MachineTypeOK, Cell
    <3> QED BY <3>1 DEF BoundInv
  <2>3. frameSize' = frameSize - 1 /\ UNCHANGED <<cur, globals, printed, fails, opened>>
    BY <1>2 DEF Return
  <2>4. frameSize' \in 0 .. MaxFrame BY <2>1, <2>3, MachineAssumption
  <2>5. CASE frameSize = 1
    <3>1. /\ mode' = "idle" /\ outcome' = [code |-> "success", value |-> stack[top - 1]]
          /\ top' = top - 1 /\ frames' = Ahead /\ stack' = stack
      BY <1>2, <2>5 DEF Return
    <3>2. frames' \in [0 .. MaxFrame - 1 -> FrameType] BY <3>1, AheadIsTyped
    <3>3. outcome'.code = "success" BY <3>1
    <3>4. MachineTypeOK'
      BY <2>2, <2>3, <2>4, <3>1, <3>2, <3>3, FramesAreTyped DEF BoundInv, MachineTypeOK
    <3> QED BY <2>3, <3>1, <3>2, <3>4 DEF BoundInv
  <2>6. CASE frameSize # 1
    <3> DEFINE base == frames[cur].slots
    <3>1. /\ stack' = [stack EXCEPT ![base] = stack[top - 1]] /\ top' = base + 1
          /\ frames' = [Ahead EXCEPT ![cur] = Ahead[frameSize - 2]]
          /\ UNCHANGED <<mode, outcome>>
      BY <1>2, <2>6 DEF Return
    <3>2. base \in Cell BY InstructionIsTyped DEF FrameType
    <3>3. top' \in 0 .. MaxStack BY <3>1, <3>2, MachineAssumption DEF Cell
    <3>4. frames' \in [0 .. MaxFrame - 1 -> FrameType]
      <4>1. frameSize - 2 \in 0 .. MaxFrame - 1 BY <2>1, <2>6, MachineAssumption
      <4>2. Ahead[frameSize - 2] \in FrameType BY <4>1, AheadIsTyped
      <4> QED BY <3>1, <4>2, AheadIsTyped
    <3>5. DOMAIN stack' = Cell /\ \A c \in Cell : ValueOK(stack'[c])
      <4> HIDE DEF base
      <4> QED BY <2>2, <3>1, <3>2 DEF BoundInv, MachineTypeOK
    <3>6. MachineTypeOK'
      BY <2>3, <2>4, <3>1, <3>3, <3>4, <3>5, FramesAreTyped DEF BoundInv, MachineTypeOK
    <3> QED BY <2>3, <3>4, <3>5, <3>6 DEF BoundInv
  <2> QED BY <2>5, <2>6
<1> QED BY <1>1, <1>2

LEMMA BoundClean == ASSUME BoundInv, CleanPlan PROVE BoundInv'
<1>1. /\ frames' = [f \in DOMAIN frames |->
                    IF frames[f].owner = "plan" THEN [frames[f] EXCEPT !.owner = "freed"] ELSE frames[f]]
      /\ UNCHANGED <<stack, top, frameSize, cur, globals, mode, outcome, printed, fails, opened>>
  BY DEF CleanPlan
<1>2. frames' \in [0 .. MaxFrame - 1 -> FrameType]
  <2>1. frames \in [0 .. MaxFrame - 1 -> FrameType] BY DEF BoundInv
  <2>2. \A x \in FrameType : [x EXCEPT !.owner = "freed"] \in FrameType BY DEF FrameType, Owners
  <2> QED BY <1>1, <2>1, <2>2
<1>3. MachineTypeOK' BY <1>1, <1>2, FramesAreTyped DEF BoundInv, MachineTypeOK
<1> QED BY <1>1, <1>2, <1>3 DEF BoundInv

LEMMA BoundStep == ASSUME BoundInv, FrameInv, MachineStep PROVE BoundInv'
BY BoundSimple, BoundBinary, BoundSetGlobal, BoundCall, BoundReturn DEF MachineStep

(* The lambda of the query that is scanned is a chunk.                      *)
ScriptInv == HasScript => Script.chunk \in Chunks

LEMMA ScriptNext == ASSUME ScriptInv, [Next]_vars PROVE ScriptInv'
<1>1. CASE \E q \in First \cup Later : query' = q
  BY <1>1, ScriptAssumption DEF ScriptInv, HasScript, Script
<1>2. CASE query' = query BY <1>2 DEF ScriptInv, HasScript, Script
<1>3. ASSUME NEW found, Report(found) PROVE query' = query
  BY <1>3 DEF Report, scan
<1>4. \/ \E q \in First \cup Later : query' = q
      \/ query' = query
  BY <1>3 DEF Next, Start, RunScript, RunStep, JudgeVertex, JudgeEdge, EndScan, vars, scan
<1> QED BY <1>1, <1>2, <1>4

BoundAll == BoundInv /\ FrameInv /\ ScriptInv

LEMMA BoundNext == ASSUME BoundAll, [Next]_vars PROVE BoundAll'
<1>1. ASSUME HasScript, Interpret(Script.chunk) PROVE BoundInv'
  BY <1>1, BoundInterpret DEF BoundAll, ScriptInv
<1>2. BoundInv'
  BY <1>1, MachineSteps, BoundIdle, BoundStep, BoundClean, BoundUndefined DEF BoundAll
<1> QED BY <1>2, FramesNext, ScriptNext DEF BoundAll

LEMMA MachineInits == Init => BoundAll
<1>1. ASSUME Init PROVE ScriptInv
  <2>1. query = [kind |-> "vertex", tokens |-> <<>>, script |-> NoScript] BY <1>1 DEF Init
  <2>2. query.script = NoScript BY <2>1
  <2> QED BY <2>2 DEF ScriptInv, HasScript, Script
<1> QED BY <1>1, BoundInit, FramesInit DEF Init, BoundAll

(* The pointers of the machine stay within the stack and the frames until  *)
(* something undefined is reached (GVM.cpp:184-294), for every lambda.     *)
THEOREM MachineStaysInBounds == Spec => []MachineTypeOK
<1>1. BoundAll => MachineTypeOK BY DEF BoundAll, BoundInv
<1> QED BY <1>1, MachineInits, BoundNext, PTL DEF Spec

-------------------------------------------------------------------------------
(* The rows a scan reports.                                                *)

ReportInv ==
  /\ row \in Nat \ {0}
  /\ \E S : answers \in Seq(S)
  /\ \E S : asked \in Seq(S)
  /\ RowsReported

LEMMA ReportInit == Init => ReportInv
<1> SUFFICES ASSUME Init PROVE ReportInv OBVIOUS
<1>1. row = 1 /\ answers = <<>> /\ asked = <<>> BY DEF Init
<1>2. answers \in Seq({}) /\ asked \in Seq({}) /\ DOMAIN answers = {} BY <1>1
<1>3. RowsReported BY <1>1, <1>2 DEF RowsReported
<1> QED BY <1>1, <1>2, <1>3 DEF ReportInv

LEMMA AppendIsNotEmpty ==
  ASSUME NEW S, NEW s \in Seq(S), NEW e
  PROVE  /\ Append(s, e) \in Seq(S \cup {e}) /\ Append(s, e) # <<>>
         /\ DOMAIN s = 1 .. Len(s) /\ Len(s) \in Nat
         /\ DOMAIN Append(s, e) = 1 .. Len(s) + 1
         /\ \A n \in 1 .. Len(s) : Append(s, e)[n] = s[n]
         /\ Append(s, e)[Len(s) + 1] = e
<1>1. s \in Seq(S \cup {e}) OBVIOUS
<1> QED BY <1>1, AppendProperties

(* The steps that leave the rows alone.                                    *)
LEMMA ReportQuiet ==
  ASSUME ReportInv, UNCHANGED <<query, clause, row, answers, asked>>,
         phase' = "done" => phase = "done" \/ row > Len(Rows)
  PROVE  ReportInv'
<1>1. \A i : Judged(i)' = Judged(i) BY DEF Judged
<1>2. Rows' = Rows BY DEF Rows
<1> QED BY <1>1, <1>2 DEF ReportInv, RowsReported

LEMMA ReportStart == ASSUME NEW q, ReportInv, Start(q) PROVE ReportInv'
<1>1. row' = 1 /\ answers' = <<>> /\ asked' = Append(asked, q) /\ query' = q BY DEF Start
<1>2. \E S : asked' \in Seq(S) BY <1>1, AppendIsNotEmpty DEF ReportInv
<1>3. answers' \in Seq({}) /\ DOMAIN answers' = {} BY <1>1
<1>4. phase' = "done" => query'.kind = "edge" /\ Len(clause'.edges) > 1 BY DEF Start
<1>5. RowsReported' BY <1>1, <1>3, <1>4 DEF RowsReported
<1> QED BY <1>1, <1>2, <1>3, <1>5 DEF ReportInv

LEMMA ReportRow ==
  ASSUME NEW found, ReportInv, Report(found), found = Judged(row)
  PROVE  ReportInv'
<1>1. CASE found = "undefined"
  <2>1. UNCHANGED <<query, clause, row, answers, asked, phase>> BY <1>1 DEF Report, scan
  <2> QED BY <2>1, ReportQuiet
<1>2. CASE found # "undefined"
  <2>1. /\ answers' = IF found = "no" THEN answers ELSE Append(answers, [row |-> row, status |-> found])
        /\ row' = row + 1 /\ phase' = "begin" /\ UNCHANGED <<query, clause, asked>>
    BY <1>2 DEF Report
  <2>2. row \in Nat \ {0} /\ row' \in Nat \ {0} /\ 1 .. row' - 1 = (1 .. row - 1) \cup {row}
    BY <2>1 DEF ReportInv
  <2>3. \A i : Judged(i)' = Judged(i) BY <2>1 DEF Judged
  <2>4. CASE found = "no" BY <2>1, <2>2, <2>3, <2>4 DEF ReportInv, RowsReported
  <2>5. CASE found # "no"
    <3> DEFINE e == [row |-> row, status |-> found]
    <3>1. PICK S : answers \in Seq(S) BY DEF ReportInv
    <3>2. answers' = Append(answers, e) BY <2>1, <2>5
    <3>3. /\ answers' \in Seq(S \cup {e}) /\ Len(answers) \in Nat
          /\ DOMAIN answers = 1 .. Len(answers) /\ DOMAIN answers' = 1 .. Len(answers) + 1
          /\ \A n \in DOMAIN answers : answers'[n] = answers[n]
          /\ answers'[Len(answers) + 1] = e
      <4> HIDE DEF e
      <4> QED BY <3>1, <3>2, AppendIsNotEmpty
    <3>4. e.row = row /\ e.status = Judged(row) OBVIOUS
    <3> HIDE DEF e
    <3>5. \A n \in DOMAIN answers : answers[n].row \in 1 .. row - 1 /\ Judged(answers[n].row) = answers[n].status
      BY DEF ReportInv, RowsReported
    <3>6. (\A n \in DOMAIN answers :
             answers[n].row \in 1 .. row - 1 /\ Judged(answers[n].row) = answers[n].status)'
      <4> SUFFICES ASSUME NEW n \in DOMAIN answers'
                   PROVE  (answers[n].row \in 1 .. row - 1 /\ Judged(answers[n].row) = answers[n].status)'
        OBVIOUS
      <4>1. CASE n \in DOMAIN answers
        <5>1. answers'[n] = answers[n] /\ answers'[n].row \in 1 .. row' - 1
          BY <2>2, <3>3, <3>5, <4>1
        <5> QED BY <2>1, <3>5, <4>1, <5>1 DEF Judged
      <4>2. CASE n = Len(answers) + 1
        <5>1. answers'[n] = e /\ answers'[n].row \in 1 .. row' - 1
          BY <2>2, <3>3, <3>4, <4>2
        <5> QED BY <2>1, <3>4, <5>1 DEF Judged
      <4> QED BY <3>3, <4>1, <4>2
    <3>7. \A m, n \in DOMAIN answers' : m < n => answers'[m].row < answers'[n].row
      <4> TAKE m, n \in DOMAIN answers'
      <4> HAVE m < n
      <4>1. m \in DOMAIN answers /\ answers'[m] = answers[m] BY <3>3
      <4>2. CASE n \in DOMAIN answers BY <3>3, <4>1, <4>2 DEF ReportInv, RowsReported
      <4>3. CASE n = Len(answers) + 1 BY <2>2, <3>3, <3>4, <3>5, <4>1, <4>3
      <4> QED BY <3>3, <4>2, <4>3
    <3>8. \A i \in 1 .. row' - 1 :
            Judged(i)' # "no" => \E n \in DOMAIN answers' : answers'[n].row = i
      <4> TAKE i \in 1 .. row' - 1
      <4>1. CASE i = row BY <3>3, <3>4, <4>1
      <4>2. CASE i \in 1 .. row - 1 BY <2>3, <3>3, <4>2 DEF ReportInv, RowsReported
      <4> QED BY <2>2, <4>1, <4>2
    <3>9. RowsReported' BY <2>1, <3>6, <3>7, <3>8 DEF RowsReported
    <3> QED BY <2>1, <2>2, <3>3, <3>9 DEF ReportInv
  <2> QED BY <2>4, <2>5
<1> QED BY <1>1, <1>2

LEMMA ReportNext == ASSUME ReportInv, [Next]_vars PROVE ReportInv'
<1>1. CASE \E q \in First \cup Later : Start(q) BY <1>1, ReportStart
<1>2. CASE RunScript
  <2>1. UNCHANGED <<query, clause, row, answers, asked>> /\ phase' # "done" BY <1>2 DEF RunScript
  <2> QED BY <2>1, ReportQuiet
<1>3. CASE RunStep BY <1>3, ReportQuiet DEF RunStep, scan
<1>4. CASE JudgeVertex
  <2>1. PredictVertex(clause, Rows[row].key, Rows[row].attrs) = Judged(row)
    BY <1>4 DEF JudgeVertex, Rows, Judged
  <2> QED BY <1>4, <2>1, ReportRow DEF JudgeVertex
<1>5. CASE JudgeEdge
  <2>1. PredictEdge(MakeEdgeId(Rows[row].directed, Rows[row].from, Rows[row].to), clause.edges) = Judged(row)
    BY <1>5 DEF JudgeEdge, Rows, Judged
  <2> QED BY <1>5, <2>1, ReportRow DEF JudgeEdge
<1>6. CASE EndScan BY <1>6, ReportQuiet DEF EndScan
<1>7. CASE UNCHANGED vars BY <1>7, ReportQuiet DEF vars, scan
<1> QED BY <1>1, <1>2, <1>3, <1>4, <1>5, <1>6, <1>7 DEF Next

(* Every row is judged and reported once, in order, whatever the lambda    *)
(* does to the machine between the rows (ScanPlan.cpp:191-240).            *)
THEOREM EveryRowReportedOnce == Spec => []RowsReported
<1>1. ReportInv => RowsReported BY DEF ReportInv
<1> QED BY <1>1, ReportInit, ReportNext, PTL DEF Spec

-------------------------------------------------------------------------------
(* What an id tells of its ends.                                           *)

EndType(S) == [type : {"str", "int"}, v : Seq(S)]

LEMMA TakeBack ==
  ASSUME NEW S, NEW s \in Seq(S), NEW t \in Seq(S)
  PROVE  /\ SubSeq(s \o t, 1, Len(s)) = s
         /\ SubSeq(s \o t, Len(s) + 1, Len(s \o t)) = t
         /\ SubSeq(s, 1, Len(s)) = s
<1> DEFINE u == s \o t
<1>1. /\ u \in Seq(S) /\ Len(u) = Len(s) + Len(t) /\ Len(s) \in Nat /\ Len(t) \in Nat
      /\ \A i \in 1 .. Len(u) : u[i] = IF i <= Len(s) THEN s[i] ELSE t[i - Len(s)]
  BY ConcatProperties
<1> HIDE DEF u
<1>2. SubSeq(u, 1, Len(s)) = s
  <2>1. \A i \in 1 .. Len(s) : u[i] \in S BY <1>1
  <2>2. /\ SubSeq(u, 1, Len(s)) \in Seq(S) /\ Len(SubSeq(u, 1, Len(s))) = Len(s)
        /\ \A i \in 1 .. Len(s) : SubSeq(u, 1, Len(s))[i] = s[i]
    BY <1>1, <2>1, SubSeqProperties
  <2> HIDE DEF u
  <2> QED BY <2>2, SeqEqual
<1>3. SubSeq(u, Len(s) + 1, Len(u)) = t
  <2>1. \A i \in Len(s) + 1 .. Len(u) : u[i] \in S BY <1>1
  <2>2. /\ SubSeq(u, Len(s) + 1, Len(u)) \in Seq(S)
        /\ Len(SubSeq(u, Len(s) + 1, Len(u))) = Len(t)
        /\ \A i \in 1 .. Len(t) : SubSeq(u, Len(s) + 1, Len(u))[i] = u[Len(s) + i]
    BY <1>1, <2>1, SubSeqProperties
  <2>3. ASSUME NEW i \in 1 .. Len(t) PROVE SubSeq(u, Len(s) + 1, Len(u))[i] = t[i]
    <3>1. u[Len(s) + i] = t[i] BY <1>1
    <3> QED BY <2>2, <3>1
  <2> QED BY <2>2, <2>3, SeqEqual
<1> QED BY <1>2, <1>3, SubSeqFull DEF u

LEMMA ModSmall == ASSUME NEW a \in Nat, NEW b \in Nat \ {0}, a < b PROVE a % b = a
OBVIOUS

LEMMA ModBounds ==
  ASSUME NEW a \in Nat, NEW b \in Nat \ {0} PROVE a % b \in Nat /\ a % b < b /\ a % b <= a
OBVIOUS

(* An id gives back both ends, as long as the length of the start fits its *)
(* bits (gutil.cpp:198-247 and 310-323).                                   *)
THEOREM DecodingGivesBack ==
  ASSUME NEW S, NEW directed \in BOOLEAN, NEW from \in EndType(S), NEW to \in EndType(S),
         Len(from.v) < FromLens
  PROVE  LET id == MakeEdgeId(directed, from, to) IN
         id.direction = directed /\ GetFrom(id) = from /\ GetTo(id) = to
<1> DEFINE id == MakeEdgeId(directed, from, to)
<1>1. from.v \in Seq(S) /\ to.v \in Seq(S) /\ Len(from.v) \in Nat BY DEF EndType
<1>2. FromLen(from) = Len(from.v) BY <1>1, EdgeIdAssumption, ModSmall DEF FromLen
<1>3. id.value = from.v \o to.v /\ id.fromLen = Len(from.v)
  <2>1. SubSeq(from.v, 1, Len(from.v)) = from.v BY <1>1, SubSeqFull
  <2> QED BY <1>2, <2>1 DEF MakeEdgeId
<1>4. id.direction = directed /\ id.fromType = from.type /\ id.toType = to.type BY DEF MakeEdgeId
<1>5. from = [type |-> from.type, v |-> from.v] /\ to = [type |-> to.type, v |-> to.v]
  BY DEF EndType
<1> HIDE DEF id
<1>6. GetFrom(id) = from BY <1>1, <1>3, <1>4, <1>5, TakeBack DEF GetFrom
<1>7. GetTo(id) = to BY <1>1, <1>3, <1>4, <1>5, TakeBack DEF GetTo
<1> QED BY <1>4, <1>6, <1>7 DEF id

(* A start that is too long comes back shorter: no id tells it from the    *)
(* end that begins with its bytes (gutil.h:49, gutil.cpp:205).             *)
THEOREM LongStartsAreCut ==
  ASSUME NEW S, NEW directed, NEW from \in EndType(S), NEW to \in EndType(S),
         Len(from.v) >= FromLens
  PROVE  LET id == MakeEdgeId(directed, from, to) IN
         Len(GetFrom(id).v) < FromLens /\ GetFrom(id) # from
<1> DEFINE id == MakeEdgeId(directed, from, to)
           n == FromLen(from)
<1>1. from.v \in Seq(S) /\ to.v \in Seq(S) /\ Len(from.v) \in Nat BY DEF EndType
<1>2. n \in Nat /\ n < FromLens /\ n <= Len(from.v)
  <2>1. FromLens \in Nat \ {0} /\ Len(from.v) \in Nat BY <1>1, EdgeIdAssumption
  <2> QED BY <2>1, ModBounds DEF FromLen
<1>3. id.fromLen = n /\ id.value = SubSeq(from.v, 1, n) \o to.v BY DEF MakeEdgeId
<1> HIDE DEF id, n
<1>4. SubSeq(from.v, 1, n) \in Seq(S) /\ Len(SubSeq(from.v, 1, n)) = n
  BY <1>1, <1>2, EdgeIdAssumption, SubSeqProperties
<1>5. Len(SubSeq(id.value, 1, id.fromLen)) = n
  BY <1>1, <1>3, <1>4, TakeBack
<1>6. Len(GetFrom(id).v) = n BY <1>5 DEF GetFrom
<1>7. GetFrom(id) # from BY <1>2, <1>6, EdgeIdAssumption
<1> QED BY <1>2, <1>6, <1>7 DEF id

-------------------------------------------------------------------------------
(* FoldLeft goes through a sequence, one element after the other.          *)

LEMMA LastOf ==
  ASSUME NEW s, NEW m \in s, s \subseteq Nat, \A x \in s : x <= m
  PROVE  Max(s) = m
<1>1. m \in s /\ \A y \in s : m >= y OBVIOUS
<1>2. Max(s) \in s /\ \A y \in s : Max(s) >= y BY <1>1 DEF Max
<1>3. Max(s) \in Nat /\ m \in Nat /\ Max(s) >= m /\ Max(s) <= m BY <1>1, <1>2
<1> QED BY <1>3

LEMMA MaxIsElement ==
  ASSUME NEW n \in Nat, NEW s, s \subseteq 1 .. n, s # {}
  PROVE  Max(s) \in s
<1> DEFINE F == {n - x : x \in s}
<1>1. F \in SUBSET Nat /\ F # {}
  <2>1. \A x \in s : n - x \in Nat OBVIOUS
  <2>2. \E x \in s : n - x \in F OBVIOUS
  <2> QED BY <2>1, <2>2
<1>2. PICK y \in F : \A z \in F : y <= z BY <1>1, Least
<1>3. PICK m \in s : y = n - m BY <1>2
<1>4. \A x \in s : m >= x
  <2> TAKE x \in s
  <2>1. n - x \in F OBVIOUS
  <2> QED BY <1>2, <1>3, <2>1
<1> QED BY <1>4 DEF Max

Folds(it, S, b, n, f) ==
  /\ it \in [SUBSET (1 .. n) -> S]
  /\ \A s \in SUBSET (1 .. n) : it[s] = IF s = {} THEN b ELSE f[<<Max(s), it[s \ {Max(s)}]>>]

LEMMA FoldExists ==
  ASSUME NEW S, NEW b \in S, NEW n \in Nat, NEW f \in Steps(S, n)
  PROVE  \E it : Folds(it, S, b, n, f)
<1> DEFINE T == {m \in 0 .. n : \E it : Folds(it, S, b, m, f)}
<1>1. 0 \in T
  <2> DEFINE it == [s \in SUBSET (1 .. 0) |-> b]
  <2>1. SUBSET (1 .. 0) = {{}} OBVIOUS
  <2>2. it \in [SUBSET (1 .. 0) -> S] /\ it[{}] = b BY <2>1
  <2> HIDE DEF it
  <2>3. Folds(it, S, b, 0, f) BY <2>1, <2>2 DEF Folds
  <2> QED BY <2>3
<1>2. ASSUME NEW m \in 0 .. n - 1, m \in T PROVE m + 1 \in T
  <2>1. PICK it : Folds(it, S, b, m, f) BY <1>2
  <2> DEFINE k == m + 1
             D == SUBSET (1 .. k)
             E == SUBSET (1 .. m)
             h == [s \in D |-> IF k \in s THEN f[<<k, it[s \ {k}]>>] ELSE it[s]]
  <2>2. m \in Nat /\ k \in 1 .. n /\ k \in Nat /\ k = m + 1 OBVIOUS
  <2> HIDE DEF k
  <2>3. \A s \in D : s \ {k} \in E /\ (k \notin s => s \in E) BY <2>2
  <2>4. h \in [D -> S]
    <3> SUFFICES ASSUME NEW s \in D PROVE h[s] \in S OBVIOUS
    <3>1. it \in [E -> S] BY <2>1 DEF Folds
    <3>2. CASE k \in s
      <4>1. it[s \ {k}] \in S BY <2>3, <3>1
      <4> QED BY <2>2, <3>2, <4>1 DEF Steps
    <3> QED BY <2>3, <3>1, <3>2
  <2>5. ASSUME NEW s \in D PROVE h[s] = IF s = {} THEN b ELSE f[<<Max(s), h[s \ {Max(s)}]>>]
    <3>1. CASE k \in s
      <4>1. Max(s) = k
        <5>1. s \subseteq Nat /\ \A x \in s : x <= k BY <2>2
        <5> QED BY <3>1, <5>1, LastOf
      <4>2. h[s \ {k}] = it[s \ {k}] BY <2>3
      <4> QED BY <3>1, <4>1, <4>2
    <3>2. CASE k \notin s
      <4>1. s \in E /\ h[s] = it[s] BY <2>3, <3>2
      <4>2. it[s] = IF s = {} THEN b ELSE f[<<Max(s), it[s \ {Max(s)}]>>] BY <2>1, <4>1 DEF Folds
      <4>3. s \ {Max(s)} \in D /\ k \notin s \ {Max(s)} BY <3>2
      <4>4. h[s \ {Max(s)}] = it[s \ {Max(s)}] BY <4>3
      <4> QED BY <4>1, <4>2, <4>4
    <3> QED BY <3>1, <3>2
  <2> HIDE DEF h
  <2>6. Folds(h, S, b, k, f) BY <2>4, <2>5 DEF Folds
  <2> QED BY <2>2, <2>6 DEF k
<1>3. n \in T
  <2> HIDE DEF T
  <2>1. 0 .. n \subseteq T BY <1>1, <1>2, UpTo
  <2> QED BY <2>1
<1> QED BY <1>3

(* What such a fold is on the places up to k.                              *)
LEMMA FoldOfFirst ==
  ASSUME NEW n \in Nat, NEW k \in 1 .. n
  PROVE  /\ 1 .. k \in SUBSET (1 .. n) /\ 1 .. k # {} /\ Max(1 .. k) = k
         /\ (1 .. k) \ {k} = 1 .. (k - 1) /\ 1 .. 0 = {}
<1>1. Max(1 .. k) = k
  <2>1. k \in 1 .. k /\ 1 .. k \subseteq Nat /\ \A x \in 1 .. k : x <= k OBVIOUS
  <2> QED BY <2>1, LastOf
<1> QED BY <1>1

-------------------------------------------------------------------------------
(* parseConditions meets the tokens one by one. *)
ParseFrom(v, tokens) == FoldLeft(Visit, v, tokens)
VisitsTo(v, tokens, u) ==
  u[0] = v /\ \A k \in 1 .. Len(tokens) : u[k] = Visit(u[k - 1], tokens[k])

LEMMA ParsesOneByOne ==
  ASSUME NEW S, NEW T, NEW v \in S, NEW tokens \in Seq(T),
         \A w \in S, t \in T : Visit(w, t) \in S
  PROVE  \E u : VisitsTo(v, tokens, u) /\ ParseFrom(v, tokens) = u[Len(tokens)]
<1> DEFINE n == Len(tokens)
           P(z) == z = [s \in SUBSET (1 .. n) |->
                          IF s = {} THEN v ELSE Visit(z[s \ {Max(s)}], tokens[Max(s)])]
           z == CHOOSE h : P(h)
           f == [x \in (1 .. n) \X S |-> Visit(x[2], tokens[x[1]])]
<1>1. n \in Nat /\ DOMAIN tokens = 1 .. n /\ \A k \in 1 .. n : tokens[k] \in T OBVIOUS
<1>2. f \in Steps(S, n) /\ \A k \in 1 .. n, y \in S : f[<<k, y>>] = Visit(y, tokens[k])
  <2>1. \A x \in (1 .. n) \X S : Visit(x[2], tokens[x[1]]) \in S BY <1>1
  <2> QED BY <2>1 DEF Steps
<1> HIDE DEF f
<1>3. ParseFrom(v, tokens) = z[1 .. n]
  BY <1>1 DEF ParseFrom, FoldLeft, MapThenFoldSet
<1> HIDE DEF n
<1>4. \E h : P(h)
  <2>1. PICK h : Folds(h, S, v, n, f) BY <1>1, <1>2, FoldExists
  <2>2. h = [s \in SUBSET (1 .. n) |-> h[s]] BY <2>1 DEF Folds
  <2>3. ASSUME NEW s \in SUBSET (1 .. n), s # {}
        PROVE  h[s] = Visit(h[s \ {Max(s)}], tokens[Max(s)])
    <3>1. Max(s) \in 1 .. n BY <1>1, <2>3, MaxIsElement
    <3>2. h[s \ {Max(s)}] \in S BY <2>1 DEF Folds
    <3>3. h[s] = f[<<Max(s), h[s \ {Max(s)}]>>] BY <2>1, <2>3 DEF Folds
    <3> QED BY <1>2, <3>1, <3>2, <3>3
  <2>4. h[{}] = v BY <2>1 DEF Folds
  <2>5. \A s \in SUBSET (1 .. n) :
          h[s] = IF s = {} THEN v ELSE Visit(h[s \ {Max(s)}], tokens[Max(s)])
    BY <2>3, <2>4
  <2>6. P(h) BY <2>2, <2>5, Zenon
  <2> QED BY <2>6
<1>5. P(z)
  <2> HIDE DEF P
  <2> QED BY <1>4
<1> HIDE DEF z
<1>6. \A s \in SUBSET (1 .. n) :
        z[s] = IF s = {} THEN v ELSE Visit(z[s \ {Max(s)}], tokens[Max(s)])
  BY <1>5, Zenon
<1> HIDE DEF P
<1> DEFINE u == [k \in 0 .. n |-> z[1 .. k]]
<1>7. u[0] = v /\ u[n] = z[1 .. n]
  <2>1. 0 \in 0 .. n /\ n \in 0 .. n /\ 1 .. 0 = {} /\ {} \in SUBSET (1 .. n) BY <1>1
  <2>2. z[{}] = v BY <1>6, <2>1
  <2> QED BY <2>1, <2>2
<1>8. \A k \in 1 .. n : u[k] = Visit(u[k - 1], tokens[k])
  <2> TAKE k \in 1 .. n
  <2>1. k \in 0 .. n /\ k - 1 \in 0 .. n BY <1>1
  <2>2. z[1 .. k] = Visit(z[(1 .. k) \ {Max(1 .. k)}], tokens[Max(1 .. k)])
    BY <1>1, <1>6, FoldOfFirst
  <2>3. z[1 .. k] = Visit(z[1 .. (k - 1)], tokens[k]) BY <1>1, <2>2, FoldOfFirst
  <2> QED BY <2>1, <2>3
<1> HIDE DEF u
<1>9. VisitsTo(v, tokens, u) BY <1>7, <1>8 DEF VisitsTo, n
<1> QED BY <1>3, <1>7, <1>9 DEF n

(* The values of a name, one by one. *)
NamedFrom(v, tokens, i) == LET add(u, lit) == AddEqual(u, lit, i) IN FoldLeft(add, v, tokens)
NamesTo(v, tokens, i, u) ==
  u[0] = v /\ \A k \in 1 .. Len(tokens) : u[k] = AddEqual(u[k - 1], tokens[k], i)
NamedRun(v, tokens, i) == \E u : NamesTo(v, tokens, i, u) /\ NamedFrom(v, tokens, i) = u[Len(tokens)]
NamedClosed(S, T, i) == \A w \in S, t \in T : AddEqual(w, t, i) \in S

LEMMA NamesOneByOne ==
  ASSUME NEW S, NEW T, NEW v \in S, NEW tokens \in Seq(T), NEW i,
         NamedClosed(S, T, i)
  PROVE  NamedRun(v, tokens, i)
<1> DEFINE n == Len(tokens)
           P(z) == z = [s \in SUBSET (1 .. n) |->
                          IF s = {} THEN v ELSE AddEqual(z[s \ {Max(s)}], tokens[Max(s)], i)]
           z == CHOOSE h : P(h)
           f == [x \in (1 .. n) \X S |-> AddEqual(x[2], tokens[x[1]], i)]
<1>1. n \in Nat /\ DOMAIN tokens = 1 .. n /\ \A k \in 1 .. n : tokens[k] \in T OBVIOUS
<1>2. f \in Steps(S, n) /\ \A k \in 1 .. n, y \in S : f[<<k, y>>] = AddEqual(y, tokens[k], i)
  <2>1. \A x \in (1 .. n) \X S : AddEqual(x[2], tokens[x[1]], i) \in S BY <1>1 DEF NamedClosed
  <2> QED BY <2>1 DEF Steps
<1> HIDE DEF f
<1>3. NamedFrom(v, tokens, i) = z[1 .. n]
  BY <1>1 DEF NamedFrom, FoldLeft, MapThenFoldSet
<1> HIDE DEF n
<1>4. \E h : P(h)
  <2>1. PICK h : Folds(h, S, v, n, f) BY <1>1, <1>2, FoldExists
  <2>2. h = [s \in SUBSET (1 .. n) |-> h[s]] BY <2>1 DEF Folds
  <2>3. ASSUME NEW s \in SUBSET (1 .. n), s # {}
        PROVE  h[s] = AddEqual(h[s \ {Max(s)}], tokens[Max(s)], i)
    <3>1. Max(s) \in 1 .. n BY <1>1, <2>3, MaxIsElement
    <3>2. h[s \ {Max(s)}] \in S BY <2>1 DEF Folds
    <3>3. h[s] = f[<<Max(s), h[s \ {Max(s)}]>>] BY <2>1, <2>3 DEF Folds
    <3> QED BY <1>2, <3>1, <3>2, <3>3
  <2>4. h[{}] = v BY <2>1 DEF Folds
  <2>5. \A s \in SUBSET (1 .. n) :
          h[s] = IF s = {} THEN v ELSE AddEqual(h[s \ {Max(s)}], tokens[Max(s)], i)
    BY <2>3, <2>4
  <2>6. P(h) BY <2>2, <2>5, Zenon
  <2> QED BY <2>6
<1>5. P(z)
  <2> HIDE DEF P
  <2> QED BY <1>4
<1> HIDE DEF z
<1>6. \A s \in SUBSET (1 .. n) :
        z[s] = IF s = {} THEN v ELSE AddEqual(z[s \ {Max(s)}], tokens[Max(s)], i)
  BY <1>5, Zenon
<1> HIDE DEF P
<1> DEFINE u == [k \in 0 .. n |-> z[1 .. k]]
<1>7. u[0] = v /\ u[n] = z[1 .. n]
  <2>1. 0 \in 0 .. n /\ n \in 0 .. n /\ 1 .. 0 = {} /\ {} \in SUBSET (1 .. n) BY <1>1
  <2>2. z[{}] = v BY <1>6, <2>1
  <2> QED BY <2>1, <2>2
<1>8. \A k \in 1 .. n : u[k] = AddEqual(u[k - 1], tokens[k], i)
  <2> TAKE k \in 1 .. n
  <2>1. k \in 0 .. n /\ k - 1 \in 0 .. n BY <1>1
  <2>2. z[1 .. k] = AddEqual(z[(1 .. k) \ {Max(1 .. k)}], tokens[Max(1 .. k)], i)
    BY <1>1, <1>6, FoldOfFirst
  <2>3. z[1 .. k] = AddEqual(z[1 .. (k - 1)], tokens[k], i) BY <1>1, <2>2, FoldOfFirst
  <2> QED BY <2>1, <2>3
<1> HIDE DEF u
<1>9. NamesTo(v, tokens, i, u) BY <1>7, <1>8 DEF NamesTo, n
<1> QED BY <1>3, <1>7, <1>9 DEF NamedRun, n

(* A walk, token by token. *)
WalkFrom(v, tokens) == FoldLeft(WalkStep, v, tokens)
WalksTo(v, tokens, u) ==
  u[0] = v /\ \A k \in 1 .. Len(tokens) : u[k] = WalkStep(u[k - 1], tokens[k])

LEMMA WalksOneByOne ==
  ASSUME NEW S, NEW T, NEW v \in S, NEW tokens \in Seq(T),
         \A w \in S, t \in T : WalkStep(w, t) \in S
  PROVE  \E u : WalksTo(v, tokens, u) /\ WalkFrom(v, tokens) = u[Len(tokens)]
<1> DEFINE n == Len(tokens)
           P(z) == z = [s \in SUBSET (1 .. n) |->
                          IF s = {} THEN v ELSE WalkStep(z[s \ {Max(s)}], tokens[Max(s)])]
           z == CHOOSE h : P(h)
           f == [x \in (1 .. n) \X S |-> WalkStep(x[2], tokens[x[1]])]
<1>1. n \in Nat /\ DOMAIN tokens = 1 .. n /\ \A k \in 1 .. n : tokens[k] \in T OBVIOUS
<1>2. f \in Steps(S, n) /\ \A k \in 1 .. n, y \in S : f[<<k, y>>] = WalkStep(y, tokens[k])
  <2>1. \A x \in (1 .. n) \X S : WalkStep(x[2], tokens[x[1]]) \in S BY <1>1
  <2> QED BY <2>1 DEF Steps
<1> HIDE DEF f
<1>3. WalkFrom(v, tokens) = z[1 .. n]
  BY <1>1 DEF WalkFrom, FoldLeft, MapThenFoldSet
<1> HIDE DEF n
<1>4. \E h : P(h)
  <2>1. PICK h : Folds(h, S, v, n, f) BY <1>1, <1>2, FoldExists
  <2>2. h = [s \in SUBSET (1 .. n) |-> h[s]] BY <2>1 DEF Folds
  <2>3. ASSUME NEW s \in SUBSET (1 .. n), s # {}
        PROVE  h[s] = WalkStep(h[s \ {Max(s)}], tokens[Max(s)])
    <3>1. Max(s) \in 1 .. n BY <1>1, <2>3, MaxIsElement
    <3>2. h[s \ {Max(s)}] \in S BY <2>1 DEF Folds
    <3>3. h[s] = f[<<Max(s), h[s \ {Max(s)}]>>] BY <2>1, <2>3 DEF Folds
    <3> QED BY <1>2, <3>1, <3>2, <3>3
  <2>4. h[{}] = v BY <2>1 DEF Folds
  <2>5. \A s \in SUBSET (1 .. n) :
          h[s] = IF s = {} THEN v ELSE WalkStep(h[s \ {Max(s)}], tokens[Max(s)])
    BY <2>3, <2>4
  <2>6. P(h) BY <2>2, <2>5, Zenon
  <2> QED BY <2>6
<1>5. P(z)
  <2> HIDE DEF P
  <2> QED BY <1>4
<1> HIDE DEF z
<1>6. \A s \in SUBSET (1 .. n) :
        z[s] = IF s = {} THEN v ELSE WalkStep(z[s \ {Max(s)}], tokens[Max(s)])
  BY <1>5, Zenon
<1> HIDE DEF P
<1> DEFINE u == [k \in 0 .. n |-> z[1 .. k]]
<1>7. u[0] = v /\ u[n] = z[1 .. n]
  <2>1. 0 \in 0 .. n /\ n \in 0 .. n /\ 1 .. 0 = {} /\ {} \in SUBSET (1 .. n) BY <1>1
  <2>2. z[{}] = v BY <1>6, <2>1
  <2> QED BY <2>1, <2>2
<1>8. \A k \in 1 .. n : u[k] = WalkStep(u[k - 1], tokens[k])
  <2> TAKE k \in 1 .. n
  <2>1. k \in 0 .. n /\ k - 1 \in 0 .. n BY <1>1
  <2>2. z[1 .. k] = WalkStep(z[(1 .. k) \ {Max(1 .. k)}], tokens[Max(1 .. k)])
    BY <1>1, <1>6, FoldOfFirst
  <2>3. z[1 .. k] = WalkStep(z[1 .. (k - 1)], tokens[k]) BY <1>1, <2>2, FoldOfFirst
  <2> QED BY <2>1, <2>3
<1> HIDE DEF u
<1>9. WalksTo(v, tokens, u) BY <1>7, <1>8 DEF WalksTo, n
<1> QED BY <1>3, <1>7, <1>9 DEF n

-------------------------------------------------------------------------------
(* The types of what a where clause makes.                                 *)

Literals(T) == UNION {ToSet(t.lits) : t \in {x \in T : x.tok = "name"}}
Names(T) == {t.name : t \in T}
Preds(T) ==
  {[on |-> "key", key |-> t.key] : t \in T}
  \cup {[on |-> "attr", op |-> t.op, lit |-> t.lit] : t \in T}
  \cup {[on |-> "near", op |-> t.op, vec |-> t.vec, lit |-> t.lit] : t \in T}
  \cup {[on |-> "attr", op |-> op, lit |-> lit] : op \in {"any", "eq"}, lit \in Literals(T)}
ClauseOf(N, P) ==
  [at : Index, last : N, attrs : [Index -> Seq(N)], preds : [Index -> Seq(P)]]

LEMMA PredsOfToken ==
  ASSUME NEW T, NEW t \in T
  PROVE  /\ [on |-> "key", key |-> t.key] \in Preds(T)
         /\ [on |-> "attr", op |-> t.op, lit |-> t.lit] \in Preds(T)
         /\ [on |-> "near", op |-> t.op, vec |-> t.vec, lit |-> t.lit] \in Preds(T)
<1> DEFINE K == {[on |-> "key", key |-> x.key] : x \in T}
           A == {[on |-> "attr", op |-> x.op, lit |-> x.lit] : x \in T}
           B == {[on |-> "near", op |-> x.op, vec |-> x.vec, lit |-> x.lit] : x \in T}
           D == {[on |-> "attr", op |-> op, lit |-> lit] : op \in {"any", "eq"}, lit \in Literals(T)}
<1>1. Preds(T) = K \cup A \cup B \cup D BY DEF Preds
<1>2. [on |-> "key", key |-> t.key] \in K BY Zenon
<1>3. [on |-> "attr", op |-> t.op, lit |-> t.lit] \in A BY Zenon
<1>4. [on |-> "near", op |-> t.op, vec |-> t.vec, lit |-> t.lit] \in B BY Zenon
<1> HIDE DEF K, A, B, D
<1> QED BY <1>1, <1>2, <1>3, <1>4

LEMMA AttrIsTyped ==
  ASSUME NEW N, NEW P, NEW v \in ClauseOf(N, P), NEW i \in Index PROVE AddAttr(v, i) \in ClauseOf(N, P)
<1>1. Append(v.attrs[i], v.last) \in Seq(N) BY DEF ClauseOf
<1>2. [v.attrs EXCEPT ![i] = Append(@, v.last)] \in [Index -> Seq(N)] BY <1>1 DEF ClauseOf
<1> QED BY <1>2 DEF AddAttr, ClauseOf

LEMMA PredIsTyped ==
  ASSUME NEW N, NEW P, NEW v \in ClauseOf(N, P), NEW i \in Index, NEW p \in P
  PROVE  AddPred(v, i, p) \in ClauseOf(N, P)
<1>1. Append(v.preds[i], p) \in Seq(P) BY DEF ClauseOf
<1>2. [v.preds EXCEPT ![i] = Append(@, p)] \in [Index -> Seq(P)] BY <1>1 DEF ClauseOf
<1> QED BY <1>2 DEF AddPred, ClauseOf

LEMMA EqualIsTyped ==
  ASSUME NEW N, NEW P, NEW v \in ClauseOf(N, P), NEW i \in Index, NEW lit,
         \A op \in {"any", "eq"} : [on |-> "attr", op |-> op, lit |-> lit] \in P
  PROVE  AddEqual(v, lit, i) \in ClauseOf(N, P)
<1>1. AddAttr(v, i) \in ClauseOf(N, P) BY AttrIsTyped
<1> QED BY <1>1, PredIsTyped DEF AddEqual

LEMMA RunIsTyped ==
  ASSUME NEW S, NEW n \in Nat, NEW u, u[0] \in S, \A k \in 1 .. n : u[k - 1] \in S => u[k] \in S
  PROVE  \A k \in 0 .. n : u[k] \in S
<1> DEFINE T == {k \in 0 .. n : u[k] \in S}
<1>1. 0 \in T OBVIOUS
<1>2. \A m \in 0 .. (n - 1) : m \in T => m + 1 \in T
  <2> TAKE m \in 0 .. (n - 1)
  <2>1. m + 1 \in 1 .. n /\ (m + 1) - 1 = m /\ m + 1 \in 0 .. n OBVIOUS
  <2> QED BY <2>1
<1> HIDE DEF T
<1>3. 0 .. n \subseteq T BY <1>1, <1>2, UpTo
<1> QED BY <1>3 DEF T

LEMMA NamesAreTyped ==
  ASSUME NEW N, NEW P, NEW v \in ClauseOf(N, P), NEW i \in Index, NEW lits, lits \in Seq(ToSet(lits)),
         \A lit \in ToSet(lits), op \in {"any", "eq"} : [on |-> "attr", op |-> op, lit |-> lit] \in P
  PROVE  NamedFrom(v, lits, i) \in ClauseOf(N, P)
<1> DEFINE C == ClauseOf(N, P)
<1>1. \A w \in C, lit \in ToSet(lits) : AddEqual(w, lit, i) \in C BY EqualIsTyped
<1>2. v \in C OBVIOUS
<1> HIDE DEF C
<1>3. PICK u : NamesTo(v, lits, i, u) /\ NamedFrom(v, lits, i) = u[Len(lits)]
  <2>1. NamedClosed(C, ToSet(lits), i) BY <1>1 DEF NamedClosed
  <2>2. NamedRun(v, lits, i) BY <1>2, <2>1, NamesOneByOne
  <2> QED BY <2>2 DEF NamedRun
<1>4. Len(lits) \in Nat /\ \A k \in 1 .. Len(lits) : lits[k] \in ToSet(lits) OBVIOUS
<1>5. u[0] \in C /\ \A k \in 1 .. Len(lits) : u[k - 1] \in C => u[k] \in C
  BY <1>1, <1>2, <1>3, <1>4 DEF NamesTo
<1>6. \A k \in 0 .. Len(lits) : u[k] \in C BY <1>4, <1>5, RunIsTyped
<1>7. u[Len(lits)] \in C BY <1>4, <1>6
<1> QED BY <1>3, <1>7 DEF C

LEMMA VisitIsTyped ==
  ASSUME NEW T, NEW N, NEW t \in T, IsToken(t), NEW v \in ClauseOf(N, Preds(T)), Names(T) \subseteq N
  PROVE  Visit(v, t) \in ClauseOf(N, Preds(T))
<1> DEFINE P == Preds(T)
<1>1. v.at \in Index /\ "And" \in Index /\ "Or" \in Index BY DEF ClauseOf, Index
<1>2. CASE t.tok \in {"and", "or"}
  <2>1. \A i \in Index : [v EXCEPT !.at = i] \in ClauseOf(N, P) BY DEF ClauseOf
  <2>2. Visit(v, t) \in {[v EXCEPT !.at = "And"], [v EXCEPT !.at = "Or"]} BY <1>2 DEF Visit
  <2> QED BY <1>1, <2>1, <2>2
<1>3. CASE t.tok = "id"
  <2>1. [on |-> "key", key |-> t.key] \in P BY PredsOfToken
  <2>2. Visit(v, t) = AddPred(v, v.at, [on |-> "key", key |-> t.key]) BY <1>3 DEF Visit
  <2> QED BY <1>1, <2>1, <2>2, PredIsTyped
<1>4. CASE t.tok = "cmp"
  <2>1. [on |-> "attr", op |-> t.op, lit |-> t.lit] \in P BY PredsOfToken
  <2>2. AddAttr(v, v.at) \in ClauseOf(N, P) BY <1>1, AttrIsTyped
  <2>3. AddPred(AddAttr(v, v.at), v.at, [on |-> "attr", op |-> t.op, lit |-> t.lit]) \in ClauseOf(N, P)
    BY <1>1, <2>1, <2>2, PredIsTyped
  <2>4. Visit(v, t) = VisitCompare(v, t) BY <1>4 DEF Visit
  <2> QED BY <2>2, <2>3, <2>4 DEF VisitCompare
<1>5. CASE t.tok = "near"
  <2> DEFINE p == [on |-> "near", op |-> t.op, vec |-> t.vec, lit |-> t.lit]
  <2>1. p \in P BY PredsOfToken
  <2> HIDE DEF p
  <2>2. AddPred(v, v.at, p) \in ClauseOf(N, P) BY <1>1, <2>1, PredIsTyped
  <2>3. AddAttr(AddPred(v, v.at, p), v.at) \in ClauseOf(N, P) BY <1>1, <2>2, AttrIsTyped
  <2>4. Visit(v, t) = VisitNear(v, t) BY <1>5 DEF Visit
  <2> QED BY <2>3, <2>4 DEF VisitNear, p
<1>6. CASE t.tok = "name"
  <2> DEFINE w == [v EXCEPT !.last = t.name]
             i == IF t.list THEN "Or" ELSE v.at
  <2>1. w \in ClauseOf(N, P) BY DEF ClauseOf, Names
  <2>2. i \in Index BY <1>1
  <2>3. t.lits \in Seq(ToSet(t.lits)) BY <1>6 DEF IsToken
  <2>4. \A lit \in ToSet(t.lits), op \in {"any", "eq"} : [on |-> "attr", op |-> op, lit |-> lit] \in P
    <3>1. \A lit \in ToSet(t.lits) : lit \in Literals(T) BY <1>6 DEF Literals
    <3>2. \A lit \in Literals(T), op \in {"any", "eq"} :
            [on |-> "attr", op |-> op, lit |-> lit] \in
              {[on |-> "attr", op |-> o, lit |-> x] : o \in {"any", "eq"}, x \in Literals(T)}
      OBVIOUS
    <3>3. {[on |-> "attr", op |-> o, lit |-> x] : o \in {"any", "eq"}, x \in Literals(T)} \subseteq P
      BY DEF Preds
    <3> HIDE DEF P
    <3> QED BY <3>1, <3>2, <3>3
  <2>5. Visit(v, t) = VisitName(v, t) BY <1>6 DEF Visit
  <2>6. VisitName(v, t) = NamedFrom(w, t.lits, i) BY DEF VisitName, NamedFrom, FoldLeft, MapThenFoldSet, AddEqual
  <2> HIDE DEF w, i, P
  <2> QED BY <2>1, <2>2, <2>3, <2>4, <2>5, <2>6, NamesAreTyped DEF P
<1> QED BY <1>2, <1>3, <1>4, <1>5, <1>6 DEF IsToken

ListsArePreds(v) == \A i \in Index : \E S : v.preds[i] \in Seq(S)

LEMMA ParseIsTyped ==
  ASSUME NEW tokens, NEW last, IsClause(tokens)
  PROVE  ListsArePreds(ParseConditions(tokens, last))
<1> DEFINE T == ToSet(tokens)
           N == {last} \cup Names(T)
           C == ClauseOf(N, Preds(T))
<1>1. NoClause(last) \in C
  <2>1. <<>> \in Seq(N) /\ <<>> \in Seq(Preds(T)) /\ "And" \in Index /\ last \in N BY DEF Index
  <2> HIDE DEF N
  <2> QED BY <2>1 DEF NoClause, ClauseOf
<1>2. tokens \in Seq(T) /\ Len(tokens) \in Nat /\ \A k \in 1 .. Len(tokens) : tokens[k] \in T
  BY DEF IsClause
<1>3. \A t \in T : IsToken(t) BY DEF IsClause, ToSet
<1>4. \A v \in C, t \in T : Visit(v, t) \in C
  <2> HIDE DEF T
  <2> QED BY <1>3, VisitIsTyped
<1> HIDE DEF T, N, C
<1>5. PICK u : VisitsTo(NoClause(last), tokens, u) /\ ParseFrom(NoClause(last), tokens) = u[Len(tokens)]
  BY <1>1, <1>2, <1>4, ParsesOneByOne
<1>6. u[0] \in C /\ \A k \in 1 .. Len(tokens) : u[k - 1] \in C => u[k] \in C
  BY <1>1, <1>2, <1>4, <1>5 DEF VisitsTo
<1>7. \A k \in 0 .. Len(tokens) : u[k] \in C BY <1>2, <1>6, RunIsTyped
<1>8. u[Len(tokens)] \in C BY <1>2, <1>7
<1>9. ParseConditions(tokens, last) = u[Len(tokens)] BY <1>5 DEF ParseConditions, ParseFrom
<1> QED BY <1>8, <1>9 DEF ListsArePreds, C, ClauseOf

Verdicts == {"yes", "no", "mismatch", "undefined"}

LEMMA FoundIsVerdict ==
  ASSUME NEW v, NEW i, NEW k, NEW key, NEW attrs PROVE Found(v, i, k, key, attrs) \in Verdicts
<1>1. \A p, attr : Predict(p, attrs, attr) \in Verdicts BY DEF Predict, Verdicts
<1>2. "yes" \in Verdicts /\ "no" \in Verdicts BY DEF Verdicts
<1> QED BY <1>1, <1>2 DEF Found

LEMMA LeastIsElement == ASSUME NEW S \in SUBSET Nat, S # {} PROVE Min(S) \in S /\ \A x \in S : Min(S) <= x
BY Least DEF Min

LEMMA VertexIsJudged ==
  ASSUME NEW v, ListsArePreds(v), NEW key, NEW attrs PROVE PredictVertex(v, key, attrs) \in Verdicts
<1>1. \A i \in Index : DOMAIN v.preds[i] \subseteq Nat BY DEF ListsArePreds
<1>2. "yes" \in Verdicts /\ "no" \in Verdicts /\ "And" \in Index /\ "Or" \in Index BY DEF Verdicts, Index
<1>3. AndResult(v, key, attrs) \in Verdicts
  <2> DEFINE ks == DOMAIN v.preds["And"]
             found == [k \in ks |-> Found(v, "And", k, key, attrs)]
             not == {k \in ks : found[k] # "yes"}
  <2>1. \A k \in ks : found[k] \in Verdicts BY FoundIsVerdict
  <2>2. AndResult(v, key, attrs) = IF not = {} THEN "yes" ELSE found[Min(not)] BY DEF AndResult
  <2>3. not \subseteq ks /\ ks \subseteq Nat BY <1>1, <1>2
  <2> HIDE DEF ks, found, not
  <2>4. not # {} => Min(not) \in ks BY <2>3, LeastIsElement
  <2> QED BY <1>2, <2>1, <2>2, <2>4
<1>4. ASSUME NEW result \in Verdicts PROVE OrResult(v, key, attrs, result) \in Verdicts
  <2> DEFINE ks == DOMAIN v.preds["Or"]
             found == [k \in ks |-> Found(v, "Or", k, key, attrs)]
             thrown == {k \in ks : Throws(found[k])}
  <2>1. \A k \in ks : found[k] \in Verdicts BY FoundIsVerdict
  <2>2. OrResult(v, key, attrs, result) =
          IF ks = {} \/ (result = "yes" /\ found[1] = "yes") THEN result
          ELSE IF thrown = {} THEN "no" ELSE found[Min(thrown)]
    BY DEF OrResult
  <2>3. thrown \subseteq ks /\ ks \subseteq Nat BY <1>1, <1>2
  <2> HIDE DEF ks, found, thrown
  <2>4. thrown # {} => Min(thrown) \in ks BY <2>3, LeastIsElement
  <2> QED BY <1>2, <2>1, <2>2, <2>4
<1> QED BY <1>3, <1>4 DEF PredictVertex

TypeInv ==
  /\ phase \in {"begin", "judge", "done", "aborted"} /\ row \in 1 .. Len(Rows) + 1
  /\ Len(asked) <= MaxQueries
  /\ \A i \in DOMAIN answers : answers[i].status \in {"yes", "mismatch"}
  /\ mode = "running" => phase = "judge"
  /\ query.kind # "edge" => ListsArePreds(clause)

LEMMA EmptySequence == <<>> \in Seq({}) /\ Len(<<>>) = 0 /\ DOMAIN <<>> = {}
OBVIOUS

LEMMA RowsCounted ==
  /\ Len(Vertices) \in Nat /\ DOMAIN Vertices = 1 .. Len(Vertices)
  /\ Len(EdgeRows) \in Nat /\ DOMAIN EdgeRows = 1 .. Len(EdgeRows)
BY RowAssumption

LEMMA TypeInit == Init => TypeInv
<1> SUFFICES ASSUME Init PROVE TypeInv OBVIOUS
<1>1. phase = "done" /\ row = 1 /\ asked = <<>> /\ answers = <<>> /\ clause = NoClause("") BY DEF Init
<1>2. mode = "idle" BY DEF Init, MachineInit
<1>3. Len(Rows) \in Nat BY RowsCounted DEF Rows
<1>4. Len(asked) <= MaxQueries /\ DOMAIN answers = {}
  <2>1. Len(asked) = 0 /\ DOMAIN answers = {} BY <1>1, EmptySequence
  <2> QED BY <2>1, QueryAssumption
<1>5. ListsArePreds(clause)
  <2>1. \A i \in Index : clause.preds[i] = <<>> BY <1>1 DEF NoClause
  <2> QED BY <2>1, EmptySequence DEF ListsArePreds
<1>6. phase \in {"begin", "judge", "done", "aborted"} BY <1>1, Zenon
<1>7. row \in 1 .. Len(Rows) + 1
  <2>1. row = 1 BY <1>1
  <2>2. \A n \in Nat : 1 \in 1 .. n + 1 OBVIOUS
  <2> QED BY <1>3, <2>1, <2>2, Zenon
<1>8. \A i \in DOMAIN answers : answers[i].status \in {"yes", "mismatch"} BY <1>4
<1>9. mode # "running" BY <1>2
<1> QED BY <1>4, <1>5, <1>6, <1>7, <1>8, <1>9, Zenon DEF TypeInv

LEMMA TypeStart ==
  ASSUME NEW q \in First \cup Later, ReportInv, TypeInv, Start(q),
         asked = <<>> \/ Len(asked) < MaxQueries
  PROVE  TypeInv'
<1>1. /\ row' = 1 /\ answers' = <<>> /\ asked' = Append(asked, q) /\ query' = q
      /\ mode' = mode /\ mode = "idle" /\ phase' \in {"begin", "done", "aborted"}
  BY DEF Start, machine
<1>2. Len(asked') <= MaxQueries
  <2>1. PICK S : asked \in Seq(S) BY DEF ReportInv
  <2>2. Len(asked') = Len(asked) + 1 /\ Len(asked) \in Nat BY <1>1, <2>1
  <2>3. asked = <<>> => Len(asked) = 0 OBVIOUS
  <2> QED BY <2>2, <2>3, QueryAssumption
<1>3. Len(Rows') \in Nat BY RowsCounted DEF Rows
<1>4. DOMAIN answers' = {} BY <1>1
<1>5. query'.kind # "edge" => ListsArePreds(clause')
  <2>1. CASE q.kind # "edge"
    <3>1. clause' = ParseConditions(q.tokens, lastKey) /\ IsClause(q.tokens)
      BY <2>1, QueryAssumption DEF Start
    <3> QED BY <3>1, ParseIsTyped
  <2> QED BY <1>1, <2>1
<1> QED BY <1>1, <1>2, <1>3, <1>4, <1>5 DEF TypeInv

LEMMA TypeReport ==
  ASSUME ReportInv, TypeInv, NEW found \in Verdicts, Report(found), row <= Len(Rows), mode # "running"
  PROVE  TypeInv'
<1>1. CASE found = "undefined"
  <2>1. mode' = "undefined" /\ UNCHANGED scan BY <1>1 DEF Report, Undefined
  <2> QED BY <2>1 DEF TypeInv, scan, Rows
<1>2. CASE found # "undefined"
  <2>1. /\ answers' = IF found = "no" THEN answers ELSE Append(answers, [row |-> row, status |-> found])
        /\ row' = row + 1 /\ phase' = "begin" /\ UNCHANGED <<machine, query, clause, asked>>
    BY <1>2 DEF Report
  <2>2. row' \in 1 .. Len(Rows') + 1
    <3>1. Rows' = Rows /\ Len(Rows) \in Nat BY <2>1, RowsCounted DEF Rows
    <3> QED BY <2>1, <3>1 DEF TypeInv
  <2>3. \A i \in DOMAIN answers' : answers'[i].status \in {"yes", "mismatch"}
    <3>1. CASE found = "no" BY <2>1, <3>1 DEF TypeInv
    <3>2. CASE found # "no"
      <4> DEFINE e == [row |-> row, status |-> found]
      <4>1. e.status \in {"yes", "mismatch"} BY <1>2, <3>2 DEF Verdicts
      <4>2. answers' = Append(answers, e) BY <2>1, <3>2
      <4> HIDE DEF e
      <4>3. PICK S : answers \in Seq(S) BY DEF ReportInv
      <4> QED BY <4>1, <4>2, <4>3, AppendIsNotEmpty DEF TypeInv
    <3> QED BY <3>1, <3>2
  <2> QED BY <2>1, <2>2, <2>3 DEF TypeInv, machine
<1> QED BY <1>1, <1>2

LEMMA TypeNext == ASSUME ReportInv, FrameInv, TypeInv, [Next]_vars PROVE TypeInv'
<1>1. CASE asked = <<>> /\ \E q \in First : Start(q) BY <1>1, TypeStart
<1>2. CASE asked # <<>> /\ Len(asked) < MaxQueries /\ \E q \in Later : Start(q) BY <1>2, TypeStart
<1>3. CASE RunScript
  <2>1. phase' \in {"aborted", "judge"} /\ UNCHANGED <<query, clause, row, answers, asked>>
        /\ (mode' # "idle" => phase' = "judge")
    BY <1>3 DEF RunScript
  <2> QED BY <2>1 DEF TypeInv, Rows
<1>4. CASE RunStep BY <1>4 DEF RunStep, TypeInv, scan, Rows
<1>5. CASE JudgeVertex
  <2>1. PICK found \in {PredictVertex(clause, Rows[row].key, Rows[row].attrs)} : Report(found)
    BY <1>5 DEF JudgeVertex
  <2>2. ListsArePreds(clause) /\ row <= Len(Rows) /\ mode # "running" BY <1>5 DEF JudgeVertex, TypeInv
  <2>3. found \in Verdicts BY <2>1, <2>2, VertexIsJudged
  <2> QED BY <2>1, <2>2, <2>3, TypeReport
<1>6. CASE JudgeEdge
  <2>1. PICK found \in {PredictEdge(MakeEdgeId(Rows[row].directed, Rows[row].from, Rows[row].to), clause.edges)} :
               Report(found)
    BY <1>6 DEF JudgeEdge
  <2>2. row <= Len(Rows) /\ mode # "running" BY <1>6 DEF JudgeEdge, TypeInv
  <2>3. \A id, edges : PredictEdge(id, edges) \in Verdicts BY DEF PredictEdge, Verdicts
  <2>4. found \in Verdicts BY <2>1, <2>3
  <2> QED BY <2>1, <2>2, <2>4, TypeReport
<1>7. CASE EndScan BY <1>7 DEF EndScan, CleanPlan, TypeInv, Rows
<1>8. CASE UNCHANGED vars BY <1>8 DEF vars, scan, machine, TypeInv, Rows
<1> QED BY <1>1, <1>2, <1>3, <1>4, <1>5, <1>6, <1>7, <1>8 DEF Next

(* A scan stays within its rows, reports only rows that are found or whose *)
(* comparison throws, and the machine runs only while a row is judged,     *)
(* whatever the queries, their lambdas and the rows are.                   *)
THEOREM TypeCorrect == Spec => []TypeOK
<1> DEFINE I == BoundAll /\ ReportInv /\ TypeInv
<1>1. Init => I BY MachineInits, ReportInit, TypeInit
<1>2. I /\ [Next]_vars => I'
  BY BoundNext, ReportNext, TypeNext DEF BoundAll
<1>3. I => TypeOK
  <2> SUFFICES ASSUME I PROVE TypeOK OBVIOUS
  <2>1. MachineTypeOK BY DEF BoundAll, BoundInv
  <2>2. \A i \in DOMAIN answers : answers[i].row < row BY DEF ReportInv, RowsReported
  <2> QED BY <2>1, <2>2 DEF TypeInv, TypeOK
<1> QED BY <1>1, <1>2, <1>3, PTL DEF Spec

-------------------------------------------------------------------------------
(* The pattern a walk makes.                                               *)

EndsOf(T) == {NoEnd} \cup {Label(t.text) : t \in T}
EdgesOf(T) == [start : EndsOf(T), end : EndsOf(T), direction : BOOLEAN]
Walking(T) == [node : EndsOf(T), edges : Seq(EdgesOf(T))]
IsStep(t) == t.tok = "node" \/ (t.tok = "arrow" /\ t.dir \in Arrows)

LEMMA FrontIsTyped ==
  ASSUME NEW S, NEW s \in Seq(S), s # <<>>
  PROVE  Last(s) \in S /\ Front(s) \in Seq(S)
<1>1. Len(s) \in Nat \ {0} /\ Len(s) - 1 \in Nat /\ \A k \in 1 .. Len(s) : s[k] \in S BY EmptySeq
<1>2. Last(s) \in S BY <1>1 DEF Last
<1>3. \A k \in 1 .. Len(s) - 1 : s[k] \in S BY <1>1
<1> QED BY <1>1, <1>2, <1>3, SubSeqProperties DEF Front

LEMMA StepIsTyped ==
  ASSUME NEW T, NEW t \in T, IsStep(t), NEW w \in Walking(T)
  PROVE  WalkStep(w, t) \in Walking(T)
<1> DEFINE N == EndsOf(T)
           E == EdgesOf(T)
<1>1. NoEnd \in N /\ Label(t.text) \in N BY DEF EndsOf
<1>2. w.node \in N /\ w.edges \in Seq(E) BY DEF Walking
<1>3. \A a, b \in N, d \in BOOLEAN : MakeEdge(a, b, d) \in E BY DEF MakeEdge, EdgesOf
<1>4. \A e \in E : [w EXCEPT !.edges = Append(@, e)] \in Walking(T) BY DEF Walking
<1>5. CASE t.tok = "arrow" /\ t.dir \in {"--", "->"}
  <2>1. MakeEdge(w.node, NoEnd, t.dir = "->") \in E BY <1>1, <1>2, <1>3
  <2>2. WalkStep(w, t) = [w EXCEPT !.edges = Append(@, MakeEdge(w.node, NoEnd, t.dir = "->"))]
    BY <1>5 DEF WalkStep
  <2> HIDE DEF E
  <2> QED BY <1>4, <2>1, <2>2
<1>6. CASE t.tok = "arrow" /\ t.dir = "<-"
  <2>1. MakeEdge(NoEnd, w.node, TRUE) \in E BY <1>1, <1>2, <1>3
  <2>2. WalkStep(w, t) = [w EXCEPT !.edges = Append(@, MakeEdge(NoEnd, w.node, TRUE))]
    BY <1>6 DEF WalkStep
  <2> HIDE DEF E
  <2> QED BY <1>4, <2>1, <2>2
<1>7. CASE t.tok = "node" /\ w.edges = <<>>
  <2>1. WalkStep(w, t) = [w EXCEPT !.node = Label(t.text)] BY <1>7 DEF WalkStep
  <2> QED BY <1>1, <2>1 DEF Walking
<1>8. CASE t.tok = "node" /\ w.edges # <<>>
  <2> DEFINE edge == Last(w.edges)
             full == IF edge.end.none THEN [edge EXCEPT !.end = Label(t.text)]
                     ELSE [edge EXCEPT !.start = Label(t.text)]
  <2>1. WalkStep(w, t) = [node |-> Label(t.text), edges |-> Append(Front(w.edges), full)]
    BY <1>8 DEF WalkStep
  <2>2. edge \in E /\ Front(w.edges) \in Seq(E) BY <1>2, <1>8, FrontIsTyped
  <2>3. full \in E BY <1>1, <2>2 DEF EdgesOf
  <2> HIDE DEF E, full
  <2>4. Append(Front(w.edges), full) \in Seq(E) BY <2>2, <2>3
  <2> QED BY <1>1, <2>1, <2>4 DEF Walking, E
<1> QED BY <1>5, <1>6, <1>7, <1>8 DEF IsStep, Arrows

NewWalk == [node |-> NoEnd, edges |-> <<>>]

LEMMA WalkGoes ==
  ASSUME NEW tokens, tokens \in Seq(ToSet(tokens)), \A i \in DOMAIN tokens : IsStep(tokens[i])
  PROVE  \E u : WalksTo(NewWalk, tokens, u) /\ WalkPattern(tokens) = u[Len(tokens)].edges
<1> DEFINE T == ToSet(tokens)
<1>1. \A t \in T : IsStep(t) BY DEF ToSet
<1>2. NewWalk \in Walking(T)
  <2>1. NoEnd \in EndsOf(T) /\ <<>> \in Seq(EdgesOf(T)) BY DEF EndsOf
  <2> QED BY <2>1 DEF NewWalk, Walking
<1>3. tokens \in Seq(T) OBVIOUS
<1> HIDE DEF T
<1>4. \A w \in Walking(T), t \in T : WalkStep(w, t) \in Walking(T) BY <1>1, StepIsTyped
<1>5. PICK u : WalksTo(NewWalk, tokens, u) /\ WalkFrom(NewWalk, tokens) = u[Len(tokens)]
  BY <1>2, <1>3, <1>4, WalksOneByOne
<1>6. WalkPattern(tokens) = WalkFrom(NewWalk, tokens).edges BY DEF WalkPattern, WalkFrom, NewWalk
<1> QED BY <1>5, <1>6

(* One edge is completed by the second node.                               *)
PatternOf(x, dir, y) ==
  IF dir = "<-" THEN MakeEdge(Label(y), Label(x), TRUE) ELSE MakeEdge(Label(x), Label(y), dir = "->")

LEMMA FrontOfAppend ==
  ASSUME NEW S, NEW s \in Seq(S), NEW e \in S
  PROVE  Front(Append(s, e)) = s /\ Last(Append(s, e)) = e /\ Append(s, e) # <<>>
<1>1. Append(s, e) = s \o <<e>> BY AppendIsConcat
<1>2. Len(Append(s, e)) = Len(s) + 1 /\ Append(s, e)[Len(s) + 1] = e /\ Len(s) \in Nat
      /\ Append(s, e) # <<>>
  BY AppendProperties, AppendIsNotEmpty
<1>3. <<e>> \in Seq(S) OBVIOUS
<1>4. SubSeq(s \o <<e>>, 1, Len(s)) = s BY <1>3, TakeBack
<1>5. (Len(s) + 1) - 1 = Len(s) BY <1>2
<1> QED BY <1>1, <1>2, <1>4, <1>5 DEF Front, Last

LEMMA EdgeParts ==
  ASSUME NEW a, NEW b, NEW c, NEW d
  PROVE  LET e == MakeEdge(a, b, d) IN
         /\ e.start = a /\ e.end = b /\ e.direction = d
         /\ [e EXCEPT !.end = c] = MakeEdge(a, c, d) /\ [e EXCEPT !.start = c] = MakeEdge(c, b, d)
BY DEF MakeEdge

LEMMA StartOfEdge ==
  ASSUME NEW a, NEW b, NEW c PROVE [MakeEdge(a, b, TRUE) EXCEPT !.start = c] = MakeEdge(c, b, TRUE)
<1>1. \A d : [MakeEdge(a, b, d) EXCEPT !.start = c] = MakeEdge(c, b, d) BY EdgeParts
<1> QED BY <1>1, Zenon

(* An arrow and the node after it add a whole edge.                        *)
LEMMA EdgeIsAdded ==
  ASSUME NEW x, NEW y, NEW dir \in Arrows, NEW E, NEW edges \in Seq(E)
  PROVE  LET w == [node |-> Label(x), edges |-> edges] IN
         WalkStep(WalkStep(w, Arrow(dir)), Node(y)) =
           [node |-> Label(y), edges |-> Append(edges, PatternOf(x, dir, y))]
<1> DEFINE w == [node |-> Label(x), edges |-> edges]
           e == IF dir = "<-" THEN MakeEdge(NoEnd, Label(x), TRUE) ELSE MakeEdge(Label(x), NoEnd, dir = "->")
           a == [node |-> Label(x), edges |-> Append(edges, e)]
           p == PatternOf(x, dir, y)
<1>1. WalkStep(w, Arrow(dir)) = a BY DEF WalkStep, Arrow, Arrows
<1>2. ~Label(x).none /\ NoEnd.none BY DEF Label, NoEnd
<1>3. (IF e.end.none THEN [e EXCEPT !.end = Label(y)] ELSE [e EXCEPT !.start = Label(y)]) = p
  <2>1. CASE dir = "<-"
    <3>1. e = MakeEdge(NoEnd, Label(x), TRUE) BY <2>1
    <3> HIDE DEF e
    <3>2. e.end = Label(x) /\ [e EXCEPT !.start = Label(y)] = MakeEdge(Label(y), Label(x), TRUE)
      <4>1. MakeEdge(NoEnd, Label(x), TRUE).end = Label(x) BY DEF MakeEdge
      <4>2. [MakeEdge(NoEnd, Label(x), TRUE) EXCEPT !.start = Label(y)] = MakeEdge(Label(y), Label(x), TRUE)
        BY StartOfEdge
      <4> QED BY <3>1, <4>1, <4>2, Zenon
    <3> QED BY <1>2, <2>1, <3>2 DEF PatternOf
  <2>2. CASE dir # "<-"
    <3>1. e = MakeEdge(Label(x), NoEnd, dir = "->") BY <2>2
    <3> HIDE DEF e
    <3>2. e.end = NoEnd /\ [e EXCEPT !.end = Label(y)] = MakeEdge(Label(x), Label(y), dir = "->")
      BY <3>1, EdgeParts
    <3> QED BY <1>2, <2>2, <3>2 DEF PatternOf
  <2> QED BY <2>1, <2>2
<1> HIDE DEF e, p
<1>4. /\ a.edges # <<>> /\ Last(a.edges) = e /\ Front(a.edges) = edges
  <2>1. edges \in Seq(E \cup {e}) OBVIOUS
  <2> QED BY <2>1, FrontOfAppend
<1>5. WalkStep(a, Node(y)) =
        [node |-> Label(y),
         edges |-> Append(Front(a.edges),
                          IF Last(a.edges).end.none THEN [Last(a.edges) EXCEPT !.end = Label(y)]
                          ELSE [Last(a.edges) EXCEPT !.start = Label(y)])]
  BY <1>4 DEF WalkStep, Node
<1>6. WalkStep(a, Node(y)) = [node |-> Label(y), edges |-> Append(edges, p)]
  BY <1>3, <1>4, <1>5
<1> QED BY <1>1, <1>6 DEF p

LEMMA FirstNode == ASSUME NEW x PROVE WalkStep(NewWalk, Node(x)) = [node |-> Label(x), edges |-> <<>>]
BY DEF WalkStep, NewWalk, Node

LEMMA PatternOfOne ==
  ASSUME NEW x, NEW y, NEW dir \in Arrows
  PROVE  WalkPattern(OneEdge(x, dir, y)) = <<PatternOf(x, dir, y)>>
<1> DEFINE tokens == OneEdge(x, dir, y)
<1>1. Len(tokens) = 3 /\ tokens[1] = Node(x) /\ tokens[2] = Arrow(dir) /\ tokens[3] = Node(y)
      /\ DOMAIN tokens = 1 .. 3
  BY DEF OneEdge
<1>2. tokens \in Seq(ToSet(tokens)) BY DEF OneEdge, ToSet
<1>3. IsStep(Node(x)) /\ IsStep(Node(y)) /\ IsStep(Arrow(dir)) BY DEF IsStep, Node, Arrow
<1> HIDE DEF tokens
<1>4. \A i \in DOMAIN tokens : IsStep(tokens[i])
  <2>1. \A i \in 1 .. 3 : i = 1 \/ i = 2 \/ i = 3 OBVIOUS
  <2> QED BY <1>1, <1>3, <2>1
<1>5. PICK u : WalksTo(NewWalk, tokens, u) /\ WalkPattern(tokens) = u[Len(tokens)].edges
  BY <1>2, <1>4, WalkGoes
<1>6. u[0] = NewWalk /\ u[1] = WalkStep(u[0], Node(x)) /\ u[2] = WalkStep(u[1], Arrow(dir))
      /\ u[3] = WalkStep(u[2], Node(y))
  <2>1. \A k \in 1 .. 3 : u[k] = WalkStep(u[k - 1], tokens[k]) BY <1>1, <1>5 DEF WalksTo
  <2>2. u[1] = WalkStep(u[1 - 1], tokens[1]) /\ u[2] = WalkStep(u[2 - 1], tokens[2])
        /\ u[3] = WalkStep(u[3 - 1], tokens[3])
    BY <2>1
  <2>3. 1 - 1 = 0 /\ 2 - 1 = 1 /\ 3 - 1 = 2 OBVIOUS
  <2>4. u[0] = NewWalk BY <1>5 DEF WalksTo
  <2> QED BY <1>1, <2>2, <2>3, <2>4
<1>7. u[1] = [node |-> Label(x), edges |-> <<>>] BY <1>6, FirstNode
<1>8. u[3] = [node |-> Label(y), edges |-> Append(<<>>, PatternOf(x, dir, y))]
  <2>1. <<>> \in Seq({}) OBVIOUS
  <2> QED BY <1>6, <1>7, <2>1, EdgeIsAdded
<1>9. u[3].edges = <<PatternOf(x, dir, y)>> BY <1>8
<1> QED BY <1>1, <1>5, <1>9 DEF tokens

LEMMA PatternOfTwo ==
  ASSUME NEW x, NEW y, NEW z, NEW d \in Arrows, NEW e \in Arrows
  PROVE  Len(WalkPattern(TwoEdges(x, d, y, e, z))) = 2
<1> DEFINE tokens == TwoEdges(x, d, y, e, z)
<1>1. Len(tokens) = 5 /\ tokens[1] = Node(x) /\ tokens[2] = Arrow(d) /\ tokens[3] = Node(y)
      /\ tokens[4] = Arrow(e) /\ tokens[5] = Node(z) /\ DOMAIN tokens = 1 .. 5
  BY DEF TwoEdges
<1>2. tokens \in Seq(ToSet(tokens)) BY DEF TwoEdges, ToSet
<1>3. IsStep(Node(x)) /\ IsStep(Node(y)) /\ IsStep(Node(z)) /\ IsStep(Arrow(d)) /\ IsStep(Arrow(e))
  BY DEF IsStep, Node, Arrow
<1> HIDE DEF tokens
<1>4. \A i \in DOMAIN tokens : IsStep(tokens[i])
  <2>1. \A i \in 1 .. 5 : i = 1 \/ i = 2 \/ i = 3 \/ i = 4 \/ i = 5 OBVIOUS
  <2> QED BY <1>1, <1>3, <2>1
<1>5. PICK u : WalksTo(NewWalk, tokens, u) /\ WalkPattern(tokens) = u[Len(tokens)].edges
  BY <1>2, <1>4, WalkGoes
<1>6. u[0] = NewWalk /\ u[1] = WalkStep(u[0], Node(x)) /\ u[2] = WalkStep(u[1], Arrow(d))
      /\ u[3] = WalkStep(u[2], Node(y)) /\ u[4] = WalkStep(u[3], Arrow(e)) /\ u[5] = WalkStep(u[4], Node(z))
  <2>1. \A k \in 1 .. 5 : u[k] = WalkStep(u[k - 1], tokens[k]) BY <1>1, <1>5 DEF WalksTo
  <2>2. u[1] = WalkStep(u[1 - 1], tokens[1]) /\ u[2] = WalkStep(u[2 - 1], tokens[2])
        /\ u[3] = WalkStep(u[3 - 1], tokens[3]) /\ u[4] = WalkStep(u[4 - 1], tokens[4])
        /\ u[5] = WalkStep(u[5 - 1], tokens[5])
    BY <2>1
  <2>3. 1 - 1 = 0 /\ 2 - 1 = 1 /\ 3 - 1 = 2 /\ 4 - 1 = 3 /\ 5 - 1 = 4 OBVIOUS
  <2>4. u[0] = NewWalk BY <1>5 DEF WalksTo
  <2> QED BY <1>1, <2>2, <2>3, <2>4
<1> DEFINE p == PatternOf(x, d, y)
           q == PatternOf(y, e, z)
<1>7. u[1] = [node |-> Label(x), edges |-> <<>>] BY <1>6, FirstNode
<1>8. u[3] = [node |-> Label(y), edges |-> <<p>>]
  <2>1. <<>> \in Seq({}) OBVIOUS
  <2>2. WalkStep(WalkStep([node |-> Label(x), edges |-> <<>>], Arrow(d)), Node(y)) =
          [node |-> Label(y), edges |-> Append(<<>>, p)]
    BY <2>1, EdgeIsAdded
  <2> HIDE DEF p
  <2>3. u[3] = [node |-> Label(y), edges |-> Append(<<>>, p)] BY <1>6, <1>7, <2>2
  <2> QED BY <2>3
<1>9. u[5] = [node |-> Label(z), edges |-> Append(<<p>>, q)]
  <2> HIDE DEF p
  <2>1. <<p>> \in Seq({p}) OBVIOUS
  <2>2. WalkStep(WalkStep([node |-> Label(y), edges |-> <<p>>], Arrow(e)), Node(z)) =
          [node |-> Label(z), edges |-> Append(<<p>>, q)]
    BY <2>1, EdgeIsAdded
  <2> HIDE DEF q
  <2> QED BY <1>6, <1>8, <2>2
<1> HIDE DEF p, q
<1>10. Len(u[5].edges) = 2 BY <1>9
<1> QED BY <1>1, <1>5, <1>10 DEF tokens

-------------------------------------------------------------------------------
(* What a label finds.                                                     *)

LEMMA IntBytesTell == \A c, d : IntBytes(c) = IntBytes(d) => c = d
<1> SUFFICES ASSUME NEW c, NEW d, IntBytes(c) = IntBytes(d) PROVE c = d OBVIOUS
<1>1. 1 \in 1 .. IntSize BY EdgeIdAssumption
<1>2. IntBytes(c)[1] = c /\ IntBytes(d)[1] = d BY <1>1 DEF IntBytes
<1> QED BY <1>2

Clear(end, text) == end = IntEnd("0") => text = <<"*">> \/ Head(text) \in Digit

LEMMA LabelMeans ==
  ASSUME NEW end, IsEnd(end), NEW text, IsLabel(text), Clear(end, text)
  PROVE  MatchEnd(Label(text), end) <=> Goes(text, end)
<1>1. CASE text = <<"*">> BY <1>1 DEF Label, MatchEnd, Goes
<1>2. CASE text # <<"*">>
  <2>1. Label(text).text = text /\ text # <<>> BY <1>2 DEF Label, IsLabel
  <2>2. CASE end = [type |-> "str", v |-> end.v] /\ end.v # <<>>
    <3>1. end.type = "str" BY <2>2
    <3>2. MatchEnd(Label(text), end) <=> text = end.v BY <2>1, <2>2, <3>1 DEF MatchEnd
    <3>3. Goes(text, end) <=> text = end.v BY <1>2, <3>1 DEF Goes, Text
    <3> QED BY <3>2, <3>3
  <2>3. ASSUME NEW d \in Digit, end = IntEnd(d)
        PROVE  MatchEnd(Label(text), end) <=> Goes(text, end)
    <3>1. end.type = "int" /\ end.v = IntBytes(d) BY <2>3 DEF IntEnd
    <3>2. Text(end) = <<d>>
      <4>1. 1 \in 1 .. IntSize BY EdgeIdAssumption
      <4>2. end.v[1] = d BY <3>1, <4>1 DEF IntBytes
      <4> QED BY <3>1, <4>2 DEF Text
    <3>3. CASE Head(text) \in Digit
      <4>1. text = <<Head(text)>>
        <5>1. text \in Seq(ToSet(text)) /\ Len(text) = 1 BY <3>3 DEF IsLabel
        <5> QED BY <5>1
      <4>2. MatchEnd(Label(text), end) <=> IntBytes(d) = IntBytes(Head(text))
        BY <2>1, <3>1, <3>3 DEF MatchEnd
      <4>3. Goes(text, end) <=> text = <<d>> BY <1>2, <3>2 DEF Goes
      <4>4. text = <<d>> <=> Head(text) = d BY <4>1
      <4> QED BY <4>2, <4>3, <4>4, IntBytesTell
    <3>4. CASE Head(text) \notin Digit
      <4>1. d # "0" BY <1>2, <2>3, <3>4 DEF Clear
      <4>2. MatchEnd(Label(text), end) <=> IntBytes(d) = IntBytes("0")
        BY <2>1, <3>1, <3>4 DEF MatchEnd
      <4>3. text # <<d>> BY <3>4
      <4> QED BY <1>2, <3>2, <4>1, <4>2, <4>3, IntBytesTell DEF Goes
    <3> QED BY <3>3, <3>4
  <2> QED BY <2>2, <2>3 DEF IsEnd
<1> QED BY <1>1, <1>2

LEMMA EndIsTyped ==
  ASSUME NEW end, IsEnd(end) PROVE end \in EndType(ToSet(end.v)) /\ end.v \in Seq(ToSet(end.v))
<1>1. CASE end = [type |-> "str", v |-> end.v] /\ end.v \in Seq(ToSet(end.v))
  BY <1>1 DEF EndType
<1>2. ASSUME NEW d \in Digit, end = IntEnd(d) PROVE end \in EndType(ToSet(end.v)) /\ end.v \in Seq(ToSet(end.v))
  <2>1. end.v = IntBytes(d) /\ end = [type |-> "int", v |-> end.v] BY <1>2 DEF IntEnd
  <2>2. end.v \in Seq(ToSet(end.v)) BY <2>1, EdgeIdAssumption DEF IntBytes, ToSet
  <2> QED BY <2>1, <2>2 DEF EndType
<1> QED BY <1>1, <1>2 DEF IsEnd

(* What a walk of one edge thinks of a row.                                *)
LEMMA EdgeMeans ==
  ASSUME NEW e, e.directed \in BOOLEAN, IsEnd(e.from), IsEnd(e.to),
         NEW x, NEW y, NEW dir \in Arrows, IsLabel(x), IsLabel(y),
         NEW from, NEW to, from = IF dir = "<-" THEN y ELSE x, to = IF dir = "<-" THEN x ELSE y,
         Told(e, {from, to})
  PROVE  PredictEdge(MakeEdgeId(e.directed, e.from, e.to), <<PatternOf(x, dir, y)>>) = "yes" <=>
           /\ e.directed = (dir # "--")
           /\ \/ Goes(from, e.from) /\ Goes(to, e.to)
              \/ ~e.directed /\ Goes(from, e.to) /\ Goes(to, e.from)
<1> DEFINE id == MakeEdgeId(e.directed, e.from, e.to)
           p == PatternOf(x, dir, y)
           S == ToSet(e.from.v) \cup ToSet(e.to.v)
<1>1. id.direction = e.directed /\ GetFrom(id) = e.from /\ GetTo(id) = e.to
  <2>1. e.from \in EndType(S) /\ e.to \in EndType(S)
    <3>1. /\ e.from \in EndType(ToSet(e.from.v)) /\ e.to \in EndType(ToSet(e.to.v))
          /\ e.from.v \in Seq(ToSet(e.from.v)) /\ e.to.v \in Seq(ToSet(e.to.v))
      BY EndIsTyped
    <3>2. e.from.v \in Seq(S) /\ e.to.v \in Seq(S) BY <3>1
    <3> HIDE DEF S
    <3> QED BY <3>1, <3>2 DEF EndType
  <2>2. Len(e.from.v) < FromLens BY DEF Told
  <2> HIDE DEF S
  <2> QED BY <2>1, <2>2, DecodingGivesBack
<1>2. p = MakeEdge(Label(from), Label(to), p.direction) /\ p.direction = (dir # "--")
  BY DEF PatternOf, MakeEdge, Arrows
<1> HIDE DEF id, p
<1>3. p.start = Label(from) /\ p.end = Label(to) /\ ~p.start.none /\ ~p.end.none
  BY <1>2, EdgeParts DEF Label
<1>4. IsLabel(from) /\ IsLabel(to) OBVIOUS
<1>5. \A text \in {from, to}, end \in {e.from, e.to} : MatchEnd(Label(text), end) <=> Goes(text, end)
  <2> TAKE text \in {from, to}, end \in {e.from, e.to}
  <2>1. Clear(end, text) BY DEF Told, Clear
  <2> QED BY <1>4, <2>1, LabelMeans
<1>6. \A a, b \in {e.from, e.to} : MatchEnds(p, a, b) <=> Goes(from, a) /\ Goes(to, b)
  BY <1>3, <1>5 DEF MatchEnds
<1>7. CASE p.direction # e.directed
  <2>1. {i \in DOMAIN <<p>> : <<p>>[i].direction = id.direction} = {} BY <1>1, <1>7
  <2>2. PredictEdge(id, <<p>>) = "no" BY <2>1 DEF PredictEdge
  <2> QED BY <1>2, <1>7, <2>2 DEF id, p
<1>8. CASE p.direction = e.directed
  <2>1. {i \in DOMAIN <<p>> : <<p>>[i].direction = id.direction} = {1} BY <1>1, <1>8
  <2>2. Min({1}) = 1 /\ <<p>>[1] = p BY DEF Min
  <2>3. PredictEdge(id, <<p>>) =
          IF MatchEnds(p, e.from, e.to) \/ (~e.directed /\ MatchEnds(p, e.to, e.from)) THEN "yes" ELSE "no"
    BY <1>1, <1>3, <2>1, <2>2 DEF PredictEdge
  <2>4. PredictEdge(id, <<p>>) = "yes" <=>
          \/ Goes(from, e.from) /\ Goes(to, e.to)
          \/ ~e.directed /\ Goes(from, e.to) /\ Goes(to, e.from)
    BY <1>6, <2>3
  <2> QED BY <1>2, <1>8, <2>4 DEF id, p
<1> QED BY <1>7, <1>8

-------------------------------------------------------------------------------
(* The query that is scanned is the last one, and the clause is its own.   *)

QueryInv ==
  asked # <<>> =>
    /\ query \in First \cup Later /\ query = Last(asked)
    /\ query.kind = "edge" =>
         /\ clause.edges = WalkPattern(query.tokens)
         /\ Len(clause.edges) > 1 => phase = "done" /\ answers = <<>>
    /\ query.kind # "edge" => \E last : clause = ParseConditions(query.tokens, last)

LEMMA QueryStays ==
  ASSUME QueryInv, UNCHANGED <<asked, query, clause>>,
         phase = "done" => UNCHANGED <<phase, answers>>
  PROVE  QueryInv'
BY DEF QueryInv

LEMMA QueryNext == ASSUME ReportInv, QueryInv, [Next]_vars PROVE QueryInv'
<1>1. CASE \E q \in First \cup Later : Start(q)
  <2>1. PICK q \in First \cup Later : Start(q) BY <1>1
  <2>2. asked' = Append(asked, q) /\ query' = q /\ answers' = <<>> BY <2>1 DEF Start
  <2>3. Last(asked') = q
    <3>1. PICK S : asked \in Seq(S) BY DEF ReportInv
    <3>2. asked \in Seq(S \cup {q}) BY <3>1
    <3> QED BY <2>2, <3>2, FrontOfAppend
  <2>4. q.kind = "edge" => /\ clause'.edges = WalkPattern(q.tokens)
                           /\ Len(clause'.edges) > 1 => phase' = "done"
    BY <2>1 DEF Start
  <2>5. q.kind # "edge" => clause' = ParseConditions(q.tokens, lastKey) BY <2>1 DEF Start
  <2> QED BY <2>2, <2>3, <2>4, <2>5 DEF QueryInv
<1>2. CASE RunScript
  <2>1. phase # "done" /\ UNCHANGED <<asked, query, clause>> BY <1>2 DEF RunScript
  <2> QED BY <2>1, QueryStays
<1>3. CASE RunStep BY <1>3, QueryStays DEF RunStep, scan
<1>4. ASSUME NEW found, Report(found), phase # "done" PROVE QueryInv'
  <2>1. UNCHANGED <<asked, query, clause>> BY <1>4 DEF Report, scan
  <2> QED BY <1>4, <2>1, QueryStays
<1>5. CASE JudgeVertex
  <2>1. PICK found : Report(found) BY <1>5 DEF JudgeVertex
  <2>2. phase # "done" BY <1>5 DEF JudgeVertex
  <2> QED BY <1>4, <2>1, <2>2
<1>6. CASE JudgeEdge
  <2>1. PICK found : Report(found) BY <1>6 DEF JudgeEdge
  <2>2. phase # "done" BY <1>6 DEF JudgeEdge
  <2> QED BY <1>4, <2>1, <2>2
<1>7. CASE EndScan
  <2>1. phase # "done" /\ UNCHANGED <<asked, query, clause>> BY <1>7 DEF EndScan
  <2> QED BY <2>1, QueryStays
<1>8. CASE UNCHANGED vars BY <1>8, QueryStays DEF vars, scan
<1> QED BY <1>1, <1>2, <1>3, <1>5, <1>6, <1>7, <1>8 DEF Next

(* A finished scan has answered with the rows that are judged so.          *)
LEMMA AnswersAreJudged ==
  ASSUME ReportInv, asked # <<>>, phase = "done", ~(query.kind = "edge" /\ Len(clause.edges) > 1)
  PROVE  \A i \in 1 .. Len(Rows) :
           /\ i \in Answered <=> Judged(i) = "yes"
           /\ i \in Mismatched => Judged(i) = "mismatch"
<1> TAKE i \in 1 .. Len(Rows)
<1>1. row > Len(Rows) /\ row \in Nat /\ Len(Rows) \in Nat
  BY RowsCounted DEF ReportInv, RowsReported, Rows
<1>2. i \in 1 .. row - 1 BY <1>1
<1>3. \A n \in DOMAIN answers : Judged(answers[n].row) = answers[n].status
  BY DEF ReportInv, RowsReported
<1>4. ASSUME Judged(i) = "yes" PROVE i \in Answered
  <2>1. PICK n \in DOMAIN answers : answers[n].row = i BY <1>2, <1>4 DEF ReportInv, RowsReported
  <2>2. answers[n].status = "yes" BY <1>3, <1>4, <2>1
  <2> QED BY <2>1, <2>2 DEF Answered
<1>5. i \in Answered => Judged(i) = "yes" BY <1>3 DEF Answered
<1>6. i \in Mismatched => Judged(i) = "mismatch" BY <1>3 DEF Mismatched
<1> QED BY <1>4, <1>5, <1>6

LEMMA WalksAnswered == ASSUME ReportInv, QueryInv PROVE WalksExact
<1> SUFFICES ASSUME asked # <<>>, phase = "done", query.kind = "edge" PROVE WalksExact
  BY DEF WalksExact
<1> DEFINE q == Last(asked)
           from == IF q.dir = "<-" THEN q.right ELSE q.left
           to == IF q.dir = "<-" THEN q.left ELSE q.right
           Meant(e) == /\ e.directed = (q.dir # "--")
                       /\ \/ Goes(from, e.from) /\ Goes(to, e.to)
                          \/ ~e.directed /\ Goes(from, e.to) /\ Goes(to, e.from)
<1>1. q = query /\ IsWalk(q) /\ clause.edges = WalkPattern(q.tokens) BY WalkAssumption DEF QueryInv
<1>2. CASE q.dir = "none"
  <2>1. Len(clause.edges) = 2
    <3>1. q.dir \notin Arrows BY <1>2 DEF Arrows
    <3>2. /\ q.tokens = TwoEdges(q.tokens[1].text, q.tokens[2].dir, q.tokens[3].text, q.tokens[4].dir,
                                 q.tokens[5].text)
          /\ q.tokens[2].dir \in Arrows /\ q.tokens[4].dir \in Arrows
      BY <1>1, <3>1 DEF IsWalk
    <3> QED BY <1>1, <3>2, PatternOfTwo
  <2>2. answers = <<>> BY <2>1 DEF QueryInv
  <2> QED BY <1>2, <2>2 DEF WalksExact
<1>3. CASE q.dir # "none"
  <2>1. q.dir \in Arrows /\ IsLabel(q.left) /\ IsLabel(q.right) /\ q.tokens = OneEdge(q.left, q.dir, q.right)
    BY <1>1, <1>3 DEF IsWalk
  <2>2. clause.edges = <<PatternOf(q.left, q.dir, q.right)>> BY <1>1, <2>1, PatternOfOne
  <2> HIDE DEF q
  <2>3. Len(clause.edges) = 1 BY <2>2
  <2>4. Rows = EdgeRows BY DEF Rows
  <2>5. ASSUME NEW i \in DOMAIN EdgeRows, Told(EdgeRows[i], {from, to})
        PROVE  i \in Answered <=> Meant(EdgeRows[i])
    <3> DEFINE e == EdgeRows[i]
    <3>1. i \in Answered <=> Judged(i) = "yes" BY <2>3, <2>4, AnswersAreJudged, RowsCounted
    <3>2. Judged(i) = PredictEdge(MakeEdgeId(e.directed, e.from, e.to), clause.edges) BY DEF Judged
    <3>3. e.directed \in BOOLEAN /\ IsEnd(e.from) /\ IsEnd(e.to) BY WalkAssumption
    <3>4. Told(e, {from, to}) BY <2>5
    <3> HIDE DEF e, from, to
    <3>5. PredictEdge(MakeEdgeId(e.directed, e.from, e.to), clause.edges) = "yes" <=> Meant(e)
      BY <2>1, <2>2, <3>3, <3>4, EdgeMeans DEF from, to
    <3> QED BY <3>1, <3>2, <3>5 DEF e
  <2> HIDE DEF from, to, Meant
  <2>6. \A i \in DOMAIN EdgeRows : Told(EdgeRows[i], {from, to}) => (i \in Answered <=> Meant(EdgeRows[i]))
    BY <2>5
  <2> QED BY <1>3, <2>6 DEF WalksExact, q, from, to, Meant
<1> QED BY <1>2, <1>3

(* A walk of one edge finds exactly the edges it describes, for all rows   *)
(* and labels, through the ids the edges are stored under.                 *)
THEOREM WalksFindTheirEdges == Spec => []WalksExact
<1> DEFINE I == ReportInv /\ QueryInv
<1>1. Init => I
  <2>1. Init => QueryInv BY DEF Init, QueryInv
  <2> QED BY <2>1, ReportInit
<1>2. I /\ [Next]_vars => I' BY ReportNext, QueryNext
<1>3. I => WalksExact BY WalksAnswered
<1> QED BY <1>1, <1>2, <1>3, PTL DEF Spec

-------------------------------------------------------------------------------
(* What parseConditions makes of tokens in a row.                          *)

Parses(T, N) == ClauseOf(N, Preds(T))
IsAlphabet(T, N) == (\A t \in T : IsToken(t)) /\ Names(T) \subseteq N

LEMMA ParseRuns ==
  ASSUME NEW T, NEW N, IsAlphabet(T, N), NEW v \in Parses(T, N), NEW tokens \in Seq(T)
  PROVE  /\ \E u : VisitsTo(v, tokens, u) /\ ParseFrom(v, tokens) = u[Len(tokens)]
         /\ ParseFrom(v, tokens) \in Parses(T, N)
<1> DEFINE S == Parses(T, N)
<1>1. \A w \in S, t \in T : Visit(w, t) \in S BY VisitIsTyped DEF Parses, IsAlphabet
<1>2. v \in S OBVIOUS
<1> HIDE DEF S
<1>3. PICK u : VisitsTo(v, tokens, u) /\ ParseFrom(v, tokens) = u[Len(tokens)]
  BY <1>1, <1>2, ParsesOneByOne
<1>4. Len(tokens) \in Nat /\ \A k \in 1 .. Len(tokens) : tokens[k] \in T OBVIOUS
<1>5. u[0] \in S /\ \A k \in 1 .. Len(tokens) : u[k - 1] \in S => u[k] \in S
  BY <1>1, <1>2, <1>3, <1>4 DEF VisitsTo
<1>6. \A k \in 0 .. Len(tokens) : u[k] \in S BY <1>4, <1>5, RunIsTyped
<1>7. u[Len(tokens)] \in S BY <1>4, <1>6
<1> QED BY <1>3, <1>7 DEF S

LEMMA ParseIsRun ==
  ASSUME NEW T, NEW N, IsAlphabet(T, N), NEW v \in Parses(T, N), NEW tokens \in Seq(T),
         NEW w, VisitsTo(v, tokens, w)
  PROVE  ParseFrom(v, tokens) = w[Len(tokens)]
<1>1. PICK u : VisitsTo(v, tokens, u) /\ ParseFrom(v, tokens) = u[Len(tokens)] BY ParseRuns
<1> DEFINE n == Len(tokens)
           E == {k \in 0 .. n : u[k] = w[k]}
<1>2. n \in Nat OBVIOUS
<1>3. 0 \in E BY <1>1, <1>2 DEF VisitsTo
<1>4. \A m \in 0 .. (n - 1) : m \in E => m + 1 \in E
  <2> SUFFICES ASSUME NEW m \in 0 .. (n - 1), m \in E PROVE m + 1 \in E OBVIOUS
  <2>1. m + 1 \in 1 .. n /\ (m + 1) - 1 = m /\ m + 1 \in 0 .. n BY <1>2
  <2>2. u[m + 1] = Visit(u[m], tokens[m + 1]) /\ w[m + 1] = Visit(w[m], tokens[m + 1])
    BY <1>1, <2>1 DEF VisitsTo
  <2> QED BY <2>1, <2>2
<1> HIDE DEF E
<1>5. 0 .. n \subseteq E BY <1>2, <1>3, <1>4, UpTo
<1>6. n \in E BY <1>2, <1>5
<1> QED BY <1>1, <1>6 DEF E

LEMMA ParseFew ==
  ASSUME NEW T, NEW N, IsAlphabet(T, N), NEW v \in Parses(T, N)
  PROVE  /\ ParseFrom(v, <<>>) = v
         /\ \A t \in T : ParseFrom(v, <<t>>) = Visit(v, t)
<1>1. ParseFrom(v, <<>>) = v
  <2>1. VisitsTo(v, <<>>, [k \in {0} |-> v]) BY DEF VisitsTo
  <2>2. <<>> \in Seq(T) /\ Len(<<>>) = 0 OBVIOUS
  <2>3. ParseFrom(v, <<>>) = [k \in {0} |-> v][Len(<<>>)] BY <2>1, <2>2, ParseIsRun
  <2> QED BY <2>2, <2>3
<1>2. ASSUME NEW t \in T PROVE ParseFrom(v, <<t>>) = Visit(v, t)
  <2> DEFINE u == [k \in {0, 1} |-> IF k = 0 THEN v ELSE Visit(v, t)]
             s == <<t>>
  <2>1. Len(s) = 1 /\ s[1] = t /\ s \in Seq(T) OBVIOUS
  <2>2. VisitsTo(v, s, u)
    <3>1. \A k \in 1 .. 1 : k = 1 /\ k - 1 = 0 OBVIOUS
    <3> QED BY <2>1, <3>1 DEF VisitsTo
  <2>3. u[1] = Visit(v, t) OBVIOUS
  <2> HIDE DEF u, s
  <2>4. ParseFrom(v, s) = u[Len(s)] BY <2>1, <2>2, ParseIsRun
  <2> QED BY <2>1, <2>3, <2>4 DEF s
<1> QED BY <1>1, <1>2

LEMMA ParseConcat ==
  ASSUME NEW T, NEW N, IsAlphabet(T, N), NEW v \in Parses(T, N), NEW s \in Seq(T), NEW t \in Seq(T)
  PROVE  ParseFrom(v, s \o t) = ParseFrom(ParseFrom(v, s), t)
<1> DEFINE r == s \o t
           m == Len(s)
           n == Len(t)
<1>1. /\ r \in Seq(T) /\ m \in Nat /\ n \in Nat /\ Len(r) = m + n
      /\ \A k \in 1 .. m : r[k] = s[k]
      /\ \A k \in 1 .. n : r[m + k] = t[k]
  BY ConcatProperties
<1> HIDE DEF r
<1>2. PICK u : VisitsTo(v, r, u) /\ ParseFrom(v, r) = u[Len(r)]
  <2>1. r \in Seq(T) BY <1>1
  <2>2. \E u : VisitsTo(v, r, u) /\ ParseFrom(v, r) = u[Len(r)] BY <2>1, ParseRuns
  <2> QED BY <2>2
<1>3. u[0] = v /\ \A k \in 1 .. m + n : u[k] = Visit(u[k - 1], r[k]) BY <1>1, <1>2 DEF VisitsTo
<1>4. VisitsTo(v, s, u)
  <2>1. \A k \in 1 .. m : u[k] = Visit(u[k - 1], s[k]) BY <1>1, <1>3
  <2> QED BY <1>3, <2>1 DEF VisitsTo
<1>5. ParseFrom(v, s) = u[m] BY <1>4, ParseIsRun
<1>6. u[m] \in Parses(T, N) BY <1>5, ParseRuns
<1> DEFINE w == [k \in 0 .. n |-> u[m + k]]
<1>7. VisitsTo(u[m], t, w)
  <2>1. w[0] = u[m] BY <1>1
  <2>2. ASSUME NEW k \in 1 .. n PROVE w[k] = Visit(w[k - 1], t[k])
    <3>1. m + k \in 1 .. m + n /\ (m + k) - 1 = m + (k - 1) /\ k \in 0 .. n /\ k - 1 \in 0 .. n
      BY <1>1
    <3>2. u[m + k] = Visit(u[(m + k) - 1], r[m + k]) BY <1>3, <3>1
    <3>3. u[m + k] = Visit(u[m + (k - 1)], t[k]) BY <1>1, <3>1, <3>2
    <3> QED BY <3>1, <3>3
  <2> HIDE DEF w
  <2> QED BY <2>1, <2>2 DEF VisitsTo
<1>8. w[n] = u[m + n] BY <1>1
<1> HIDE DEF w
<1>9. ParseFrom(u[m], t) = w[n] BY <1>6, <1>7, ParseIsRun
<1> QED BY <1>1, <1>2, <1>5, <1>8, <1>9 DEF r

(* Tokens of the conditions, one condition after the other.                *)
FlatTo(pieces, g) ==
  g[0] = <<>> /\ \A i \in 1 .. Len(pieces) : g[i] = g[i - 1] \o pieces[i]

LEMMA FlattenGoes ==
  ASSUME NEW T, NEW pieces \in Seq(Seq(T))
  PROVE  \E g \in [0 .. Len(pieces) -> Seq(T)] : FlatTo(pieces, g) /\ FlattenSeq(pieces) = g[Len(pieces)]
<1> DEFINE n == Len(pieces)
           f == [x \in (1 .. n) \X Seq(T) |-> x[2] \o pieces[x[1]]]
           P(h) == h = [i \in 1 .. n |-> IF i = 1 THEN pieces[i] ELSE h[i - 1] \o pieces[i]]
           h == CHOOSE x : P(x)
<1>1. n \in Nat /\ (\A i \in 1 .. n : pieces[i] \in Seq(T)) /\ <<>> \in Seq(T) OBVIOUS
<1>2. f \in Steps(Seq(T), n) /\ \A i \in 1 .. n, s \in Seq(T) : f[<<i, s>>] = s \o pieces[i]
  <2>1. \A x \in (1 .. n) \X Seq(T) : x[2] \o pieces[x[1]] \in Seq(T)
    <3> TAKE x \in (1 .. n) \X Seq(T)
    <3>1. x[2] \in Seq(T) /\ pieces[x[1]] \in Seq(T) BY <1>1
    <3> HIDE DEF n
    <3> QED BY <3>1, ConcatProperties
  <2> QED BY <2>1 DEF Steps
<1>3. FlattenSeq(pieces) = IF n = 0 THEN pieces ELSE h[n] BY DEF FlattenSeq
<1> HIDE DEF f, n
<1>4. PICK g : IsRun(g, Seq(T), <<>>, n, f) BY <1>1, <1>2, Recursion
<1>5. g \in [0 .. n -> Seq(T)] /\ g[0] = <<>> /\ \A i \in 1 .. n : g[i] = g[i - 1] \o pieces[i]
  <2>1. g \in [0 .. n -> Seq(T)] /\ g[0] = <<>> /\ \A i \in 1 .. n : g[i] = f[<<i, g[i - 1]>>]
    BY <1>4 DEF IsRun
  <2>2. \A i \in 1 .. n : i - 1 \in 0 .. n BY <1>1
  <2> QED BY <1>2, <2>1, <2>2
<1> DEFINE w == [i \in 1 .. n |-> g[i]]
<1>6. \A i \in 1 .. n : w[i] = IF i = 1 THEN pieces[i] ELSE w[i - 1] \o pieces[i]
  <2> TAKE i \in 1 .. n
  <2>1. CASE i = 1
    <3>1. g[1] = <<>> \o pieces[1] /\ pieces[1] \in Seq(T)
      <4>1. 1 \in 1 .. n /\ 1 - 1 = 0 BY <2>1
      <4> QED BY <1>1, <1>5, <4>1
    <3>2. <<>> \o pieces[1] = pieces[1] BY <3>1, ConcatEmptySeq
    <3> QED BY <2>1, <3>1, <3>2
  <2>2. CASE i # 1
    <3>1. i - 1 \in 1 .. n BY <1>1, <2>2
    <3> QED BY <1>5, <2>2, <3>1
  <2> QED BY <2>1, <2>2
<1>7. P(w)
  <2>1. w = [i \in 1 .. n |-> w[i]] OBVIOUS
  <2> HIDE DEF w
  <2> QED BY <1>6, <2>1, Zenon
<1>8. P(h)
  <2> HIDE DEF P, w
  <2> QED BY <1>7
<1> HIDE DEF h, w
<1>9. \A i \in 1 .. n : h[i] = IF i = 1 THEN pieces[i] ELSE h[i - 1] \o pieces[i] BY <1>8, Zenon
<1> HIDE DEF P
<1> DEFINE E == {i \in 0 .. n : i = 0 \/ h[i] = g[i]}
<1>10. 0 .. n \subseteq E
  <2>1. 0 \in E BY <1>1
  <2>2. \A m \in 0 .. (n - 1) : m \in E => m + 1 \in E
    <3> SUFFICES ASSUME NEW m \in 0 .. (n - 1), m \in E PROVE m + 1 \in E OBVIOUS
    <3>1. m + 1 \in 1 .. n /\ (m + 1) - 1 = m /\ m + 1 \in 0 .. n BY <1>1
    <3>2. CASE m = 0
      <4>1. h[1] = pieces[1] BY <1>9, <3>1, <3>2
      <4>2. g[1] = <<>> \o pieces[1] /\ pieces[1] \in Seq(T)
        <5>1. 1 \in 1 .. n /\ 1 - 1 = 0 BY <3>1, <3>2
        <5> QED BY <1>1, <1>5, <5>1
      <4>3. <<>> \o pieces[1] = pieces[1] BY <4>2, ConcatEmptySeq
      <4> QED BY <3>1, <3>2, <4>1, <4>2, <4>3
    <3>3. CASE m # 0
      <4>1. h[m + 1] = h[m] \o pieces[m + 1]
        <5>1. m + 1 # 1 BY <1>1, <3>3
        <5>2. h[m + 1] = h[(m + 1) - 1] \o pieces[m + 1] BY <1>9, <3>1, <5>1, Zenon
        <5> QED BY <3>1, <5>2
      <4>2. g[m + 1] = g[m] \o pieces[m + 1] BY <1>5, <3>1
      <4> QED BY <3>1, <3>3, <4>1, <4>2
    <3> QED BY <3>2, <3>3
  <2> HIDE DEF E
  <2> QED BY <1>1, <2>1, <2>2, UpTo
<1>11. FlattenSeq(pieces) = g[n]
  <2>1. CASE n = 0
    <3>1. pieces = <<>> BY <2>1, EmptySeq DEF n
    <3> QED BY <1>3, <1>5, <2>1, <3>1
  <2>2. CASE n # 0
    <3>1. n \in E BY <1>1, <1>10
    <3> QED BY <1>3, <2>2, <3>1
  <2> QED BY <2>1, <2>2
<1>12. FlatTo(pieces, g) BY <1>5 DEF FlatTo, n
<1> QED BY <1>5, <1>11, <1>12 DEF n

-------------------------------------------------------------------------------
(* What one condition adds to the lists.                                   *)

PredOf(c) ==
  CASE c.op = "id" -> [on |-> "key", key |-> c.lit.val]
    [] c.op = "near" -> [on |-> "near", op |-> c.by, vec |-> c.vec, lit |-> c.lit]
    [] OTHER -> [on |-> "attr", op |-> c.op, lit |-> c.lit]
Counts(c) == c.lit.kind # "lambda"

Adds(v, c, i, w) ==
  /\ w.at = v.at
  /\ c.attr # "" => w.last = c.attr
  /\ \A j \in Index \ {i} : w.preds[j] = v.preds[j] /\ w.attrs[j] = v.attrs[j]
  /\ Counts(c) => /\ w.preds[i] = Append(v.preds[i], PredOf(c))
                  /\ w.attrs[i] = IF c.op = "id" THEN v.attrs[i] ELSE Append(v.attrs[i], c.attr)
  /\ ~Counts(c) => /\ w.preds[i] = v.preds[i]
                   /\ w.attrs[i] \in {v.attrs[i], Append(v.attrs[i], c.attr)}

LEMMA AttrAdds ==
  ASSUME NEW N, NEW P, NEW v \in ClauseOf(N, P), NEW i \in Index
  PROVE  LET w == AddAttr(v, i) IN
         /\ w.at = v.at /\ w.last = v.last /\ w.preds = v.preds
         /\ w.attrs[i] = Append(v.attrs[i], v.last) /\ \A j \in Index \ {i} : w.attrs[j] = v.attrs[j]
BY DEF ClauseOf, AddAttr

LEMMA PredAdds ==
  ASSUME NEW N, NEW P, NEW v \in ClauseOf(N, P), NEW i \in Index, NEW p
  PROVE  LET w == AddPred(v, i, p) IN
         /\ w.at = v.at /\ w.last = v.last /\ w.attrs = v.attrs
         /\ w.preds[i] = Append(v.preds[i], p) /\ \A j \in Index \ {i} : w.preds[j] = v.preds[j]
BY DEF ClauseOf, AddPred

(* A value that a name must have.                                          *)
LEMMA EqualAdds ==
  ASSUME NEW N, NEW P, NEW v \in ClauseOf(N, P), NEW i \in Index, NEW c, IsCondition(c),
         c.op \in {"eq", "any"}, v.last = c.attr
  PROVE  Adds(v, c, i, AddEqual(v, c.lit, i))
<1> DEFINE a == AddAttr(v, i)
           p == PredOf(c)
           w == AddPred(a, i, p)
<1>1. a \in ClauseOf(N, P) BY AttrIsTyped
<1>2. AddEqual(v, c.lit, i) = w
  <2>1. p = [on |-> "attr", op |-> c.op, lit |-> c.lit] BY DEF PredOf
  <2>2. c.op = "any" <=> c.lit.kind = "star" BY DEF IsCondition
  <2> HIDE DEF p
  <2> QED BY <2>1, <2>2 DEF AddEqual
<1>3. Counts(c) BY DEF IsCondition, Counts
<1>4. /\ a.at = v.at /\ a.last = v.last /\ a.preds = v.preds
      /\ a.attrs[i] = Append(v.attrs[i], v.last) /\ \A j \in Index \ {i} : a.attrs[j] = v.attrs[j]
  BY AttrAdds
<1> HIDE DEF a, p
<1>5. /\ w.at = a.at /\ w.last = a.last /\ w.attrs = a.attrs
      /\ w.preds[i] = Append(a.preds[i], p) /\ \A j \in Index \ {i} : w.preds[j] = a.preds[j]
  BY <1>1, PredAdds
<1> HIDE DEF w
<1>6. Adds(v, c, i, w) BY <1>3, <1>4, <1>5 DEF Adds, p
<1> QED BY <1>2, <1>6

Equals(lit) == {[on |-> "attr", op |-> op, lit |-> lit] : op \in {"any", "eq"}}

LEMMA NamedRuns ==
  ASSUME NEW N, NEW P, NEW v \in ClauseOf(N, P), NEW i \in Index, NEW L, NEW s \in Seq(L),
         UNION {Equals(lit) : lit \in L} \subseteq P
  PROVE  NamedRun(v, s, i)
<1> DEFINE C == ClauseOf(N, P)
<1>1. \A lit \in L, op \in {"any", "eq"} : [on |-> "attr", op |-> op, lit |-> lit] \in P BY DEF Equals
<1>2. NamedClosed(C, L, i) BY <1>1, EqualIsTyped DEF NamedClosed
<1>3. v \in C OBVIOUS
<1> HIDE DEF C
<1> QED BY <1>2, <1>3, NamesOneByOne

LEMMA NamedNever ==
  ASSUME NEW N, NEW P, NEW v \in ClauseOf(N, P), NEW i \in Index
  PROVE  NamedFrom(v, <<>>, i) = v
<1>1. <<>> \in Seq({}) /\ Len(<<>>) = 0 OBVIOUS
<1>2. NamedRun(v, <<>>, i)
  <2>1. UNION {Equals(lit) : lit \in {}} \subseteq P OBVIOUS
  <2> QED BY <1>1, <2>1, NamedRuns
<1>3. PICK u : NamesTo(v, <<>>, i, u) /\ NamedFrom(v, <<>>, i) = u[Len(<<>>)] BY <1>2 DEF NamedRun
<1> QED BY <1>1, <1>3 DEF NamesTo

LEMMA NamedOnce ==
  ASSUME NEW N, NEW P, NEW v \in ClauseOf(N, P), NEW i \in Index, NEW lit, Equals(lit) \subseteq P
  PROVE  NamedFrom(v, <<lit>>, i) = AddEqual(v, lit, i)
<1>1. <<lit>> \in Seq({lit}) /\ Len(<<lit>>) = 1 /\ <<lit>>[1] = lit OBVIOUS
<1>2. PICK u : NamesTo(v, <<lit>>, i, u) /\ NamedFrom(v, <<lit>>, i) = u[Len(<<lit>>)]
  <2>1. UNION {Equals(x) : x \in {lit}} \subseteq P OBVIOUS
  <2>2. NamedRun(v, <<lit>>, i) BY <1>1, <2>1, NamedRuns
  <2> QED BY <2>2 DEF NamedRun
<1>3. u[0] = v /\ \A k \in 1 .. 1 : u[k] = AddEqual(u[k - 1], <<lit>>[k], i)
  BY <1>1, <1>2 DEF NamesTo
<1>4. 1 \in 1 .. 1 /\ 1 - 1 = 0 OBVIOUS
<1>5. u[1] = AddEqual(u[0], lit, i) BY <1>1, <1>3, <1>4
<1> QED BY <1>1, <1>2, <1>3, <1>5

(* The tokens of a condition.                                              *)
NameOf(c, lits) == [tok |-> "name", name |-> c.attr, lits |-> lits, list |-> FALSE]
NearOf(c) == [tok |-> "near", op |-> c.by, vec |-> c.vec, lit |-> c.lit]
CmpOf(c) == [tok |-> "cmp", op |-> c.op, lit |-> c.lit]
IdOf(c) == [tok |-> "id", key |-> c.lit.val]
NameAnd(c, t) == <<NameOf(c, <<>>)>> \o <<t>>
Renamed(v, name) == [v EXCEPT !.last = name]
TokenSet(c) == {NameOf(c, <<>>), NameOf(c, <<c.lit>>), NearOf(c), CmpOf(c), IdOf(c)}
Tokened(T, c) == TokenSet(c) \subseteq T

LEMMA TwoTokens == ASSUME NEW a, NEW b PROVE <<a, b>> = <<a>> \o <<b>>
<1>1. <<a>> \in Seq({a, b}) /\ b \in {a, b} OBVIOUS
<1>2. Append(<<a>>, b) = <<a>> \o <<b>> BY <1>1, AppendIsConcat
<1>3. Append(<<a>>, b) = <<a, b>>
  <2>1. <<a, b>> \in Seq({a, b}) /\ Len(<<a, b>>) = 2 /\ <<a, b>>[1] = a /\ <<a, b>>[2] = b OBVIOUS
  <2>2. /\ Append(<<a>>, b) \in Seq({a, b}) /\ Len(Append(<<a>>, b)) = 2
        /\ Append(<<a>>, b)[1] = a /\ Append(<<a>>, b)[2] = b
    BY <1>1, AppendProperties
  <2>3. \A k \in 1 .. 2 : k = 1 \/ k = 2 OBVIOUS
  <2> DEFINE s == <<a, b>>
             t == Append(<<a>>, b)
  <2> HIDE DEF s, t
  <2>4. \A k \in 1 .. 2 : s[k] = t[k] BY <2>1, <2>2, <2>3 DEF s, t
  <2>5. s \in Seq({a, b}) /\ t \in Seq({a, b}) /\ Len(s) = 2 /\ Len(t) = 2 BY <2>1, <2>2 DEF s, t
  <2>6. s = t BY <2>4, <2>5, SeqEqual
  <2> QED BY <2>6 DEF s, t
<1> QED BY <1>2, <1>3, Zenon

LEMMA TokensAre ==
  ASSUME NEW c, NEW before
  PROVE  /\ c.op = "id" => TokensOf(c, before) = <<IdOf(c)>>
         /\ c.op \in {"eq", "any"} => TokensOf(c, before) = <<NameOf(c, <<c.lit>>)>>
         /\ c.op = "near" => TokensOf(c, before) = NameAnd(c, NearOf(c))
         /\ c.op \in Comparisons /\ c.attr = before => TokensOf(c, before) = <<CmpOf(c)>>
         /\ c.op \in Comparisons /\ c.attr # before =>
              TokensOf(c, before) = NameAnd(c, CmpOf(c))
<1>1. c.op = "near" => TokensOf(c, before) = NameAnd(c, NearOf(c))
  <2>1. c.op = "near" => TokensOf(c, before) = <<NameOf(c, <<>>), NearOf(c)>>
    BY DEF TokensOf, NameOf, NearOf
  <2> QED BY <2>1, TwoTokens DEF NameAnd
<1>2. c.op \in Comparisons /\ c.attr = before => TokensOf(c, before) = <<CmpOf(c)>>
  <2>1. <<>> \o <<CmpOf(c)>> = <<CmpOf(c)>> OBVIOUS
  <2> QED BY <2>1 DEF TokensOf, CmpOf, Comparisons
<1>3. c.op \in Comparisons /\ c.attr # before => TokensOf(c, before) = NameAnd(c, CmpOf(c))
  BY DEF TokensOf, NameOf, CmpOf, Comparisons, NameAnd
<1>4. c.op = "id" => TokensOf(c, before) = <<IdOf(c)>> BY DEF TokensOf, IdOf
<1>5. c.op \in {"eq", "any"} => TokensOf(c, before) = <<NameOf(c, <<c.lit>>)>> BY DEF TokensOf, NameOf
<1> QED BY <1>1, <1>2, <1>3, <1>4, <1>5

LEMMA NameVisited ==
  ASSUME NEW T, NEW N, IsAlphabet(T, N), NEW v \in Parses(T, N), NEW c, NEW lits, NameOf(c, lits) \in T
  PROVE  LET w == [v EXCEPT !.last = c.attr] IN
         w \in Parses(T, N) /\ Visit(v, NameOf(c, lits)) = NamedFrom(w, lits, v.at) /\ v.at \in Index
<1> DEFINE t == NameOf(c, lits)
           w == [v EXCEPT !.last = c.attr]
<1>1. t.tok = "name" /\ t.name = c.attr /\ t.lits = lits /\ ~t.list BY DEF NameOf
<1>2. w \in Parses(T, N)
  <2>1. t.name \in N BY DEF Names, IsAlphabet
  <2> QED BY <1>1, <2>1 DEF Parses, ClauseOf
<1> HIDE DEF t
<1>3. Visit(v, t) = VisitName(v, t) BY <1>1 DEF Visit
<1>4. VisitName(v, t) = NamedFrom(w, lits, v.at)
  BY <1>1 DEF VisitName, NamedFrom, FoldLeft, MapThenFoldSet, AddEqual
<1> QED BY <1>2, <1>3, <1>4 DEF t, Parses, ClauseOf

LEMMA NameIsKept ==
  ASSUME NEW T, NEW N, IsAlphabet(T, N), NEW v \in Parses(T, N), NEW c, NameOf(c, <<>>) \in T
  PROVE  ParseFrom(v, <<NameOf(c, <<>>)>>) = [v EXCEPT !.last = c.attr]
<1> DEFINE w == [v EXCEPT !.last = c.attr]
<1>1. w \in Parses(T, N) /\ Visit(v, NameOf(c, <<>>)) = NamedFrom(w, <<>>, v.at) /\ v.at \in Index
  BY NameVisited
<1> HIDE DEF w
<1>2. NamedFrom(w, <<>>, v.at) = w BY <1>1, NamedNever DEF Parses
<1> QED BY <1>1, <1>2, ParseFew DEF w

LEMMA LastIsSet ==
  ASSUME NEW N, NEW P, NEW v \in ClauseOf(N, P), NEW name
  PROVE  LET w == [v EXCEPT !.last = name] IN
         w.at = v.at /\ w.last = name /\ w.attrs = v.attrs /\ w.preds = v.preds
BY DEF ClauseOf

(* Adds looks at the lists only.                                           *)
LEMMA AddsFrom ==
  ASSUME NEW v, NEW u, NEW c, NEW i, NEW w, Adds(u, c, i, w),
         u.at = v.at, u.attrs = v.attrs, u.preds = v.preds
  PROVE  Adds(v, c, i, w)
BY DEF Adds

LEMMA CompareAdds ==
  ASSUME NEW T, NEW N, NEW v \in Parses(T, N), NEW c, IsCondition(c), c.op \in Comparisons, v.last = c.attr,
         NEW i \in Index, v.at = i
  PROVE  Adds(v, c, i, Visit(v, CmpOf(c)))
<1> DEFINE t == CmpOf(c)
           a == AddAttr(v, i)
           p == PredOf(c)
           w == AddPred(a, i, p)
<1>1. t.tok = "cmp" /\ t.op = c.op /\ t.lit = c.lit BY DEF CmpOf
<1>2. p = [on |-> "attr", op |-> c.op, lit |-> c.lit] BY DEF PredOf, Comparisons
<1>3. a \in Parses(T, N) BY AttrIsTyped DEF Parses
<1>4. /\ a.at = v.at /\ a.last = v.last /\ a.preds = v.preds
      /\ a.attrs[i] = Append(v.attrs[i], v.last) /\ \A j \in Index \ {i} : a.attrs[j] = v.attrs[j]
  BY AttrAdds DEF Parses
<1> HIDE DEF t, p
<1>5. Visit(v, t) = VisitCompare(v, t) BY <1>1 DEF Visit
<1>6. Visit(v, t) = IF Counts(c) THEN w ELSE a BY <1>1, <1>2, <1>5 DEF VisitCompare, Literal, Counts
<1>7. c.op # "id" BY DEF Comparisons
<1> HIDE DEF a
<1>8. /\ w.at = a.at /\ w.last = a.last /\ w.attrs = a.attrs
      /\ w.preds[i] = Append(a.preds[i], p) /\ \A j \in Index \ {i} : w.preds[j] = a.preds[j]
  BY <1>3, PredAdds DEF Parses
<1> HIDE DEF w
<1>9. CASE Counts(c)
  <2>1. Adds(v, c, i, w) BY <1>4, <1>7, <1>8, <1>9 DEF Adds, p
  <2> QED BY <1>6, <1>9, <2>1 DEF t
<1>10. CASE ~Counts(c)
  <2>1. Adds(v, c, i, a) BY <1>4, <1>10 DEF Adds
  <2> QED BY <1>6, <1>10, <2>1 DEF t
<1> QED BY <1>9, <1>10

LEMMA NearAdds ==
  ASSUME NEW T, NEW N, NEW v \in Parses(T, N), NEW c, IsCondition(c), c.op = "near", v.last = c.attr,
         NEW i \in Index, v.at = i
  PROVE  Adds(v, c, i, Visit(v, NearOf(c)))
<1> DEFINE t == NearOf(c)
           p == PredOf(c)
           a == AddPred(v, i, p)
           w == AddAttr(a, i)
<1>1. t.tok = "near" /\ t.op = c.by /\ t.vec = c.vec /\ t.lit = c.lit BY DEF NearOf
<1>2. p = [on |-> "near", op |-> c.by, vec |-> c.vec, lit |-> c.lit] BY DEF PredOf
<1> HIDE DEF t, p
<1>3. /\ a.at = v.at /\ a.last = v.last /\ a.attrs = v.attrs
      /\ a.preds[i] = Append(v.preds[i], p) /\ \A j \in Index \ {i} : a.preds[j] = v.preds[j]
  BY PredAdds DEF Parses
<1>4. Visit(v, t) = VisitNear(v, t) BY <1>1 DEF Visit
<1>5. Visit(v, t) = IF Counts(c) THEN w ELSE v BY <1>1, <1>2, <1>4 DEF VisitNear, Literal, Counts
<1>6. CASE ~Counts(c)
  <2>1. Adds(v, c, i, v) BY <1>6 DEF Adds
  <2> QED BY <1>5, <1>6, <2>1 DEF t
<1>7. CASE Counts(c)
  <2>1. a.attrs \in [Index -> Seq(N)] BY <1>3 DEF Parses, ClauseOf
  <2>2. a = [v EXCEPT !.preds[i] = Append(@, p)] BY DEF AddPred
  <2>3. /\ w.at = a.at /\ w.last = a.last /\ w.preds = a.preds
        /\ w.attrs[i] = Append(a.attrs[i], a.last) /\ \A j \in Index \ {i} : w.attrs[j] = a.attrs[j]
    BY <2>1, <2>2 DEF AddAttr, Parses, ClauseOf
  <2> HIDE DEF a, w
  <2>4. Adds(v, c, i, w) BY <1>3, <1>7, <2>3 DEF Adds, p
  <2> QED BY <1>5, <1>7, <2>4 DEF t
<1> QED BY <1>6, <1>7

LEMMA IdAdds ==
  ASSUME NEW T, NEW N, NEW v \in Parses(T, N), NEW c, IsCondition(c), c.op = "id", NEW i \in Index, v.at = i
  PROVE  Adds(v, c, i, Visit(v, IdOf(c)))
<1> DEFINE p == PredOf(c)
           w == AddPred(v, i, p)
<1>1. p = [on |-> "key", key |-> c.lit.val] BY DEF PredOf
<1>2. IdOf(c).tok = "id" /\ IdOf(c).key = c.lit.val BY DEF IdOf
<1> HIDE DEF p
<1>3. Visit(v, IdOf(c)) = w BY <1>1, <1>2 DEF Visit
<1>4. /\ w.at = v.at /\ w.last = v.last /\ w.attrs = v.attrs
      /\ w.preds[i] = Append(v.preds[i], p) /\ \A j \in Index \ {i} : w.preds[j] = v.preds[j]
  BY PredAdds DEF Parses
<1>5. Counts(c) /\ c.attr = "" BY DEF Counts, IsCondition
<1> HIDE DEF w
<1>6. Adds(v, c, i, w) BY <1>4, <1>5 DEF Adds, p
<1> QED BY <1>3, <1>6

LEMMA EqualsAreTyped ==
  ASSUME NEW T, NEW c, NameOf(c, <<c.lit>>) \in T PROVE Equals(c.lit) \subseteq Preds(T)
<1> DEFINE t == NameOf(c, <<c.lit>>)
           D == {[on |-> "attr", op |-> op, lit |-> lit] : op \in {"any", "eq"}, lit \in Literals(T)}
<1>1. t.tok = "name" /\ t.lits = <<c.lit>> BY DEF NameOf
<1>2. c.lit \in ToSet(<<c.lit>>)
  <2>1. <<c.lit>>[1] = c.lit /\ 1 \in DOMAIN <<c.lit>> OBVIOUS
  <2> QED BY <2>1 DEF ToSet
<1> HIDE DEF t
<1>3. c.lit \in Literals(T)
  <2>1. t \in {x \in T : x.tok = "name"} BY <1>1 DEF t
  <2>2. ToSet(t.lits) \in {ToSet(x.lits) : x \in {y \in T : y.tok = "name"}} BY <2>1
  <2> QED BY <1>1, <1>2, <2>2 DEF Literals
<1>4. D \subseteq Preds(T) BY DEF Preds
<1>5. Equals(c.lit) \subseteq D BY <1>3 DEF Equals
<1> QED BY <1>4, <1>5

LEMMA OneToken == ASSUME NEW T, NEW t \in T PROVE <<t>> \in Seq(T)
OBVIOUS

LEMMA NameThen ==
  ASSUME NEW T, NEW N, IsAlphabet(T, N), NEW v \in Parses(T, N), NEW c, Tokened(T, c), NEW t \in T
  PROVE  ParseFrom(v, NameAnd(c, t)) = Visit(Renamed(v, c.attr), t)
<1> DEFINE a == NameOf(c, <<>>)
           s == <<a>>
           e == <<t>>
           u == Renamed(v, c.attr)
<1>0. a \in T BY DEF Tokened, TokenSet
<1>1. ParseFrom(v, s) = u BY <1>0, NameIsKept DEF Renamed
<1>2. u \in Parses(T, N) BY <1>0, NameVisited DEF Renamed
<1> HIDE DEF a, u
<1>3. s \in Seq(T) /\ e \in Seq(T) BY <1>0, OneToken
<1>4. ParseFrom(u, e) = Visit(u, t) BY <1>2, ParseFew
<1> HIDE DEF s, e
<1>5. ParseFrom(v, s \o e) = ParseFrom(ParseFrom(v, s), e) BY <1>3, ParseConcat
<1> QED BY <1>1, <1>4, <1>5 DEF a, s, e, u, NameAnd

LEMMA EqualOnce ==
  ASSUME NEW T, NEW N, NEW u \in Parses(T, N), NEW i \in Index, NEW lit, Equals(lit) \subseteq Preds(T)
  PROVE  NamedFrom(u, <<lit>>, i) = AddEqual(u, lit, i)
<1> DEFINE P == Preds(T)
<1>1. u \in ClauseOf(N, P) /\ Equals(lit) \subseteq P BY DEF Parses
<1> HIDE DEF P
<1> QED BY <1>1, NamedOnce

After(v, before) == before # "" => v.last = before
LEMMA ConditionAdds ==
  ASSUME NEW T, NEW N, IsAlphabet(T, N), NEW v \in Parses(T, N), NEW c, IsCondition(c), Tokened(T, c),
         NEW before, After(v, before)
  PROVE  Adds(v, c, v.at, ParseFrom(v, TokensOf(c, before)))
<1> DEFINE i == v.at
           u == Renamed(v, c.attr)
<1>1. i \in Index BY DEF Parses, ClauseOf
<1>2. /\ NameOf(c, <<>>) \in T /\ NameOf(c, <<c.lit>>) \in T /\ NearOf(c) \in T
      /\ CmpOf(c) \in T /\ IdOf(c) \in T
  BY DEF Tokened, TokenSet
<1>3. u \in Parses(T, N) BY <1>2, NameVisited DEF Renamed
<1>4. u.at = v.at /\ u.last = c.attr /\ u.attrs = v.attrs /\ u.preds = v.preds
  BY DEF Parses, ClauseOf, Renamed
<1> HIDE DEF u, i
<1>5. \A t \in T : ParseFrom(v, NameAnd(c, t)) = Visit(u, t)
  <2> TAKE t \in T
  <2>1. ParseFrom(v, NameAnd(c, t)) = Visit(Renamed(v, c.attr), t) BY NameThen
  <2> QED BY <2>1 DEF u
<1>6. CASE c.op = "id"
  <2>1. ParseFrom(v, TokensOf(c, before)) = Visit(v, IdOf(c)) BY <1>2, <1>6, ParseFew, TokensAre
  <2> QED BY <1>1, <1>6, <2>1, IdAdds DEF i
<1>7. CASE c.op \in {"eq", "any"}
  <2>1. ParseFrom(v, TokensOf(c, before)) = Visit(v, NameOf(c, <<c.lit>>)) BY <1>2, <1>7, ParseFew, TokensAre
  <2>2. Visit(v, NameOf(c, <<c.lit>>)) = NamedFrom(u, <<c.lit>>, i) BY <1>2, NameVisited DEF u, i, Renamed
  <2>3. Equals(c.lit) \subseteq Preds(T) BY <1>2, EqualsAreTyped
  <2>4. NamedFrom(u, <<c.lit>>, i) = AddEqual(u, c.lit, i) BY <1>1, <1>3, <2>3, EqualOnce
  <2>5. Adds(u, c, i, AddEqual(u, c.lit, i)) BY <1>1, <1>3, <1>4, <1>7, EqualAdds DEF Parses
  <2> QED BY <1>4, <2>1, <2>2, <2>4, <2>5, AddsFrom DEF i
<1>8. CASE c.op = "near"
  <2>1. ParseFrom(v, TokensOf(c, before)) = Visit(u, NearOf(c)) BY <1>2, <1>5, <1>8, TokensAre
  <2>2. Adds(u, c, i, Visit(u, NearOf(c))) BY <1>1, <1>3, <1>4, <1>8, NearAdds DEF i
  <2> QED BY <1>4, <2>1, <2>2, AddsFrom DEF i
<1>9. CASE c.op \in Comparisons /\ c.attr = before
  <2>1. ParseFrom(v, TokensOf(c, before)) = Visit(v, CmpOf(c)) BY <1>2, <1>9, ParseFew, TokensAre
  <2>2. v.last = c.attr BY <1>9 DEF IsCondition, Comparisons, After
  <2> QED BY <1>1, <1>9, <2>1, <2>2, CompareAdds DEF i
<1>10. CASE c.op \in Comparisons /\ c.attr # before
  <2>1. ParseFrom(v, TokensOf(c, before)) = Visit(u, CmpOf(c)) BY <1>2, <1>5, <1>10, TokensAre
  <2>2. Adds(u, c, i, Visit(u, CmpOf(c))) BY <1>1, <1>3, <1>4, <1>10, CompareAdds DEF i
  <2> QED BY <1>4, <2>1, <2>2, AddsFrom DEF i
<1> QED BY <1>6, <1>7, <1>8, <1>9, <1>10 DEF IsCondition

-------------------------------------------------------------------------------
(* What the conditions of a list leave in it.                              *)

Others(preds, n) == {j \in 1 .. n : preds[j].on # "key"}
NextOf(preds, k) == 1 + Cardinality(Others(preds, k - 1))
AllCount(cs, n) == \A m \in 1 .. n : Counts(cs[m])

PosOf(cs, n, preds, pos) ==
  /\ \A k \in 1 .. Len(preds) : pos[k] \in 1 .. n /\ Counts(cs[pos[k]]) /\ preds[k] = PredOf(cs[pos[k]])
  /\ \A m \in 1 .. n : Counts(cs[m]) => \E k \in 1 .. Len(preds) : pos[k] = m
  /\ \A m \in 1 .. n : Counts(cs[m]) => Len(preds) >= 1 /\ pos[1] <= m
NamesKept(cs, n, attrs, preds, pos) ==
  /\ \A k \in 1 .. Len(preds) :
       preds[k].on # "key" => NextOf(preds, k) \in 1 .. Len(attrs) /\ attrs[NextOf(preds, k)] = cs[pos[k]].attr
  /\ AllCount(cs, n) => Len(attrs) = Cardinality(Others(preds, Len(preds)))
KeptTo(cs, n, attrs, preds) == \E pos : PosOf(cs, n, preds, pos) /\ NamesKept(cs, n, attrs, preds, pos)

LEMMA OthersCounted ==
  ASSUME NEW preds, NEW n \in Nat
  PROVE  /\ IsFiniteSet(Others(preds, n)) /\ Cardinality(Others(preds, n)) \in Nat
         /\ Cardinality(Others(preds, 0)) = 0
         /\ n >= 1 => Cardinality(Others(preds, n)) =
                        Cardinality(Others(preds, n - 1)) + (IF preds[n].on # "key" THEN 1 ELSE 0)
<1>1. ASSUME NEW m \in Nat PROVE IsFiniteSet(Others(preds, m)) /\ Cardinality(Others(preds, m)) \in Nat
  <2>1. IsFiniteSet(1 .. m) BY FS_Interval
  <2>2. Others(preds, m) \subseteq 1 .. m BY DEF Others
  <2>3. IsFiniteSet(Others(preds, m)) BY <2>1, <2>2, FS_Subset
  <2> QED BY <2>3, FS_CardinalityType
<1>2. Cardinality(Others(preds, 0)) = 0
  <2>1. Others(preds, 0) = {} BY DEF Others
  <2> QED BY <2>1, FS_EmptySet
<1>3. ASSUME n >= 1 PROVE Cardinality(Others(preds, n)) =
                        Cardinality(Others(preds, n - 1)) + (IF preds[n].on # "key" THEN 1 ELSE 0)
  <2> DEFINE S == Others(preds, n - 1)
  <2>1. n - 1 \in Nat /\ n \notin S BY <1>3 DEF Others
  <2>2. IsFiniteSet(S) /\ Cardinality(S) \in Nat BY <1>1, <2>1
  <2>3. CASE preds[n].on # "key"
    <3>1. Others(preds, n) = S \cup {n} BY <1>3, <2>3 DEF Others
    <3> HIDE DEF S
    <3>2. Cardinality(S \cup {n}) = Cardinality(S) + 1 BY <2>1, <2>2, FS_AddElement
    <3> QED BY <2>3, <3>1, <3>2 DEF S
  <2>4. CASE preds[n].on = "key"
    <3>1. Others(preds, n) = S BY <1>3, <2>4 DEF Others
    <3> HIDE DEF S
    <3> QED BY <2>2, <2>4, <3>1 DEF S
  <2> QED BY <2>3, <2>4
<1> QED BY <1>1, <1>2, <1>3

(* One predicate more does not move the names of those before it.          *)
LEMMA OthersStay ==
  ASSUME NEW P, NEW preds \in Seq(P), NEW p \in P, NEW k \in 0 .. Len(preds)
  PROVE  Others(Append(preds, p), k) = Others(preds, k)
<1>1. \A j \in 1 .. k : Append(preds, p)[j] = preds[j] BY AppendProperties
<1> HIDE DEF Others
<1>2. \A j : j \in 1 .. k => Append(preds, p)[j].on = preds[j].on BY <1>1
<1> QED BY <1>2, Zenon DEF Others

LEMMA NothingKept == ASSUME NEW cs PROVE KeptTo(cs, 0, <<>>, <<>>)
<1>1. Len(<<>>) = 0 /\ Cardinality(Others(<<>>, 0)) = 0
  <2>1. Others(<<>>, 0) = {} BY DEF Others
  <2> QED BY <2>1, FS_EmptySet
<1> HIDE DEF Others
<1>2. PosOf(cs, 0, <<>>, <<>>) BY <1>1 DEF PosOf
<1>3. NamesKept(cs, 0, <<>>, <<>>, <<>>) BY <1>1 DEF NamesKept
<1> QED BY <1>2, <1>3 DEF KeptTo

LEMMA PosGrows ==
  ASSUME NEW cs, NEW n \in Nat, NEW P, NEW preds \in Seq(P), NEW pos, PosOf(cs, n, preds, pos),
         Counts(cs[n + 1]), NEW p \in P, p = PredOf(cs[n + 1]),
         NEW at, at[Len(preds) + 1] = n + 1, \A k \in 1 .. Len(preds) : at[k] = pos[k]
  PROVE  PosOf(cs, n + 1, Append(preds, p), at)
<1> DEFINE L == Len(preds)
           more == Append(preds, p)
<1>1. L \in Nat /\ Len(more) = L + 1 /\ more[L + 1] = p /\ \A k \in 1 .. L : more[k] = preds[k]
  BY AppendProperties
<1>2. at[L + 1] = n + 1 /\ \A k \in 1 .. L : at[k] = pos[k] OBVIOUS
<1> HIDE DEF more, L
<1>3. /\ \A k \in 1 .. L : pos[k] \in 1 .. n /\ Counts(cs[pos[k]]) /\ preds[k] = PredOf(cs[pos[k]])
      /\ \A m \in 1 .. n : Counts(cs[m]) => \E k \in 1 .. L : pos[k] = m
      /\ \A m \in 1 .. n : Counts(cs[m]) => L >= 1 /\ pos[1] <= m
  BY DEF PosOf, L
<1>4. ASSUME NEW k \in 1 .. L + 1
      PROVE  at[k] \in 1 .. n + 1 /\ Counts(cs[at[k]]) /\ more[k] = PredOf(cs[at[k]])
  <2>1. CASE k = L + 1
    <3>1. at[k] = n + 1 /\ more[k] = p BY <1>1, <1>2, <2>1
    <3> QED BY <3>1
  <2>2. CASE k # L + 1
    <3>1. k \in 1 .. L BY <1>1, <2>2
    <3>2. at[k] = pos[k] /\ more[k] = preds[k] BY <1>1, <1>2, <3>1
    <3>3. pos[k] \in 1 .. n + 1 BY <1>3, <3>1
    <3> QED BY <1>3, <3>1, <3>2, <3>3
  <2> QED BY <2>1, <2>2
<1>5. ASSUME NEW m \in 1 .. n + 1, Counts(cs[m])
      PROVE  /\ \E k \in 1 .. L + 1 : at[k] = m
             /\ L + 1 >= 1 /\ at[1] <= m
  <2>1. CASE m = n + 1
    <3>1. L + 1 \in 1 .. L + 1 /\ 1 \in 1 .. L + 1 BY <1>1
    <3>2. at[1] \in 1 .. n + 1 BY <1>4, <3>1
    <3> QED BY <1>1, <1>2, <2>1, <3>1, <3>2
  <2>2. CASE m # n + 1
    <3>1. m \in 1 .. n BY <2>2
    <3>2. PICK k \in 1 .. L : pos[k] = m BY <1>3, <1>5, <3>1
    <3>3. L >= 1 /\ pos[1] <= m BY <1>3, <1>5, <3>1
    <3>4. k \in 1 .. L + 1 /\ 1 \in 1 .. L BY <1>1, <3>3
    <3> QED BY <1>1, <1>2, <3>2, <3>3, <3>4
  <2> QED BY <2>1, <2>2
<1>6. PosOf(cs, n + 1, more, at) BY <1>1, <1>4, <1>5 DEF PosOf
<1> QED BY <1>6 DEF more

LEMMA PosStays ==
  ASSUME NEW cs, NEW n \in Nat, NEW preds, NEW pos, PosOf(cs, n, preds, pos), ~Counts(cs[n + 1])
  PROVE  PosOf(cs, n + 1, preds, pos)
<1>1. \A m \in 1 .. n + 1 : Counts(cs[m]) => m \in 1 .. n
  <2> TAKE m \in 1 .. n + 1
  <2>1. m = n + 1 \/ m \in 1 .. n OBVIOUS
  <2> QED BY <2>1
<1>2. \A x : x \in 1 .. n => x \in 1 .. n + 1 OBVIOUS
<1> QED BY <1>1, <1>2 DEF PosOf

(* A name that is added does not move the names of the predicates.         *)
LEMMA NamesHold ==
  ASSUME NEW cs, NEW n \in Nat, NEW N, NEW attrs \in Seq(N), NEW P, NEW preds \in Seq(P), NEW pos,
         NamesKept(cs, n, attrs, preds, pos), NEW more, more \in {attrs} \cup {Append(attrs, a) : a \in N}
  PROVE  \A k \in 1 .. Len(preds) :
           preds[k].on # "key" => NextOf(preds, k) \in 1 .. Len(more) /\ more[NextOf(preds, k)] = cs[pos[k]].attr
<1> TAKE k \in 1 .. Len(preds)
<1> HAVE preds[k].on # "key"
<1>1. NextOf(preds, k) \in 1 .. Len(attrs) /\ attrs[NextOf(preds, k)] = cs[pos[k]].attr BY DEF NamesKept
<1> DEFINE x == NextOf(preds, k)
<1> HIDE DEF x
<1>2. CASE more = attrs BY <1>1, <1>2
<1>3. CASE more # attrs
  <2>1. PICK a \in N : more = Append(attrs, a) BY <1>3
  <2>2. Len(more) = Len(attrs) + 1 /\ Len(attrs) \in Nat /\ \A j \in 1 .. Len(attrs) : more[j] = attrs[j]
    BY <2>1, AppendProperties
  <2>3. x \in 1 .. Len(attrs) /\ attrs[x] = cs[pos[k]].attr BY <1>1 DEF x
  <2>4. x \in 1 .. Len(more) /\ more[x] = cs[pos[k]].attr BY <2>2, <2>3
  <2> QED BY <2>4 DEF x
<1> QED BY <1>2, <1>3

LEMMA AllCounted ==
  ASSUME NEW cs, NEW n \in Nat
  PROVE  AllCount(cs, n + 1) <=> AllCount(cs, n) /\ Counts(cs[n + 1])
<1>1. \A m : m \in 1 .. n + 1 <=> m \in 1 .. n \/ m = n + 1 OBVIOUS
<1> QED BY <1>1 DEF AllCount

LEMMA NamesGrow ==
  ASSUME NEW cs, NEW n \in Nat, NEW N, NEW attrs \in Seq(N), NEW P, NEW preds \in Seq(P), NEW pos,
         NamesKept(cs, n, attrs, preds, pos), NEW p \in P, Counts(cs[n + 1]),
         NEW after \in Seq(N), NEW at, at[Len(preds) + 1] = n + 1, \A k \in 1 .. Len(preds) : at[k] = pos[k],
         \/ p.on = "key" /\ after = attrs
         \/ p.on # "key" /\ AllCount(cs, n) /\ cs[n + 1].attr \in N /\ after = Append(attrs, cs[n + 1].attr)
  PROVE  NamesKept(cs, n + 1, after, Append(preds, p), at)
<1> DEFINE L == Len(preds)
           more == Append(preds, p)
<1>1. L \in Nat /\ Len(more) = L + 1 /\ more[L + 1] = p /\ (\A k \in 1 .. L : more[k] = preds[k])
      /\ more \in Seq(P)
  BY AppendProperties
<1>2. \A k \in 0 .. L : Others(more, k) = Others(preds, k) BY OthersStay
<1>3. \A k \in 1 .. L + 1 : NextOf(more, k) = NextOf(preds, k)
  <2> TAKE k \in 1 .. L + 1
  <2>1. k - 1 \in 0 .. L BY <1>1
  <2> QED BY <1>2, <2>1 DEF NextOf
<1>4. after \in {attrs} \cup {Append(attrs, a) : a \in N} OBVIOUS
<1>5. \A k \in 1 .. L : preds[k].on # "key" =>
        NextOf(preds, k) \in 1 .. Len(after) /\ after[NextOf(preds, k)] = cs[pos[k]].attr
  BY <1>4, NamesHold
<1>6. AllCount(cs, n) => Len(attrs) = Cardinality(Others(preds, L)) BY DEF NamesKept
<1>7. Cardinality(Others(more, L + 1)) = Cardinality(Others(preds, L)) + (IF p.on # "key" THEN 1 ELSE 0)
      /\ Cardinality(Others(preds, L)) \in Nat
  <2>1. L + 1 \in Nat /\ L + 1 >= 1 /\ (L + 1) - 1 = L /\ L \in 0 .. L BY <1>1
  <2>2. Cardinality(Others(more, L + 1)) =
          Cardinality(Others(more, (L + 1) - 1)) + (IF more[L + 1].on # "key" THEN 1 ELSE 0)
    BY <2>1, OthersCounted
  <2>3. Cardinality(Others(preds, L)) \in Nat BY <1>1, OthersCounted
  <2> QED BY <1>1, <1>2, <2>1, <2>2, <2>3
<1> HIDE DEF more, L, NamesKept
<1>8. ASSUME NEW k \in 1 .. L + 1, more[k].on # "key"
      PROVE  NextOf(more, k) \in 1 .. Len(after) /\ after[NextOf(more, k)] = cs[at[k]].attr
  <2>1. CASE k = L + 1
    <3>1. p.on # "key" BY <1>1, <1>8, <2>1
    <3>2. AllCount(cs, n) /\ after = Append(attrs, cs[n + 1].attr) /\ cs[n + 1].attr \in N BY <3>1
    <3>3. NextOf(more, k) = 1 + Cardinality(Others(preds, L))
      <4>1. k - 1 = L /\ L \in 0 .. L BY <1>1, <2>1
      <4> QED BY <1>2, <4>1 DEF NextOf
    <3>4. NextOf(more, k) = Len(attrs) + 1 BY <1>6, <1>7, <3>2, <3>3
    <3>5. Len(after) = Len(attrs) + 1 /\ after[Len(attrs) + 1] = cs[n + 1].attr /\ Len(attrs) \in Nat
      BY <3>2, AppendProperties
    <3>6. at[k] = n + 1 BY <2>1 DEF L
    <3> QED BY <3>4, <3>5, <3>6
  <2>2. CASE k # L + 1
    <3>1. k \in 1 .. L BY <1>1, <2>2
    <3>2. preds[k].on # "key" BY <1>1, <1>8, <3>1
    <3>3. at[k] = pos[k] BY <3>1 DEF L
    <3> QED BY <1>3, <1>5, <3>1, <3>2, <3>3
  <2> QED BY <2>1, <2>2
<1>9. AllCount(cs, n + 1) => Len(after) = Cardinality(Others(more, L + 1))
  <2> HAVE AllCount(cs, n + 1)
  <2>1. Len(attrs) = Cardinality(Others(preds, L)) BY <1>6, AllCounted
  <2>2. CASE p.on = "key" BY <1>7, <2>1, <2>2
  <2>3. CASE p.on # "key"
    <3>1. after = Append(attrs, cs[n + 1].attr) /\ cs[n + 1].attr \in N BY <2>3
    <3>2. Len(after) = Len(attrs) + 1 BY <3>1, AppendProperties
    <3> QED BY <1>7, <2>1, <2>3, <3>2
  <2> QED BY <2>2, <2>3
<1>10. NamesKept(cs, n + 1, after, more, at) BY <1>1, <1>8, <1>9 DEF NamesKept
<1> QED BY <1>10 DEF more

LEMMA SeqOfMore == ASSUME NEW S, NEW s \in Seq(S), NEW x PROVE s \in Seq(S \cup {x}) /\ Append(s, x) \in Seq(S \cup {x})
<1>1. S \subseteq S \cup {x} OBVIOUS
<1>2. s \in Seq(S \cup {x}) BY <1>1, SeqMonotonic
<1> QED BY <1>2, AppendProperties

KeptMore(cs, n, attrs, preds, after, left) ==
  LET c == cs[n + 1] IN
  /\ Counts(c) => /\ left = Append(preds, PredOf(c))
                  /\ after = IF c.op = "id" THEN attrs ELSE Append(attrs, c.attr)
  /\ ~Counts(c) => left = preds /\ after \in {attrs, Append(attrs, c.attr)}

LEMMA KeptStep ==
  ASSUME NEW cs, NEW n \in Nat, IsCondition(cs[n + 1]), AllCount(cs, n) \/ cs[n + 1].op = "id",
         NEW N, NEW attrs \in Seq(N), NEW P, NEW preds \in Seq(P), KeptTo(cs, n, attrs, preds),
         NEW after, NEW left, KeptMore(cs, n, attrs, preds, after, left)
  PROVE  KeptTo(cs, n + 1, after, left)
<1> DEFINE c == cs[n + 1]
           p == PredOf(c)
           M == N \cup {c.attr}
           Q == P \cup {p}
           L == Len(preds)
<1>1. attrs \in Seq(M) /\ preds \in Seq(Q) /\ Append(attrs, c.attr) \in Seq(M) /\ p \in Q /\ c.attr \in M
  BY SeqOfMore
<1>2. PICK pos : PosOf(cs, n, preds, pos) /\ NamesKept(cs, n, attrs, preds, pos) BY DEF KeptTo
<1>3. p.on = "key" <=> c.op = "id" BY DEF PredOf
<1>4. L \in Nat BY <1>1
<1>5. IsCondition(c) /\ (AllCount(cs, n) \/ c.op = "id") OBVIOUS
<1>6. /\ Counts(c) => /\ left = Append(preds, p)
                      /\ after = IF c.op = "id" THEN attrs ELSE Append(attrs, c.attr)
      /\ ~Counts(c) => left = preds /\ after \in {attrs, Append(attrs, c.attr)}
  BY DEF KeptMore
<1> HIDE DEF p, M, Q, KeptMore, L
<1>7. CASE Counts(c)
  <2> DEFINE at == [k \in 1 .. L + 1 |-> IF k = L + 1 THEN n + 1 ELSE pos[k]]
  <2>1. at[L + 1] = n + 1 /\ \A k \in 1 .. L : at[k] = pos[k] BY <1>4
  <2> HIDE DEF at
  <2>2. PosOf(cs, n + 1, Append(preds, p), at)
    <3>1. p = PredOf(cs[n + 1]) BY DEF p
    <3> QED BY <1>1, <1>2, <1>7, <2>1, <3>1, PosGrows DEF L
  <2>3. after \in Seq(M) BY <1>1, <1>6, <1>7
  <2>4. \/ p.on = "key" /\ after = attrs
        \/ p.on # "key" /\ AllCount(cs, n) /\ c.attr \in M /\ after = Append(attrs, c.attr)
    BY <1>1, <1>3, <1>5, <1>6, <1>7
  <2>5. NamesKept(cs, n + 1, after, Append(preds, p), at)
    BY <1>1, <1>2, <1>7, <2>1, <2>3, <2>4, NamesGrow DEF L
  <2> QED BY <1>6, <1>7, <2>2, <2>5 DEF KeptTo
<1>8. CASE ~Counts(c)
  <2>1. PosOf(cs, n + 1, preds, pos) BY <1>2, <1>8, PosStays
  <2>2. after \in {attrs} \cup {Append(attrs, a) : a \in M} BY <1>1, <1>6, <1>8
  <2>3. \A k \in 1 .. Len(preds) :
          preds[k].on # "key" => NextOf(preds, k) \in 1 .. Len(after) /\ after[NextOf(preds, k)] = cs[pos[k]].attr
    BY <1>1, <1>2, <2>2, NamesHold
  <2>4. ~AllCount(cs, n + 1) BY <1>8, AllCounted
  <2>5. NamesKept(cs, n + 1, after, preds, pos) BY <2>3, <2>4 DEF NamesKept
  <2> QED BY <1>6, <1>8, <2>1, <2>5 DEF KeptTo
<1> QED BY <1>7, <1>8

(* Conditions that are added one after the other.                          *)
AddsOf(S, v, cs, i, w) ==
  /\ w[0] = v /\ \A n \in 0 .. Len(cs) : w[n] \in S
  /\ \A n \in 1 .. Len(cs) : Adds(w[n - 1], cs[n], i, w[n])
AreConditions(cs) ==
  /\ cs \in Seq(ToSet(cs)) /\ \A n \in 1 .. Len(cs) : IsCondition(cs[n])

LEMMA OnlyIdsFollow ==
  ASSUME NEW cs, AreConditions(cs), Aligned(cs), NEW n \in 1 .. Len(cs)
  PROVE  AllCount(cs, n - 1) \/ cs[n].op = "id"
<1> SUFFICES ASSUME ~AllCount(cs, n - 1) PROVE cs[n].op = "id" OBVIOUS
<1>1. PICK m \in 1 .. n - 1 : ~Counts(cs[m]) BY DEF AllCount
<1>2. DOMAIN cs = 1 .. Len(cs) /\ Len(cs) \in Nat BY DEF AreConditions
<1>3. m \in DOMAIN cs /\ n \in DOMAIN cs /\ n > m BY <1>2
<1> QED BY <1>1, <1>3 DEF Counts, Aligned

LEMMA ListsKept ==
  ASSUME NEW T, NEW N, NEW v \in Parses(T, N), NEW i \in Index, v.preds[i] = <<>>, v.attrs[i] = <<>>,
         NEW cs, AreConditions(cs), Aligned(cs), NEW w, AddsOf(Parses(T, N), v, cs, i, w)
  PROVE  LET u == w[Len(cs)] IN
         /\ u \in Parses(T, N) /\ u.at = v.at /\ KeptTo(cs, Len(cs), u.attrs[i], u.preds[i])
         /\ \A j \in Index \ {i} : u.preds[j] = v.preds[j] /\ u.attrs[j] = v.attrs[j]
<1> DEFINE L == Len(cs)
           S == Parses(T, N)
           Good(u, n) == /\ u.at = v.at /\ KeptTo(cs, n, u.attrs[i], u.preds[i])
                         /\ \A j \in Index \ {i} : u.preds[j] = v.preds[j] /\ u.attrs[j] = v.attrs[j]
           E == {n \in 0 .. L : Good(w[n], n)}
<1>1. L \in Nat BY DEF AreConditions
<1>2. w[0] = v /\ (\A n \in 0 .. L : w[n] \in S) /\ \A n \in 1 .. L : Adds(w[n - 1], cs[n], i, w[n])
  BY DEF AddsOf
<1>3. 0 \in E
  <2>1. Good(v, 0) BY NothingKept
  <2> HIDE DEF Good
  <2> QED BY <1>1, <1>2, <2>1
<1>4. \A n \in 0 .. (L - 1) : n \in E => n + 1 \in E
  <2> SUFFICES ASSUME NEW n \in 0 .. (L - 1), n \in E PROVE n + 1 \in E OBVIOUS
  <2> DEFINE a == w[n]
             b == w[n + 1]
             c == cs[n + 1]
  <2>1. n + 1 \in 1 .. L /\ (n + 1) - 1 = n /\ n \in 0 .. L /\ n + 1 \in 0 .. L /\ n \in Nat BY <1>1
  <2>2. a \in S /\ b \in S /\ Adds(a, c, i, b) BY <1>2, <2>1
  <2>3. IsCondition(c) /\ (AllCount(cs, n) \/ c.op = "id")
    <3>1. IsCondition(c) BY <2>1 DEF AreConditions
    <3>2. AllCount(cs, (n + 1) - 1) \/ cs[n + 1].op = "id" BY <2>1, OnlyIdsFollow
    <3> QED BY <2>1, <3>1, <3>2
  <2>4. Good(a, n) OBVIOUS
  <2>5. a.attrs[i] \in Seq(N) /\ a.preds[i] \in Seq(Preds(T)) BY <2>2 DEF Parses, ClauseOf
  <2>6. KeptMore(cs, n, a.attrs[i], a.preds[i], b.attrs[i], b.preds[i]) BY <2>2 DEF Adds, KeptMore
  <2>7. b.at = a.at /\ \A j \in Index \ {i} : b.preds[j] = a.preds[j] /\ b.attrs[j] = a.attrs[j]
    BY <2>2 DEF Adds
  <2> HIDE DEF a, b
  <2>8. KeptTo(cs, n + 1, b.attrs[i], b.preds[i]) BY <2>1, <2>3, <2>4, <2>5, <2>6, KeptStep
  <2>9. Good(b, n + 1) BY <2>4, <2>7, <2>8
  <2> HIDE DEF Good
  <2> QED BY <2>1, <2>9 DEF b
<1> HIDE DEF E
<1>5. 0 .. L \subseteq E BY <1>1, <1>3, <1>4, UpTo
<1>6. L \in E /\ w[L] \in S BY <1>1, <1>2, <1>5
<1> QED BY <1>6 DEF E

LEMMA TokensTyped ==
  ASSUME NEW T, NEW c, IsCondition(c), Tokened(T, c), NEW before
  PROVE  TokensOf(c, before) \in Seq(T)
<1>1. /\ NameOf(c, <<>>) \in T /\ NameOf(c, <<c.lit>>) \in T /\ NearOf(c) \in T
      /\ CmpOf(c) \in T /\ IdOf(c) \in T
  BY DEF Tokened, TokenSet
<1>2. \A t \in T : <<t>> \in Seq(T) /\ NameAnd(c, t) \in Seq(T)
  <2> TAKE t \in T
  <2> DEFINE a == NameOf(c, <<>>)
             s == <<a>>
             e == <<t>>
  <2>1. a \in T BY <1>1
  <2> HIDE DEF a
  <2>2. s \in Seq(T) /\ e \in Seq(T) BY <2>1
  <2> HIDE DEF s, e
  <2>3. s \o e \in Seq(T) BY <2>2, ConcatProperties
  <2> QED BY <2>2, <2>3 DEF s, e, a, NameAnd
<1> QED BY <1>1, <1>2, TokensAre DEF IsCondition

BeforeOf(cs, n) == IF n = 1 THEN "" ELSE cs[n - 1].attr

LEMMA ClauseAdds ==
  ASSUME NEW T, NEW N, IsAlphabet(T, N), NEW v \in Parses(T, N), NEW cs, AreConditions(cs),
         \A n \in 1 .. Len(cs) : Tokened(T, cs[n])
  PROVE  /\ \E w : AddsOf(Parses(T, N), v, cs, v.at, w) /\ ParseFrom(v, TokensOfAll(cs)) = w[Len(cs)]
         /\ TokensOfAll(cs) \in Seq(T)
<1> DEFINE L == Len(cs)
           S == Parses(T, N)
           i == v.at
           pieces == [n \in DOMAIN cs |-> TokensOf(cs[n], BeforeOf(cs, n))]
<1>1. L \in Nat /\ DOMAIN cs = 1 .. L /\ \A n \in 1 .. L : IsCondition(cs[n]) BY DEF AreConditions
<1>2. TokensOfAll(cs) = FlattenSeq(pieces)
  <2>1. \A n \in DOMAIN cs : TokensOf(cs[n], IF n = 1 THEN "" ELSE cs[n - 1].attr) = TokensOf(cs[n], BeforeOf(cs, n))
    BY DEF BeforeOf
  <2>2. [n \in DOMAIN cs |-> TokensOf(cs[n], IF n = 1 THEN "" ELSE cs[n - 1].attr)] = pieces BY <2>1
  <2> HIDE DEF pieces
  <2> QED BY <2>2 DEF TokensOfAll
<1>3. \A n \in 1 .. L : TokensOf(cs[n], BeforeOf(cs, n)) \in Seq(T) BY <1>1, TokensTyped
<1>4. pieces \in Seq(Seq(T)) /\ Len(pieces) = L /\ \A n \in 1 .. L : pieces[n] = TokensOf(cs[n], BeforeOf(cs, n))
  <2>1. pieces \in [1 .. L -> Seq(T)] BY <1>1, <1>3
  <2>2. pieces \in Seq(Seq(T)) /\ Len(pieces) = L BY <1>1, <2>1, IsASeq, LenProperties
  <2> QED BY <1>1, <2>2
<1> HIDE DEF pieces, L
<1>5. PICK g \in [0 .. L -> Seq(T)] : FlatTo(pieces, g) /\ FlattenSeq(pieces) = g[L] BY <1>4, FlattenGoes
<1>6. g[0] = <<>> /\ \A n \in 1 .. L : g[n] = g[n - 1] \o pieces[n] BY <1>4, <1>5 DEF FlatTo
<1> DEFINE w == [n \in 0 .. L |-> ParseFrom(v, g[n])]
<1>7. \A n \in 0 .. L : w[n] \in S
  <2> TAKE n \in 0 .. L
  <2>1. g[n] \in Seq(T) BY <1>5
  <2> QED BY <2>1, ParseRuns
<1>8. w[0] = v
  <2>1. ParseFrom(v, <<>>) = v BY ParseFew
  <2>2. 0 \in 0 .. L BY <1>1 DEF L
  <2> QED BY <1>6, <2>1, <2>2
<1>9. \A n \in 1 .. L : w[n] = ParseFrom(w[n - 1], TokensOf(cs[n], BeforeOf(cs, n)))
  <2> TAKE n \in 1 .. L
  <2> DEFINE s == g[n - 1]
             e == pieces[n]
  <2>1. n - 1 \in 0 .. L /\ n \in 0 .. L BY <1>1 DEF L
  <2>2. s \in Seq(T) /\ e \in Seq(T) BY <1>3, <1>4, <1>5, <2>1
  <2>3. g[n] = s \o e BY <1>6
  <2> HIDE DEF s, e
  <2>4. ParseFrom(v, s \o e) = ParseFrom(ParseFrom(v, s), e) BY <2>2, ParseConcat
  <2> QED BY <1>4, <2>1, <2>3, <2>4 DEF s, e
<1>10. w[L] = ParseFrom(v, TokensOfAll(cs)) BY <1>1, <1>2, <1>5 DEF L
<1> HIDE DEF w
<1> DEFINE Good(n) == w[n].at = i /\ \A m \in 1 .. n : m = n => Adds(w[n - 1], cs[n], i, w[n])
           E == {n \in 0 .. L : Good(n)}
<1>11. L \in Nat /\ \A n \in 1 .. L : IsCondition(cs[n]) /\ Tokened(T, cs[n]) BY <1>1 DEF L
<1>12. 0 \in E BY <1>8, <1>11
<1>13. \A n \in 0 .. (L - 1) : n \in E => n + 1 \in E
  <2> SUFFICES ASSUME NEW n \in 0 .. (L - 1), n \in E PROVE n + 1 \in E OBVIOUS
  <2> DEFINE a == w[n]
             c == cs[n + 1]
             b == BeforeOf(cs, n + 1)
  <2>1. n + 1 \in 1 .. L /\ (n + 1) - 1 = n /\ n \in 0 .. L /\ n + 1 \in 0 .. L BY <1>11
  <2>2. a \in S /\ a.at = i /\ IsCondition(c) /\ Tokened(T, c) BY <1>7, <1>11, <2>1
  <2>3. After(a, b)
    <3>1. CASE n = 0
      <4>1. n + 1 = 1 BY <3>1
      <4>2. b = "" BY <4>1 DEF BeforeOf
      <4> HIDE DEF b
      <4> QED BY <4>2 DEF After
    <3>2. CASE n # 0
      <4>1. n \in 1 .. n /\ n + 1 # 1 BY <2>1, <3>2
      <4>2. Adds(w[n - 1], cs[n], i, w[n]) BY <4>1
      <4>3. b = cs[n].attr BY <2>1, <4>1 DEF BeforeOf
      <4> QED BY <4>2, <4>3 DEF Adds, After
    <3> QED BY <3>1, <3>2
  <2> HIDE DEF c, b
  <2>4. Adds(a, c, i, ParseFrom(a, TokensOf(c, b)))
    <3> HIDE DEF a, i
    <3>1. Adds(a, c, a.at, ParseFrom(a, TokensOf(c, b))) BY <2>2, <2>3, ConditionAdds
    <3> QED BY <2>2, <3>1
  <2>5. w[n + 1] = ParseFrom(a, TokensOf(c, b)) BY <1>9, <2>1 DEF c, b
  <2>6. Adds(w[n], cs[n + 1], i, w[n + 1]) BY <2>4, <2>5 DEF c
  <2>7. w[n + 1].at = i BY <2>2, <2>6 DEF Adds
  <2>8. Good(n + 1) BY <2>1, <2>6, <2>7
  <2> HIDE DEF Good
  <2> QED BY <2>1, <2>8
<1> HIDE DEF E
<1>14. 0 .. L \subseteq E BY <1>11, <1>12, <1>13, UpTo
<1>15. \A n \in 1 .. L : Adds(w[n - 1], cs[n], i, w[n])
  <2> TAKE n \in 1 .. L
  <2>1. n \in E /\ n \in 1 .. n BY <1>11, <1>14
  <2> QED BY <2>1 DEF E
<1>16. AddsOf(S, v, cs, i, w) BY <1>7, <1>8, <1>15 DEF AddsOf, L
<1>17. TokensOfAll(cs) \in Seq(T) BY <1>2, <1>5, <1>11
<1> QED BY <1>10, <1>16, <1>17 DEF L

(* The values of one attribute, as alternatives.                           *)
LitsOf(ors) == [i \in DOMAIN ors |-> ors[i].lit]
ListOf(ors) == [tok |-> "name", name |-> ors[1].attr, lits |-> LitsOf(ors), list |-> TRUE]
AreValues(ors) ==
  /\ AreConditions(ors) /\ ors # <<>>
  /\ \A n \in 1 .. Len(ors) : ors[n].op = "eq" /\ ors[n].attr = ors[1].attr

LEMMA LitsAre ==
  ASSUME NEW ors, AreConditions(ors)
  PROVE  /\ LitsOf(ors) \in Seq(ToSet(LitsOf(ors))) /\ Len(LitsOf(ors)) = Len(ors)
         /\ \A k \in 1 .. Len(ors) : LitsOf(ors)[k] = ors[k].lit
<1> DEFINE L == Len(ors)
           s == LitsOf(ors)
<1>1. L \in Nat /\ DOMAIN ors = 1 .. L BY DEF AreConditions
<1>2. DOMAIN s = 1 .. L /\ \A k \in 1 .. L : s[k] = ors[k].lit BY <1>1 DEF LitsOf
<1>3. s = [k \in 1 .. L |-> s[k]] BY <1>1 DEF LitsOf
<1> HIDE DEF L, s
<1>4. \A k \in 1 .. L : s[k] \in ToSet(s) BY <1>2 DEF ToSet
<1>5. s \in [1 .. L -> ToSet(s)] BY <1>3, <1>4
<1>6. s \in Seq(ToSet(s)) /\ Len(s) = L BY <1>1, <1>2, <1>5, IsASeq, LenProperties
<1> QED BY <1>2, <1>6 DEF s, L

LEMMA ValuesAreTyped ==
  ASSUME NEW T, NEW t \in T, t.tok = "name" PROVE UNION {Equals(lit) : lit \in ToSet(t.lits)} \subseteq Preds(T)
<1> DEFINE D == {[on |-> "attr", op |-> op, lit |-> lit] : op \in {"any", "eq"}, lit \in Literals(T)}
<1>1. \A lit \in ToSet(t.lits) : lit \in Literals(T)
  <2>1. t \in {x \in T : x.tok = "name"} OBVIOUS
  <2>2. ToSet(t.lits) \in {ToSet(x.lits) : x \in {y \in T : y.tok = "name"}} BY <2>1
  <2> QED BY <2>2 DEF Literals
<1>2. D \subseteq Preds(T) BY DEF Preds
<1>3. \A lit \in Literals(T) : Equals(lit) \subseteq D BY DEF Equals
<1> HIDE DEF D
<1> QED BY <1>1, <1>2, <1>3

LEMMA ListVisited ==
  ASSUME NEW T, NEW N, IsAlphabet(T, N), NEW v \in Parses(T, N), NEW ors, ListOf(ors) \in T
  PROVE  /\ Renamed(v, ors[1].attr) \in Parses(T, N)
         /\ Visit(v, ListOf(ors)) = NamedFrom(Renamed(v, ors[1].attr), LitsOf(ors), "Or")
<1> DEFINE t == ListOf(ors)
           a == ors[1].attr
           w == [v EXCEPT !.last = a]
<1>1. t.tok = "name" /\ t.name = a /\ t.lits = LitsOf(ors) /\ t.list BY DEF ListOf
<1> HIDE DEF a
<1>2. w \in Parses(T, N)
  <2>1. t.name \in N BY DEF Names, IsAlphabet
  <2> QED BY <1>1, <2>1 DEF Parses, ClauseOf
<1> HIDE DEF t
<1>3. Visit(v, t) = VisitName(v, t) BY <1>1 DEF Visit
<1>4. VisitName(v, t) = NamedFrom(w, LitsOf(ors), "Or")
  BY <1>1 DEF VisitName, NamedFrom, FoldLeft, MapThenFoldSet, AddEqual
<1> QED BY <1>2, <1>3, <1>4 DEF t, a, Renamed

LEMMA OneOfAdds ==
  ASSUME NEW T, NEW N, IsAlphabet(T, N), NEW v \in Parses(T, N), NEW ors, AreValues(ors), ListOf(ors) \in T
  PROVE  \E w : /\ AddsOf(Parses(T, N), Renamed(v, ors[1].attr), ors, "Or", w)
                /\ ParseFrom(v, <<ListOf(ors)>>) = w[Len(ors)]
<1> DEFINE L == Len(ors)
           S == Parses(T, N)
           a == ors[1].attr
           u == Renamed(v, a)
           s == LitsOf(ors)
<1>1. L \in Nat /\ AreConditions(ors) /\ \A n \in 1 .. L : IsCondition(ors[n]) /\ ors[n].op = "eq" /\ ors[n].attr = a
  BY DEF AreValues, AreConditions
<1>2. s \in Seq(ToSet(s)) /\ Len(s) = L /\ \A k \in 1 .. L : s[k] = ors[k].lit BY <1>1, LitsAre
<1>3. u \in S /\ ParseFrom(v, <<ListOf(ors)>>) = NamedFrom(u, s, "Or") BY ListVisited, ParseFew
<1>4. UNION {Equals(lit) : lit \in ToSet(s)} \subseteq Preds(T)
  <2>1. ListOf(ors).tok = "name" /\ ListOf(ors).lits = s BY DEF ListOf
  <2> QED BY <2>1, ValuesAreTyped
<1>5. u.last = a BY DEF Renamed, Parses, ClauseOf
<1> HIDE DEF u, s, a, L
<1>6. "Or" \in Index BY DEF Index
<1>7. NamedRun(u, s, "Or")
  <2>1. u \in ClauseOf(N, Preds(T)) BY <1>3 DEF Parses
  <2> QED BY <1>2, <1>4, <1>6, <2>1, NamedRuns
<1>8. PICK w : NamesTo(u, s, "Or", w) /\ NamedFrom(u, s, "Or") = w[Len(s)] BY <1>7 DEF NamedRun
<1>9. w[0] = u /\ \A k \in 1 .. L : w[k] = AddEqual(w[k - 1], ors[k].lit, "Or") BY <1>2, <1>8 DEF NamesTo
<1> DEFINE Good(n) == w[n] \in S /\ w[n].last = a /\ \A m \in 1 .. n : m = n => Adds(w[n - 1], ors[n], "Or", w[n])
           E == {n \in 0 .. L : Good(n)}
<1>10. 0 \in E BY <1>1, <1>3, <1>5, <1>9 DEF L
<1>11. \A n \in 0 .. (L - 1) : n \in E => n + 1 \in E
  <2> SUFFICES ASSUME NEW n \in 0 .. (L - 1), n \in E PROVE n + 1 \in E OBVIOUS
  <2> DEFINE x == w[n]
             c == ors[n + 1]
  <2>1. n + 1 \in 1 .. L /\ (n + 1) - 1 = n /\ n \in 0 .. L /\ n + 1 \in 0 .. L BY <1>1 DEF L
  <2>2. x \in S /\ x.last = a /\ IsCondition(c) /\ c.op = "eq" /\ c.attr = a BY <1>1, <2>1 DEF L
  <2>3. w[n + 1] = AddEqual(x, c.lit, "Or") BY <1>9, <2>1
  <2>4. Equals(c.lit) \subseteq Preds(T)
    <3>1. n + 1 \in DOMAIN s BY <1>2, <2>1
    <3>2. s[n + 1] \in ToSet(s) /\ s[n + 1] = c.lit BY <1>2, <2>1, <3>1 DEF ToSet
    <3> QED BY <1>4, <3>2
  <2> HIDE DEF x, c
  <2>5. AddEqual(x, c.lit, "Or") \in S
    <3> DEFINE P == Preds(T)
               lit == c.lit
    <3>1. x \in ClauseOf(N, P) /\ Equals(lit) \subseteq P BY <2>2, <2>4 DEF Parses
    <3>2. \A op \in {"any", "eq"} : [on |-> "attr", op |-> op, lit |-> lit] \in P BY <3>1 DEF Equals
    <3> HIDE DEF P, lit
    <3>3. AddEqual(x, lit, "Or") \in ClauseOf(N, P) BY <1>6, <3>1, <3>2, EqualIsTyped
    <3> QED BY <3>3 DEF P, lit, Parses
  <2>6. Adds(x, c, "Or", AddEqual(x, c.lit, "Or")) BY <1>6, <2>2, EqualAdds DEF Parses
  <2>7. c.attr # "" BY <2>2 DEF IsCondition
  <2>8. AddEqual(x, c.lit, "Or").last = a BY <2>2, <2>6, <2>7 DEF Adds
  <2>9. Good(n + 1) BY <2>1, <2>3, <2>5, <2>6, <2>8 DEF x, c
  <2> HIDE DEF Good
  <2> QED BY <2>1, <2>9
<1> HIDE DEF E
<1>12. 0 .. L \subseteq E BY <1>1, <1>10, <1>11, UpTo DEF L
<1>13. \A n \in 0 .. L : w[n] \in S BY <1>12 DEF E
<1>14. \A n \in 1 .. L : Adds(w[n - 1], ors[n], "Or", w[n])
  <2> TAKE n \in 1 .. L
  <2>1. n \in E /\ n \in 1 .. n BY <1>1, <1>12 DEF L
  <2> QED BY <2>1 DEF E
<1>15. AddsOf(S, u, ors, "Or", w) BY <1>9, <1>13, <1>14 DEF AddsOf, L
<1> QED BY <1>2, <1>3, <1>8, <1>15 DEF u, a, L

-------------------------------------------------------------------------------
(* The two lists of a clause.                                              *)
OrToken == [tok |-> "or"]
AndToken == [tok |-> "and"]
TokensFor(q) ==
  {OrToken, AndToken, ListOf(q.ors)} \cup UNION {TokenSet(c) : c \in ToSet(q.ands) \cup ToSet(q.ors)}
KeptIn(v, u, cs, i) ==
  /\ u.at = v.at /\ KeptTo(cs, Len(cs), u.attrs[i], u.preds[i])
  /\ \A j \in Index \ {i} : u.preds[j] = v.preds[j] /\ u.attrs[j] = v.attrs[j]
IsEmpty(v, i) == v.preds[i] = <<>> /\ v.attrs[i] = <<>>
Ready(T, cs) == AreConditions(cs) /\ Aligned(cs) /\ \A n \in 1 .. Len(cs) : Tokened(T, cs[n])

LEMMA ClauseKept ==
  ASSUME NEW T, NEW N, IsAlphabet(T, N), NEW v \in Parses(T, N), NEW cs, Ready(T, cs), IsEmpty(v, v.at)
  PROVE  /\ ParseFrom(v, TokensOfAll(cs)) \in Parses(T, N) /\ TokensOfAll(cs) \in Seq(T)
         /\ KeptIn(v, ParseFrom(v, TokensOfAll(cs)), cs, v.at)
<1>1. AreConditions(cs) /\ Aligned(cs) /\ \A n \in 1 .. Len(cs) : Tokened(T, cs[n]) BY DEF Ready
<1>2. TokensOfAll(cs) \in Seq(T) BY <1>1, ClauseAdds
<1>3. PICK w : AddsOf(Parses(T, N), v, cs, v.at, w) /\ ParseFrom(v, TokensOfAll(cs)) = w[Len(cs)]
  BY <1>1, ClauseAdds
<1> DEFINE i == v.at
           u == w[Len(cs)]
<1>4. i \in Index BY DEF Parses, ClauseOf
<1>5. v.preds[i] = <<>> /\ v.attrs[i] = <<>> BY DEF IsEmpty
<1>6. /\ u \in Parses(T, N) /\ u.at = v.at /\ KeptTo(cs, Len(cs), u.attrs[i], u.preds[i])
      /\ \A j \in Index \ {i} : u.preds[j] = v.preds[j] /\ u.attrs[j] = v.attrs[j]
  <2>1. AddsOf(Parses(T, N), v, cs, i, w) BY <1>3
  <2> HIDE DEF i
  <2> QED BY <1>1, <1>4, <1>5, <2>1, ListsKept
<1> QED BY <1>2, <1>3, <1>6 DEF KeptIn

LEMMA ValuesKept ==
  ASSUME NEW T, NEW N, IsAlphabet(T, N), NEW v \in Parses(T, N), NEW ors, AreValues(ors), Aligned(ors),
         ListOf(ors) \in T, IsEmpty(v, "Or")
  PROVE  /\ ParseFrom(v, <<ListOf(ors)>>) \in Parses(T, N)
         /\ KeptIn(v, ParseFrom(v, <<ListOf(ors)>>), ors, "Or")
<1>1. PICK w : /\ AddsOf(Parses(T, N), Renamed(v, ors[1].attr), ors, "Or", w)
               /\ ParseFrom(v, <<ListOf(ors)>>) = w[Len(ors)]
  BY OneOfAdds
<1> DEFINE i == "Or"
           u == w[Len(ors)]
           r == Renamed(v, ors[1].attr)
<1>2. i \in Index /\ AreConditions(ors) BY DEF Index, AreValues
<1>3. r.at = v.at /\ r.preds = v.preds /\ r.attrs = v.attrs BY DEF Renamed, Parses, ClauseOf
<1>4. r \in Parses(T, N) BY ListVisited
<1>5. AddsOf(Parses(T, N), r, ors, i, w) BY <1>1
<1>6. r.preds[i] = <<>> /\ r.attrs[i] = <<>> BY <1>3 DEF IsEmpty
<1> HIDE DEF i, r
<1>7. /\ u \in Parses(T, N) /\ u.at = r.at /\ KeptTo(ors, Len(ors), u.attrs[i], u.preds[i])
      /\ \A j \in Index \ {i} : u.preds[j] = r.preds[j] /\ u.attrs[j] = r.attrs[j]
  BY <1>2, <1>4, <1>5, <1>6, ListsKept
<1> QED BY <1>1, <1>3, <1>7 DEF KeptIn, i

LEMMA TurnsTo ==
  ASSUME NEW T, NEW N, IsAlphabet(T, N), NEW v \in Parses(T, N), OrToken \in T, AndToken \in T
  PROVE  /\ LET u == ParseFrom(v, <<OrToken>>) IN
            u \in Parses(T, N) /\ u.at = "Or" /\ u.attrs = v.attrs /\ u.preds = v.preds
         /\ LET u == ParseFrom(v, <<AndToken>>) IN
            u \in Parses(T, N) /\ u.at = "And" /\ u.attrs = v.attrs /\ u.preds = v.preds
<1>1. ParseFrom(v, <<OrToken>>) = Visit(v, OrToken) /\ ParseFrom(v, <<AndToken>>) = Visit(v, AndToken)
  BY ParseFew
<1>2. Visit(v, OrToken) = [v EXCEPT !.at = "Or"] BY DEF Visit, OrToken
<1>3. Visit(v, AndToken) = [v EXCEPT !.at = "And"] BY DEF Visit, AndToken
<1> DEFINE w(i) == [v EXCEPT !.at = i]
<1>4. \A i \in Index : w(i) \in Parses(T, N) /\ w(i).at = i /\ w(i).attrs = v.attrs /\ w(i).preds = v.preds
  BY DEF Parses, ClauseOf
<1>5. "Or" \in Index /\ "And" \in Index BY DEF Index
<1>6. ParseFrom(v, <<OrToken>>) = w("Or") /\ ParseFrom(v, <<AndToken>>) = w("And") BY <1>1, <1>2, <1>3
<1> HIDE DEF w
<1> QED BY <1>4, <1>5, <1>6

LEMMA ParseSteps ==
  ASSUME NEW T, NEW N, IsAlphabet(T, N), NEW v \in Parses(T, N),
         NEW a \in Seq(T), NEW b \in Seq(T), NEW c \in Seq(T), NEW d \in Seq(T)
  PROVE  /\ ParseFrom(v, a \o b \o c) = ParseFrom(ParseFrom(ParseFrom(v, a), b), c)
         /\ ParseFrom(v, a \o b \o c \o d) = ParseFrom(ParseFrom(ParseFrom(ParseFrom(v, a), b), c), d)
<1> DEFINE e == a \o b
           f == e \o c
<1>1. e \in Seq(T) BY ConcatProperties
<1>2. ParseFrom(v, e) = ParseFrom(ParseFrom(v, a), b) BY ParseConcat
<1> HIDE DEF e
<1>3. f \in Seq(T) BY <1>1, ConcatProperties
<1>4. ParseFrom(v, f) = ParseFrom(ParseFrom(v, e), c) BY <1>1, ParseConcat
<1> HIDE DEF f
<1>5. ParseFrom(v, f \o d) = ParseFrom(ParseFrom(v, f), d) BY <1>3, ParseConcat
<1> QED BY <1>2, <1>4, <1>5 DEF e, f

LEMMA ClauseBegins ==
  ASSUME NEW T, NEW N, NEW last \in N
  PROVE  LET v == NoClause(last) IN v \in Parses(T, N) /\ v.at = "And" /\ IsEmpty(v, "And") /\ IsEmpty(v, "Or")
<1>1. <<>> \in Seq(N) /\ <<>> \in Seq(Preds(T)) OBVIOUS
<1> HIDE DEF Preds
<1>2. NoClause(last) \in Parses(T, N) BY <1>1 DEF NoClause, Parses, ClauseOf, Index
<1> QED BY <1>2 DEF NoClause, IsEmpty, Index

BothKept(q, u) ==
  /\ KeptTo(q.ands, Len(q.ands), u.attrs["And"], u.preds["And"])
  /\ KeptTo(q.ors, Len(q.ors), u.attrs["Or"], u.preds["Or"])
  /\ \E P : u.preds["And"] \in Seq(P) /\ u.preds["Or"] \in Seq(P)

LEMMA TwoLists == "And" \in Index /\ "Or" \in Index /\ "Or" \in Index \ {"And"} /\ "And" \in Index \ {"Or"}
BY DEF Index

LEMMA PredsTyped ==
  ASSUME NEW T, NEW N, NEW u \in Parses(T, N) PROVE \E P : u.preds["And"] \in Seq(P) /\ u.preds["Or"] \in Seq(P)
BY TwoLists DEF Parses, ClauseOf

(* The alternatives before the conditions, and after them.                 *)
LEMMA OrsFirst ==
  ASSUME NEW T, NEW N, IsAlphabet(T, N), NEW last \in N, OrToken \in T, AndToken \in T,
         NEW q, Ready(T, q.ands), Ready(T, q.ors)
  PROVE  BothKept(q, ParseFrom(NoClause(last), <<OrToken>> \o TokensOfAll(q.ors) \o <<AndToken>> \o TokensOfAll(q.ands)))
<1> DEFINE v == NoClause(last)
           a == <<OrToken>>
           b == TokensOfAll(q.ors)
           c == <<AndToken>>
           d == TokensOfAll(q.ands)
           v1 == ParseFrom(v, a)
           v2 == ParseFrom(v1, b)
           v3 == ParseFrom(v2, c)
           v4 == ParseFrom(v3, d)
<1>1. v \in Parses(T, N) /\ v.at = "And" /\ IsEmpty(v, "And") /\ IsEmpty(v, "Or") BY ClauseBegins
<1> HIDE DEF v
<1>2. v1 \in Parses(T, N) /\ v1.at = "Or" /\ v1.attrs = v.attrs /\ v1.preds = v.preds BY <1>1, TurnsTo
<1> HIDE DEF v1
<1>3. IsEmpty(v1, v1.at) BY <1>1, <1>2 DEF IsEmpty
<1>4. v2 \in Parses(T, N) /\ b \in Seq(T) /\ KeptIn(v1, v2, q.ors, v1.at) BY <1>2, <1>3, ClauseKept
<1> HIDE DEF v2
<1>5. v3 \in Parses(T, N) /\ v3.at = "And" /\ v3.attrs = v2.attrs /\ v3.preds = v2.preds BY <1>4, TurnsTo
<1> HIDE DEF v3
<1>6. v2.preds["And"] = v1.preds["And"] /\ v2.attrs["And"] = v1.attrs["And"]
      /\ KeptTo(q.ors, Len(q.ors), v2.attrs["Or"], v2.preds["Or"])
  BY <1>2, <1>4, TwoLists DEF KeptIn
<1>7. IsEmpty(v3, v3.at) BY <1>1, <1>2, <1>5, <1>6 DEF IsEmpty
<1>8. v4 \in Parses(T, N) /\ d \in Seq(T) /\ KeptIn(v3, v4, q.ands, v3.at) BY <1>5, <1>7, ClauseKept
<1> HIDE DEF v4
<1>9. v4.preds["Or"] = v3.preds["Or"] /\ v4.attrs["Or"] = v3.attrs["Or"]
      /\ KeptTo(q.ands, Len(q.ands), v4.attrs["And"], v4.preds["And"])
  BY <1>5, <1>8, TwoLists DEF KeptIn
<1>10. BothKept(q, v4)
  <2>1. \E P : v4.preds["And"] \in Seq(P) /\ v4.preds["Or"] \in Seq(P) BY <1>8, PredsTyped
  <2> QED BY <1>5, <1>6, <1>9, <2>1 DEF BothKept
<1>11. a \in Seq(T) /\ c \in Seq(T) BY OneToken
<1> HIDE DEF a, b, c, d
<1>12. ParseFrom(v, a \o b \o c \o d) = v4 BY <1>1, <1>4, <1>8, <1>11, ParseSteps DEF v1, v2, v3, v4
<1> QED BY <1>10, <1>12 DEF v, a, b, c, d

LEMMA OrsLast ==
  ASSUME NEW T, NEW N, IsAlphabet(T, N), NEW last \in N, OrToken \in T, AndToken \in T,
         NEW q, Ready(T, q.ands), Ready(T, q.ors)
  PROVE  BothKept(q, ParseFrom(NoClause(last), TokensOfAll(q.ands) \o <<OrToken>> \o TokensOfAll(q.ors)))
<1> DEFINE v == NoClause(last)
           a == TokensOfAll(q.ands)
           b == <<OrToken>>
           c == TokensOfAll(q.ors)
           v1 == ParseFrom(v, a)
           v2 == ParseFrom(v1, b)
           v3 == ParseFrom(v2, c)
<1>1. v \in Parses(T, N) /\ v.at = "And" /\ IsEmpty(v, "And") /\ IsEmpty(v, "Or") BY ClauseBegins
<1> HIDE DEF v
<1>2. v1 \in Parses(T, N) /\ a \in Seq(T) /\ KeptIn(v, v1, q.ands, v.at) BY <1>1, ClauseKept
<1> HIDE DEF v1
<1>3. v2 \in Parses(T, N) /\ v2.at = "Or" /\ v2.attrs = v1.attrs /\ v2.preds = v1.preds BY <1>2, TurnsTo
<1> HIDE DEF v2
<1>4. v1.preds["Or"] = v.preds["Or"] /\ v1.attrs["Or"] = v.attrs["Or"]
      /\ KeptTo(q.ands, Len(q.ands), v1.attrs["And"], v1.preds["And"])
  BY <1>1, <1>2, TwoLists DEF KeptIn
<1>5. IsEmpty(v2, v2.at) BY <1>1, <1>3, <1>4 DEF IsEmpty
<1>6. v3 \in Parses(T, N) /\ c \in Seq(T) /\ KeptIn(v2, v3, q.ors, v2.at) BY <1>3, <1>5, ClauseKept
<1> HIDE DEF v3
<1>7. v3.preds["And"] = v2.preds["And"] /\ v3.attrs["And"] = v2.attrs["And"]
      /\ KeptTo(q.ors, Len(q.ors), v3.attrs["Or"], v3.preds["Or"])
  BY <1>3, <1>6, TwoLists DEF KeptIn
<1>8. BothKept(q, v3)
  <2>1. \E P : v3.preds["And"] \in Seq(P) /\ v3.preds["Or"] \in Seq(P) BY <1>6, PredsTyped
  <2> QED BY <1>3, <1>4, <1>7, <2>1 DEF BothKept
<1>9. b \in Seq(T) BY OneToken
<1> HIDE DEF a, b, c
<1>10. ParseFrom(v, a \o b \o c) = v3 BY <1>1, <1>2, <1>6, <1>9, ParseSteps DEF v1, v2, v3
<1> QED BY <1>8, <1>10 DEF v, a, b, c

LEMMA OneOfFirst ==
  ASSUME NEW T, NEW N, IsAlphabet(T, N), NEW last \in N, NEW q, Ready(T, q.ands),
         AreValues(q.ors), Aligned(q.ors), ListOf(q.ors) \in T
  PROVE  BothKept(q, ParseFrom(NoClause(last), <<ListOf(q.ors)>> \o TokensOfAll(q.ands)))
<1> DEFINE v == NoClause(last)
           a == <<ListOf(q.ors)>>
           b == TokensOfAll(q.ands)
           v1 == ParseFrom(v, a)
           v2 == ParseFrom(v1, b)
<1>1. v \in Parses(T, N) /\ v.at = "And" /\ IsEmpty(v, "And") /\ IsEmpty(v, "Or") BY ClauseBegins
<1> HIDE DEF v
<1>2. v1 \in Parses(T, N) /\ KeptIn(v, v1, q.ors, "Or") BY <1>1, ValuesKept
<1> HIDE DEF v1
<1>3. v1.preds["And"] = v.preds["And"] /\ v1.attrs["And"] = v.attrs["And"] /\ v1.at = "And"
      /\ KeptTo(q.ors, Len(q.ors), v1.attrs["Or"], v1.preds["Or"])
  BY <1>1, <1>2, TwoLists DEF KeptIn
<1>4. IsEmpty(v1, v1.at) BY <1>1, <1>3 DEF IsEmpty
<1>5. v2 \in Parses(T, N) /\ b \in Seq(T) /\ KeptIn(v1, v2, q.ands, v1.at) BY <1>2, <1>4, ClauseKept
<1> HIDE DEF v2
<1>6. v2.preds["Or"] = v1.preds["Or"] /\ v2.attrs["Or"] = v1.attrs["Or"]
      /\ KeptTo(q.ands, Len(q.ands), v2.attrs["And"], v2.preds["And"])
  BY <1>3, <1>5, TwoLists DEF KeptIn
<1>7. BothKept(q, v2)
  <2>1. \E P : v2.preds["And"] \in Seq(P) /\ v2.preds["Or"] \in Seq(P) BY <1>5, PredsTyped
  <2> QED BY <1>3, <1>6, <2>1 DEF BothKept
<1>8. a \in Seq(T) BY OneToken
<1> HIDE DEF a, b
<1>9. ParseFrom(v, a \o b) = v2 BY <1>1, <1>5, <1>8, ParseConcat DEF v1, v2
<1> QED BY <1>7, <1>9 DEF v, a, b

LEMMA WhereAlphabet ==
  ASSUME NEW q, AreConditions(q.ors)
  PROVE  \A t \in TokensFor(q) : IsToken(t)
<1>1. IsToken(OrToken) /\ IsToken(AndToken) BY DEF IsToken, OrToken, AndToken
<1>2. IsToken(ListOf(q.ors))
  <2>1. LitsOf(q.ors) \in Seq(ToSet(LitsOf(q.ors))) BY LitsAre
  <2> QED BY <2>1 DEF IsToken, ListOf
<1>3. ASSUME NEW c PROVE \A t \in TokenSet(c) : IsToken(t)
  <2>1. \A lits : lits \in Seq(ToSet(lits)) => IsToken(NameOf(c, lits)) BY DEF IsToken, NameOf
  <2>2. <<>> \in Seq(ToSet(<<>>)) /\ <<c.lit>> \in Seq(ToSet(<<c.lit>>)) BY DEF ToSet
  <2>3. IsToken(NearOf(c)) /\ IsToken(CmpOf(c)) /\ IsToken(IdOf(c)) BY DEF IsToken, NearOf, CmpOf, IdOf
  <2> DEFINE s == <<c.lit>>
             e == <<>>
  <2>4. IsToken(NameOf(c, e)) /\ IsToken(NameOf(c, s))
    <3>1. e \in Seq(ToSet(e)) /\ s \in Seq(ToSet(s)) BY <2>2
    <3> HIDE DEF e, s
    <3> QED BY <2>1, <3>1
  <2> QED BY <2>3, <2>4 DEF TokenSet
<1> QED BY <1>1, <1>2, <1>3 DEF TokensFor

LEMMA WhereKept ==
  ASSUME NEW q, IsWhere(q), Aligned(q.ands), Aligned(q.ors), NEW last
  PROVE  BothKept(q, ParseConditions(q.tokens, last))
<1> DEFINE T == TokensFor(q)
           N == {last} \cup Names(T)
           ands == q.ands
           ors == q.ors
<1>1. PICK order \in Orders :
        /\ order = "one of" => ors # <<>> /\ \A c \in ToSet(ors) : c.op = "eq" /\ c.attr = ors[1].attr
        /\ q.tokens = TokensIn(order, ands, ors)
  BY DEF IsWhere
<1>2. AreConditions(ands) /\ AreConditions(ors)
  <2>1. ands \in Seq(ToSet(ands)) /\ ors \in Seq(ToSet(ors)) BY DEF IsWhere
  <2>2. \A c \in ToSet(ands) \cup ToSet(ors) : IsCondition(c) BY DEF IsWhere
  <2>3. (\A n \in 1 .. Len(ands) : ands[n] \in ToSet(ands)) /\ \A n \in 1 .. Len(ors) : ors[n] \in ToSet(ors)
    BY <2>1
  <2> HIDE DEF ands, ors
  <2> QED BY <2>1, <2>2, <2>3 DEF AreConditions
<1>3. \A c \in ToSet(ands) \cup ToSet(ors) : Tokened(T, c) BY DEF TokensFor, Tokened
<1>4. OrToken \in T /\ AndToken \in T /\ ListOf(ors) \in T BY DEF TokensFor
<1>5. IsAlphabet(T, N)
  <2>1. \A t \in T : IsToken(t) BY <1>2, WhereAlphabet
  <2> HIDE DEF T
  <2> QED BY <2>1 DEF IsAlphabet
<1> HIDE DEF T
<1>6. last \in N OBVIOUS
<1> HIDE DEF N
<1>7. Ready(T, ands) /\ Ready(T, ors)
  <2>1. (\A n \in 1 .. Len(ands) : ands[n] \in ToSet(ands)) /\ \A n \in 1 .. Len(ors) : ors[n] \in ToSet(ors)
    BY <1>2 DEF AreConditions
  <2> QED BY <1>2, <1>3, <2>1 DEF Ready
<1>8. ParseConditions(q.tokens, last) = ParseFrom(NoClause(last), q.tokens) BY DEF ParseConditions, ParseFrom
<1>9. CASE order = "ors first"
  <2>1. q.tokens = <<OrToken>> \o TokensOfAll(ors) \o <<AndToken>> \o TokensOfAll(ands)
    BY <1>1, <1>9 DEF TokensIn, OrToken, AndToken
  <2>2. BothKept(q, ParseFrom(NoClause(last), <<OrToken>> \o TokensOfAll(ors) \o <<AndToken>> \o TokensOfAll(ands)))
    BY <1>4, <1>5, <1>6, <1>7, OrsFirst
  <2> QED BY <1>8, <2>1, <2>2
<1>10. CASE order = "ors last"
  <2>1. q.tokens = TokensOfAll(ands) \o <<OrToken>> \o TokensOfAll(ors)
    BY <1>1, <1>10 DEF TokensIn, OrToken
  <2>2. BothKept(q, ParseFrom(NoClause(last), TokensOfAll(ands) \o <<OrToken>> \o TokensOfAll(ors)))
    BY <1>4, <1>5, <1>6, <1>7, OrsLast
  <2> QED BY <1>8, <2>1, <2>2
<1>11. CASE order = "one of"
  <2>1. q.tokens = <<ListOf(ors)>> \o TokensOfAll(ands)
    BY <1>1, <1>11 DEF TokensIn, ListOf, LitsOf
  <2>2. AreValues(ors)
    <3>1. \A n \in 1 .. Len(ors) : ors[n] \in ToSet(ors) BY <1>2 DEF AreConditions
    <3> QED BY <1>1, <1>2, <1>11, <3>1 DEF AreValues
  <2>3. BothKept(q, ParseFrom(NoClause(last), <<ListOf(ors)>> \o TokensOfAll(ands)))
    BY <1>4, <1>5, <1>6, <1>7, <2>2, OneOfFirst
  <2> QED BY <1>8, <2>1, <2>3
<1> QED BY <1>9, <1>10, <1>11 DEF Orders

-------------------------------------------------------------------------------
(* What a predicate tells of a row.                                        *)
VerdictFor(c, v) ==
  IF c.op = "id" THEN (IF v.key = c.lit.val THEN "yes" ELSE "no") ELSE Predict(PredOf(c), v.attrs, c.attr)
IsRow(v) == \A a \in DOMAIN v.attrs : v.attrs[a].kind \in {"num", "vec"} => v.attrs[a].val \in Int
Means(found, c, v) ==
  /\ found # "undefined" => (found = "yes" <=> CondHolds(c, v))
  /\ found = "mismatch" => OtherKind(c, v)

LEMMA HoldsStands ==
  ASSUME NEW op \in Comparisons, NEW a, NEW b, a.val \in Int, b.val \in Int
  PROVE  Holds(op, a, b) <=> Stands(op, a.val, b.val)
<1> DEFINE x == a.val
           y == b.val
<1>1. x \in Int /\ y \in Int OBVIOUS
<1>2. /\ Holds("lt", a, b) <=> x < y
      /\ Holds("lte", a, b) <=> x <= y
      /\ Holds("gt", a, b) <=> ~(x <= y)
      /\ Holds("gte", a, b) <=> ~(x < y)
  BY DEF Holds
<1>3. /\ Stands("lt", x, y) <=> x < y
      /\ Stands("lte", x, y) <=> x <= y
      /\ Stands("gt", x, y) <=> x > y
      /\ Stands("gte", x, y) <=> x >= y
  BY DEF Stands
<1> HIDE DEF x, y
<1>4. (~(x <= y) <=> x > y) /\ (~(x < y) <=> x >= y) BY <1>1
<1>5. /\ Holds("lt", a, b) <=> Stands("lt", x, y)
      /\ Holds("lte", a, b) <=> Stands("lte", x, y)
      /\ Holds("gt", a, b) <=> Stands("gt", x, y)
      /\ Holds("gte", a, b) <=> Stands("gte", x, y)
  BY <1>2, <1>3, <1>4
<1>6. Holds(op, a, b) <=> Stands(op, x, y) BY <1>5 DEF Comparisons
<1> QED BY <1>6 DEF x, y

LEMMA StandsNever == \A op, x, y : op \notin Comparisons \cup {"eq"} => ~Stands(op, x, y)
BY DEF Stands, Comparisons

LEMMA IdMeans ==
  ASSUME NEW c, IsCondition(c), c.op = "id", NEW v PROVE Means(VerdictFor(c, v), c, v)
<1>1. ~Stands(c.op, v.attrs[c.attr].val, c.lit.val) BY StandsNever DEF Comparisons
<1>2. CondHolds(c, v) <=> v.key = c.lit.val BY <1>1 DEF CondHolds
<1>3. VerdictFor(c, v) = IF v.key = c.lit.val THEN "yes" ELSE "no" BY DEF VerdictFor
<1>4. VerdictFor(c, v) # "mismatch" BY <1>3
<1>5. VerdictFor(c, v) = "yes" <=> v.key = c.lit.val BY <1>3
<1> QED BY <1>2, <1>4, <1>5 DEF Means

LEMMA NearMeans ==
  ASSUME NEW c, IsCondition(c), Counts(c), c.op = "near", NEW v, IsRow(v) PROVE Means(VerdictFor(c, v), c, v)
<1> DEFINE p == PredOf(c)
           found == Predict(p, v.attrs, c.attr)
           a == v.attrs[c.attr]
<1>1. p.on = "near" /\ p.op = c.by /\ p.vec = c.vec /\ p.lit = c.lit BY DEF PredOf
<1>2. VerdictFor(c, v) = found BY DEF VerdictFor
<1>3. c.lit.val \in Int /\ c.by \in Comparisons /\ c.vec \in Int BY DEF IsCondition, Counts
<1>4. ~Stands(c.op, a.val, c.lit.val) BY StandsNever DEF Comparisons
<1> HIDE DEF p
<1>5. CASE c.attr \notin DOMAIN v.attrs
  <2>1. found = "no" BY <1>5 DEF Predict
  <2>2. ~CondHolds(c, v) BY <1>5 DEF CondHolds
  <2> QED BY <1>2, <2>1, <2>2 DEF Means
<1>6. CASE c.attr \in DOMAIN v.attrs /\ a.kind # "vec"
  <2>1. found = "undefined" BY <1>1, <1>6 DEF Predict
  <2> QED BY <1>2, <2>1 DEF Means
<1>7. CASE c.attr \in DOMAIN v.attrs /\ a.kind = "vec"
  <2> DEFINE d == Distance2(a.val, p.vec)
  <2>1. a.val \in Int BY <1>7 DEF IsRow
  <2>2. d \in Int BY <1>1, <1>3, <2>1 DEF Distance2
  <2>3. found = IF Holds(p.op, [val |-> d], p.lit) THEN "yes" ELSE "no" BY <1>1, <1>7 DEF Predict
  <2>4. CondHolds(c, v) <=> Stands(c.by, d, c.lit.val)
    <3>1. c.op # "id" /\ c.op # "any" OBVIOUS
    <3> QED BY <1>1, <1>4, <1>7, <3>1 DEF CondHolds
  <2> HIDE DEF d, found
  <2>5. Holds(c.by, [val |-> d], c.lit) <=> Stands(c.by, d, c.lit.val)
    <3> DEFINE r == [val |-> d]
    <3>1. r.val = d OBVIOUS
    <3> HIDE DEF r
    <3>2. Holds(c.by, r, c.lit) <=> Stands(c.by, r.val, c.lit.val) BY <1>3, <2>2, <3>1, HoldsStands
    <3> QED BY <3>1, <3>2 DEF r
  <2>6. found # "mismatch" BY <2>3
  <2>7. found = "yes" <=> Stands(c.by, d, c.lit.val) BY <1>1, <2>3, <2>5
  <2> QED BY <1>2, <2>4, <2>6, <2>7 DEF Means
<1> QED BY <1>5, <1>6, <1>7

LEMMA ValueMeans ==
  ASSUME NEW c, IsCondition(c), Counts(c), c.op \notin {"id", "near"}, NEW v, IsRow(v)
  PROVE  Means(VerdictFor(c, v), c, v)
<1> DEFINE p == PredOf(c)
           found == Predict(p, v.attrs, c.attr)
           a == v.attrs[c.attr]
<1>1. p.on = "attr" /\ p.op = c.op /\ p.lit = c.lit BY DEF PredOf
<1>2. VerdictFor(c, v) = found BY DEF VerdictFor
<1>3. c.op \in Comparisons \cup {"eq", "any"} BY DEF IsCondition
<1> HIDE DEF p
<1>4. CASE c.attr \notin DOMAIN v.attrs
  <2>1. found = "no" BY <1>4 DEF Predict
  <2>2. ~CondHolds(c, v) BY <1>4 DEF CondHolds
  <2> QED BY <1>2, <2>1, <2>2 DEF Means
<1>5. CASE c.attr \in DOMAIN v.attrs /\ c.op = "any"
  <2>1. Holds("any", a, p.lit) BY DEF Holds
  <2>2. found = "yes" BY <1>1, <1>5, <2>1 DEF Predict
  <2>3. CondHolds(c, v) BY <1>5 DEF CondHolds
  <2> QED BY <1>2, <2>2, <2>3 DEF Means
<1>6. CASE c.attr \in DOMAIN v.attrs /\ c.op # "any" /\ a.kind # c.lit.kind
  <2>1. found = "mismatch" BY <1>1, <1>6 DEF Predict
  <2>2. ~CondHolds(c, v) /\ OtherKind(c, v) BY <1>6 DEF CondHolds, OtherKind
  <2> QED BY <1>2, <2>1, <2>2 DEF Means
<1>7. CASE c.attr \in DOMAIN v.attrs /\ c.op # "any" /\ a.kind = c.lit.kind
  <2>1. found = IF Holds(c.op, a, c.lit) THEN "yes" ELSE "no" BY <1>1, <1>7 DEF Predict
  <2>2. CondHolds(c, v) <=> Stands(c.op, a.val, c.lit.val) BY <1>7 DEF CondHolds
  <2>3. Holds(c.op, a, c.lit) <=> Stands(c.op, a.val, c.lit.val)
    <3>1. CASE c.op = "eq" BY <3>1 DEF Holds, Stands
    <3>2. CASE c.op # "eq"
      <4>1. c.op \in Comparisons BY <1>3, <1>7, <3>2
      <4>2. c.lit.kind = "num" /\ c.lit.val \in Int BY <4>1 DEF IsCondition, Counts
      <4>3. a.val \in Int BY <1>7, <4>2 DEF IsRow
      <4> HIDE DEF a
      <4> QED BY <4>1, <4>2, <4>3, HoldsStands
    <3> QED BY <3>1, <3>2
  <2> HIDE DEF found
  <2>4. found # "mismatch" BY <2>1
  <2>5. found = "yes" <=> Stands(c.op, a.val, c.lit.val) BY <2>1, <2>3
  <2> QED BY <1>2, <2>2, <2>4, <2>5 DEF Means
<1> QED BY <1>4, <1>5, <1>6, <1>7

LEMMA VerdictMeans ==
  ASSUME NEW c, IsCondition(c), Counts(c), NEW v, IsRow(v) PROVE Means(VerdictFor(c, v), c, v)
BY IdMeans, NearMeans, ValueMeans

(* The predicates of a list mean its conditions, the first one the first.  *)
ListMeans(u, i, cs, v, pos) ==
  LET n == Len(u.preds[i]) IN
  /\ n \in Nat /\ DOMAIN u.preds[i] = 1 .. n
  /\ \A k \in 1 .. n : pos[k] \in Counted(cs) /\ Means(Found(u, i, k, v.key, v.attrs), cs[pos[k]], v)
  /\ \A m \in Counted(cs) : \E k \in 1 .. n : pos[k] = m
  /\ n # 0 => pos[1] = Min(Counted(cs))

KeptAt(u, i, attrs, preds) == attrs = u.attrs[i] /\ preds = u.preds[i]
FoundAs(u, i, k, c, v) == Found(u, i, k, v.key, v.attrs) = VerdictFor(c, v)

LEMMA FoundIs ==
  ASSUME NEW u, NEW i, NEW attrs, NEW preds, KeptAt(u, i, attrs, preds),
         NEW cs, NEW n, NEW pos, PosOf(cs, n, preds, pos), NamesKept(cs, n, attrs, preds, pos),
         NEW k \in 1 .. Len(preds), NEW v
  PROVE  FoundAs(u, i, k, cs[pos[k]], v)
<1> DEFINE c == cs[pos[k]]
           p == preds[k]
<1>1. p = PredOf(c) BY DEF PosOf
<1>2. p.on # "key" => attrs[NextOf(preds, k)] = c.attr BY DEF NamesKept
<1>3. p.on = "key" <=> c.op = "id" BY <1>1 DEF PredOf
<1>4. NextOf(preds, k) = 1 + Cardinality({j \in 1 .. k - 1 : preds[j].on # "key"}) BY DEF NextOf, Others
<1>5. Found(u, i, k, v.key, v.attrs) =
        IF p.on # "key" THEN Predict(p, v.attrs, attrs[NextOf(preds, k)])
        ELSE IF v.key = p.key THEN "yes" ELSE "no"
  BY <1>4 DEF Found, KeptAt
<1> HIDE DEF p, c
<1>6. CASE c.op = "id"
  <2>1. p.key = c.lit.val BY <1>1, <1>6 DEF PredOf
  <2> QED BY <1>3, <1>5, <1>6, <2>1 DEF VerdictFor, FoundAs, c
<1>7. CASE c.op # "id"
  <2>1. Found(u, i, k, v.key, v.attrs) = Predict(PredOf(c), v.attrs, c.attr) BY <1>1, <1>2, <1>3, <1>5, <1>7
  <2> QED BY <1>7, <2>1 DEF VerdictFor, FoundAs, c
<1> QED BY <1>6, <1>7

LEMMA ListIsMeant ==
  ASSUME NEW u, NEW i, NEW P, u.preds[i] \in Seq(P), NEW cs, AreConditions(cs),
         KeptTo(cs, Len(cs), u.attrs[i], u.preds[i]), NEW v, IsRow(v)
  PROVE  \E pos : ListMeans(u, i, cs, v, pos)
<1> DEFINE L == Len(cs)
           attrs == u.attrs[i]
           preds == u.preds[i]
           n == Len(preds)
<1>1. PICK pos : PosOf(cs, L, preds, pos) /\ NamesKept(cs, L, attrs, preds, pos) BY DEF KeptTo
<1>2. n \in Nat /\ DOMAIN preds = 1 .. n OBVIOUS
<1>3. \A m : m \in Counted(cs) <=> m \in 1 .. L /\ Counts(cs[m]) BY DEF AreConditions, Counted, Counts
<1>4. /\ \A k \in 1 .. n : pos[k] \in 1 .. L /\ Counts(cs[pos[k]])
      /\ \A m \in 1 .. L : Counts(cs[m]) => \E k \in 1 .. n : pos[k] = m
      /\ \A m \in 1 .. L : Counts(cs[m]) => n >= 1 /\ pos[1] <= m
  BY <1>1 DEF PosOf
<1>5. \A k \in 1 .. n : Found(u, i, k, v.key, v.attrs) = VerdictFor(cs[pos[k]], v)
  <2>1. KeptAt(u, i, attrs, preds) BY DEF KeptAt
  <2> HIDE DEF attrs, preds, L
  <2>2. \A k \in 1 .. n : FoundAs(u, i, k, cs[pos[k]], v) BY <1>1, <2>1, FoundIs
  <2> QED BY <2>2 DEF FoundAs
<1>6. Counted(cs) \subseteq Nat BY <1>3
<1> HIDE DEF n, preds, attrs, L
<1>7. \A k \in 1 .. n : IsCondition(cs[pos[k]]) BY <1>4 DEF AreConditions, L
<1>8. \A k \in 1 .. n : Means(Found(u, i, k, v.key, v.attrs), cs[pos[k]], v)
  <2> TAKE k \in 1 .. n
  <2> DEFINE c == cs[pos[k]]
  <2>1. IsCondition(c) /\ Counts(c) BY <1>4, <1>7
  <2> HIDE DEF c
  <2>2. Means(VerdictFor(c, v), c, v) BY <2>1, VerdictMeans
  <2> QED BY <1>5, <2>2 DEF c
<1>9. n # 0 => pos[1] = Min(Counted(cs))
  <2> HAVE n # 0
  <2>1. 1 \in 1 .. n BY <1>2
  <2>2. pos[1] \in Counted(cs) BY <1>3, <1>4, <2>1
  <2>3. Counted(cs) \in SUBSET Nat /\ Counted(cs) # {} BY <1>6, <2>2
  <2>4. Min(Counted(cs)) \in Counted(cs) /\ \A x \in Counted(cs) : Min(Counted(cs)) <= x
    BY <2>3, LeastIsElement
  <2>5. pos[1] <= Min(Counted(cs)) BY <1>3, <1>4, <2>4
  <2>6. Min(Counted(cs)) <= pos[1] BY <2>2, <2>4
  <2>7. pos[1] \in Nat /\ Min(Counted(cs)) \in Nat BY <2>2, <2>3, <2>4
  <2> QED BY <2>5, <2>6, <2>7
<1>10. ListMeans(u, i, cs, v, pos) BY <1>2, <1>3, <1>4, <1>8, <1>9 DEF ListMeans, n, preds
<1> QED BY <1>10

(* The verdict on a row.                                                   *)
LEMMA AndsMean ==
  ASSUME NEW u, NEW cs, NEW v, NEW pos, ListMeans(u, "And", cs, v, pos)
  PROVE  LET r == AndResult(u, v.key, v.attrs) IN
         /\ r \in Verdicts
         /\ r = "yes" => \A m \in Counted(cs) : CondHolds(cs[m], v)
         /\ r \in {"no", "mismatch"} => \E m \in Counted(cs) : ~CondHolds(cs[m], v)
         /\ r = "mismatch" => \E m \in Counted(cs) : OtherKind(cs[m], v)
<1> DEFINE n == Len(u.preds["And"])
           ks == DOMAIN u.preds["And"]
           found == [k \in ks |-> Found(u, "And", k, v.key, v.attrs)]
           not == {k \in ks : found[k] # "yes"}
           r == AndResult(u, v.key, v.attrs)
<1>1. r = IF not = {} THEN "yes" ELSE found[Min(not)] BY DEF AndResult
<1>2. /\ n \in Nat /\ ks = 1 .. n
      /\ \A k \in 1 .. n : pos[k] \in Counted(cs) /\ Means(Found(u, "And", k, v.key, v.attrs), cs[pos[k]], v)
      /\ \A m \in Counted(cs) : \E k \in 1 .. n : pos[k] = m
  BY DEF ListMeans
<1>3. \A k \in ks : found[k] \in Verdicts BY FoundIsVerdict
<1>4. \A k \in ks : pos[k] \in Counted(cs) /\ Means(found[k], cs[pos[k]], v) BY <1>2
<1> HIDE DEF found, ks, n, r
<1>5. CASE not = {}
  <2>1. \A k \in ks : found[k] = "yes" BY <1>5
  <2>2. ASSUME NEW m \in Counted(cs) PROVE CondHolds(cs[m], v)
    <3>1. PICK k \in ks : pos[k] = m BY <1>2
    <3>2. found[k] = "yes" /\ Means(found[k], cs[m], v) BY <1>4, <2>1, <3>1
    <3> QED BY <3>2 DEF Means
  <2>3. r = "yes" BY <1>1, <1>5
  <2> QED BY <2>2, <2>3 DEF Verdicts, r
<1>6. CASE not # {}
  <2>1. not \in SUBSET Nat BY <1>2
  <2>2. Min(not) \in not BY <1>6, <2>1, LeastIsElement
  <2> DEFINE k == Min(not)
             m == pos[k]
  <2>3. k \in ks /\ found[k] # "yes" BY <2>2
  <2>4. r = found[k] BY <1>1, <1>6
  <2> HIDE DEF k, not
  <2>5. m \in Counted(cs) /\ Means(r, cs[m], v) /\ r \in Verdicts BY <1>3, <1>4, <2>3, <2>4
  <2>6. r # "yes" BY <2>3, <2>4
  <2> HIDE DEF m
  <2>7. r # "undefined" => ~CondHolds(cs[m], v) BY <2>5, <2>6 DEF Means
  <2>8. r = "mismatch" => OtherKind(cs[m], v) BY <2>5 DEF Means
  <2>9. r \in {"no", "mismatch"} => r # "undefined" OBVIOUS
  <2> QED BY <2>5, <2>6, <2>7, <2>8, <2>9 DEF r
<1> QED BY <1>5, <1>6

LEMMA OrsMean ==
  ASSUME NEW u, NEW cs, Counted(cs) \subseteq Nat, NEW v, NEW pos, ListMeans(u, "Or", cs, v, pos),
         NEW before \in {"yes", "no"}
  PROVE  LET r == OrResult(u, v.key, v.attrs, before)
             first == Counted(cs) # {} => CondHolds(cs[Min(Counted(cs))], v)
         IN r # "undefined" =>
              /\ r = "yes" <=> before = "yes" /\ first
              /\ r = "mismatch" => \E m \in Counted(cs) : OtherKind(cs[m], v)
<1> DEFINE n == Len(u.preds["Or"])
           ks == DOMAIN u.preds["Or"]
           found == [k \in ks |-> Found(u, "Or", k, v.key, v.attrs)]
           thrown == {k \in ks : Throws(found[k])}
           r == OrResult(u, v.key, v.attrs, before)
           first == Counted(cs) # {} => CondHolds(cs[Min(Counted(cs))], v)
<1>1. r = IF ks = {} \/ (before = "yes" /\ found[1] = "yes") THEN before
          ELSE IF thrown = {} THEN "no" ELSE found[Min(thrown)]
  BY DEF OrResult
<1>2. /\ n \in Nat /\ ks = 1 .. n
      /\ \A k \in 1 .. n : pos[k] \in Counted(cs) /\ Means(Found(u, "Or", k, v.key, v.attrs), cs[pos[k]], v)
      /\ \A m \in Counted(cs) : \E k \in 1 .. n : pos[k] = m
      /\ n # 0 => pos[1] = Min(Counted(cs))
  BY DEF ListMeans
<1>3. \A k \in ks : found[k] \in Verdicts BY FoundIsVerdict
<1>4. \A k \in ks : pos[k] \in Counted(cs) /\ Means(found[k], cs[pos[k]], v) BY <1>2
<1>5. \A k \in ks : Throws(found[k]) <=> found[k] \in {"mismatch", "undefined"} BY DEF Throws
<1> HIDE DEF found, ks, n, r
<1> SUFFICES ASSUME r # "undefined"
             PROVE  /\ r = "yes" <=> before = "yes" /\ first
                    /\ r = "mismatch" => \E m \in Counted(cs) : OtherKind(cs[m], v)
  BY DEF r
<1>6. CASE ks = {}
  <2>1. Counted(cs) = {} BY <1>2, <1>6
  <2>2. r = before /\ first BY <1>1, <1>6, <2>1
  <2> HIDE DEF first
  <2> QED BY <2>2
<1>7. CASE ks # {}
  <2>1. n # 0 /\ 1 \in ks BY <1>2, <1>7
  <2>2. pos[1] = Min(Counted(cs)) /\ pos[1] \in Counted(cs) BY <1>2, <2>1
  <2>3. first <=> CondHolds(cs[pos[1]], v) BY <2>2
  <2> HIDE DEF first
  <2>4. Means(found[1], cs[pos[1]], v) BY <1>4, <2>1
  <2>5. found[1] # "undefined" => (found[1] = "yes" <=> first) BY <2>3, <2>4 DEF Means
  <2>6. CASE before = "yes" /\ found[1] = "yes" BY <1>1, <2>5, <2>6
  <2>7. CASE ~(before = "yes" /\ found[1] = "yes") /\ thrown = {}
    <3>1. r = "no" BY <1>1, <1>7, <2>7
    <3>2. found[1] # "undefined" BY <1>5, <2>1, <2>7
    <3> QED BY <2>5, <2>7, <3>1, <3>2
  <2>8. CASE ~(before = "yes" /\ found[1] = "yes") /\ thrown # {}
    <3>1. thrown \in SUBSET Nat BY <1>2
    <3>2. Min(thrown) \in thrown /\ \A x \in thrown : Min(thrown) <= x BY <2>8, <3>1, LeastIsElement
    <3> DEFINE k == Min(thrown)
               m == pos[k]
    <3>3. k \in ks /\ r = found[k] /\ found[k] \in {"mismatch", "undefined"} BY <1>1, <1>5, <1>7, <2>8, <3>2
    <3>4. r = "mismatch" BY <3>3
    <3>5. found[1] # "undefined"
      <4> SUFFICES ASSUME found[1] = "undefined" PROVE FALSE OBVIOUS
      <4>1. 1 \in thrown BY <1>5, <2>1
      <4>2. k <= 1 /\ k \in 1 .. n BY <1>2, <3>2, <3>3, <4>1
      <4>3. k = 1 BY <1>2, <4>2
      <4> QED BY <3>3, <3>4, <4>3
    <3>6. m \in Counted(cs) /\ Means(r, cs[m], v) BY <1>4, <3>3
    <3> HIDE DEF m, k
    <3>7. OtherKind(cs[m], v) BY <3>4, <3>6 DEF Means
    <3>8. ~(before = "yes" /\ first) BY <2>5, <2>8, <3>5
    <3> QED BY <3>4, <3>6, <3>7, <3>8
  <2> QED BY <2>6, <2>7, <2>8
<1> QED BY <1>6, <1>7

Wanted(q, v) ==
  /\ \A k \in Counted(q.ands) : CondHolds(q.ands[k], v)
  /\ Counted(q.ors) # {} => CondHolds(q.ors[Min(Counted(q.ors))], v)

LEMMA VertexMeans ==
  ASSUME NEW q, IsWhere(q), NEW u, BothKept(q, u), NEW v, IsRow(v),
         PredictVertex(u, v.key, v.attrs) # "undefined"
  PROVE  /\ PredictVertex(u, v.key, v.attrs) = "yes" <=> Wanted(q, v)
         /\ PredictVertex(u, v.key, v.attrs) = "mismatch" =>
              \E c \in ToSet(q.ands) \cup ToSet(q.ors) : OtherKind(c, v)
<1> DEFINE ands == q.ands
           ors == q.ors
           a == AndResult(u, v.key, v.attrs)
           r == PredictVertex(u, v.key, v.attrs)
           first == Counted(ors) # {} => CondHolds(ors[Min(Counted(ors))], v)
           all == \A k \in Counted(ands) : CondHolds(ands[k], v)
           other == \E c \in ToSet(ands) \cup ToSet(ors) : OtherKind(c, v)
<1>1. AreConditions(ands) /\ AreConditions(ors)
  <2>1. ands \in Seq(ToSet(ands)) /\ ors \in Seq(ToSet(ors)) BY DEF IsWhere
  <2>2. \A c \in ToSet(ands) \cup ToSet(ors) : IsCondition(c) BY DEF IsWhere
  <2>3. (\A n \in 1 .. Len(ands) : ands[n] \in ToSet(ands)) /\ \A n \in 1 .. Len(ors) : ors[n] \in ToSet(ors)
    BY <2>1
  <2> HIDE DEF ands, ors
  <2> QED BY <2>1, <2>2, <2>3 DEF AreConditions
<1>2. /\ KeptTo(ands, Len(ands), u.attrs["And"], u.preds["And"])
      /\ KeptTo(ors, Len(ors), u.attrs["Or"], u.preds["Or"])
  BY DEF BothKept
<1>3. PICK P : u.preds["And"] \in Seq(P) /\ u.preds["Or"] \in Seq(P) BY DEF BothKept
<1> HIDE DEF ands, ors
<1>4. PICK x : ListMeans(u, "And", ands, v, x) BY <1>1, <1>2, <1>3, ListIsMeant
<1>5. PICK y : ListMeans(u, "Or", ors, v, y) BY <1>1, <1>2, <1>3, ListIsMeant
<1>6. (\A m \in Counted(ands) : ands[m] \in ToSet(ands)) /\ (\A m \in Counted(ors) : ors[m] \in ToSet(ors))
      /\ Counted(ors) \subseteq Nat
  BY <1>1 DEF AreConditions, Counted, ToSet
<1>7. r = IF Throws(a) THEN a ELSE OrResult(u, v.key, v.attrs, a) BY DEF PredictVertex
<1>8. /\ a \in Verdicts
      /\ a = "yes" => all
      /\ a \in {"no", "mismatch"} => ~all
      /\ a = "mismatch" => \E m \in Counted(ands) : OtherKind(ands[m], v)
  BY <1>4, AndsMean
<1> HIDE DEF a, all
<1>9. r # "undefined" OBVIOUS
<1>10. CASE Throws(a)
  <2>1. r = a /\ a = "mismatch" BY <1>7, <1>9, <1>10 DEF Throws
  <2>2. other BY <1>6, <1>8, <2>1
  <2>3. ~all /\ r # "yes" BY <1>8, <2>1
  <2> QED BY <2>2, <2>3 DEF all, ands, ors, Wanted
<1>11. CASE ~Throws(a)
  <2>1. a \in {"yes", "no"} BY <1>8, <1>11 DEF Throws, Verdicts
  <2>2. r = OrResult(u, v.key, v.attrs, a) BY <1>7, <1>11
  <2>3. /\ r = "yes" <=> a = "yes" /\ first
        /\ r = "mismatch" => \E m \in Counted(ors) : OtherKind(ors[m], v)
    BY <1>5, <1>6, <1>9, <2>1, <2>2, OrsMean
  <2>4. r = "mismatch" => other BY <1>6, <2>3
  <2>5. a = "yes" <=> all BY <1>8, <2>1
  <2>6. r = "yes" <=> all /\ first BY <2>3, <2>5
  <2> QED BY <2>4, <2>6 DEF all, ands, ors, Wanted
<1> QED BY <1>10, <1>11

LEMMA ConditionsHold == ASSUME ReportInv, TypeInv, QueryInv PROVE ConditionsExact
<1> DEFINE q == Last(asked)
           good(i) == Wanted(q, Vertices[i])
<1> SUFFICES ASSUME asked # <<>>, phase = "done", query.kind = "vertex", Aligned(q.ands), Aligned(q.ors)
             PROVE  /\ Answered = {i \in DOMAIN Vertices : good(i)}
                    /\ \A i \in Mismatched : \E c \in ToSet(q.ands) \cup ToSet(q.ors) : OtherKind(c, Vertices[i])
  BY DEF ConditionsExact, Wanted
<1>1. q = query /\ q \in First \cup Later /\ \E last : clause = ParseConditions(q.tokens, last) BY DEF QueryInv
<1>2. IsWhere(q) BY <1>1, WhereAssumption
<1>3. BothKept(q, clause) BY <1>1, <1>2, WhereKept
<1> HIDE DEF q
<1>4. Rows = Vertices /\ DOMAIN Vertices = 1 .. Len(Vertices) /\ Len(Vertices) \in Nat
  BY RowAssumption DEF Rows
<1>5. \A i \in DOMAIN Vertices : IsRow(Vertices[i]) BY WhereAssumption DEF IsRow
<1>6. \A i \in DOMAIN Vertices :
        /\ i \in Answered <=> Judged(i) = "yes"
        /\ i \in Mismatched => Judged(i) = "mismatch"
  BY <1>4, AnswersAreJudged
<1>7. row \in 1 .. Len(Rows) + 1 /\ \A n \in DOMAIN answers : answers[n].status \in {"yes", "mismatch"}
  BY DEF TypeInv
<1>8. /\ \A n \in DOMAIN answers : answers[n].row \in 1 .. row - 1 /\ Judged(answers[n].row) = answers[n].status
      /\ \A i \in 1 .. row - 1 : Judged(i) # "no" => \E n \in DOMAIN answers : answers[n].row = i
      /\ row > Len(Rows)
  BY DEF ReportInv, RowsReported
<1>9. Answered \subseteq DOMAIN Vertices /\ Mismatched \subseteq DOMAIN Vertices
  <2>1. \A n \in DOMAIN answers : answers[n].row \in DOMAIN Vertices BY <1>4, <1>7, <1>8
  <2> QED BY <2>1 DEF Answered, Mismatched
<1>10. \A i \in DOMAIN Vertices : Judged(i) # "undefined"
  <2> TAKE i \in DOMAIN Vertices
  <2>1. i \in 1 .. row - 1 BY <1>4, <1>7, <1>8
  <2>2. CASE Judged(i) = "no" BY <2>2
  <2>3. CASE Judged(i) # "no"
    <3>1. PICK n \in DOMAIN answers : answers[n].row = i BY <1>8, <2>1, <2>3
    <3>2. Judged(i) \in {"yes", "mismatch"} BY <1>7, <1>8, <3>1
    <3> QED BY <3>2
  <2> QED BY <2>2, <2>3
<1>11. \A i \in DOMAIN Vertices : Judged(i) = PredictVertex(clause, Vertices[i].key, Vertices[i].attrs)
  <2>1. query.kind # "edge" OBVIOUS
  <2> QED BY <2>1 DEF Judged
<1>12. ASSUME NEW i \in DOMAIN Vertices
       PROVE  /\ i \in Answered <=> good(i)
              /\ i \in Mismatched => \E c \in ToSet(q.ands) \cup ToSet(q.ors) : OtherKind(c, Vertices[i])
  <2> DEFINE v == Vertices[i]
  <2>1. IsRow(v) /\ PredictVertex(clause, v.key, v.attrs) # "undefined" BY <1>5, <1>10, <1>11
  <2>2. Judged(i) = PredictVertex(clause, v.key, v.attrs) BY <1>11
  <2> HIDE DEF v
  <2>3. /\ PredictVertex(clause, v.key, v.attrs) = "yes" <=> Wanted(q, v)
        /\ PredictVertex(clause, v.key, v.attrs) = "mismatch" =>
             \E c \in ToSet(q.ands) \cup ToSet(q.ors) : OtherKind(c, v)
    BY <1>2, <1>3, <2>1, VertexMeans
  <2> QED BY <1>6, <2>2, <2>3 DEF v
<1> HIDE DEF good
<1> QED BY <1>9, <1>12

(* A clause finds exactly the vertices its conditions describe, for all    *)
(* clauses and all rows, through the lists the visitor makes of it: the    *)
(* k-th predicate of a list meets its own attribute name.                  *)
THEOREM ClausesFindTheirVertices == Spec => []ConditionsExact
<1> DEFINE I == BoundAll /\ ReportInv /\ TypeInv /\ QueryInv
<1>1. Init => I
  <2>1. Init => QueryInv BY DEF Init, QueryInv
  <2> QED BY <2>1, MachineInits, ReportInit, TypeInit
<1>2. I /\ [Next]_vars => I' BY BoundNext, ReportNext, QueryNext, TypeNext DEF BoundAll
<1>3. I => ConditionsExact BY ConditionsHold
<1> QED BY <1>1, <1>2, <1>3, PTL DEF Spec
===============================================================================
