---------------------------------- MODULE GVM ----------------------------------
(***************************************************************************)
(* The virtual machine that runs the lambdas of a query: GVM.cpp, GVM.h    *)
(* and the arithmetic of Value.cpp, one action per instruction.  A query   *)
(* compiles its lambda once and the scan runs it for every row on the one  *)
(* machine of the open database.                                           *)
(*                                                                         *)
(* The run keeps one reference `frame' (here cur) from its first           *)
(* instruction to its last: a call pushes a frame and goes on in the code  *)
(* of the caller, a return copies the frame below over the current one.    *)
(* A failed run resets the top of the stack and nothing else.  The cells   *)
(* above the top keep what was written to them.  Reading a cell below the  *)
(* stack, writing above it, a constant that does not exist, a name that is *)
(* no string, or code that was deleted is undefined, and the model stops   *)
(* there.                                                                  *)
(*                                                                         *)
(* A frame points to its function.  That of a lambda belongs to the plan   *)
(* of its query and is deleted with it, a failed run's frame or not; a     *)
(* function inside a lambda is never deleted.                              *)
(***************************************************************************)
EXTENDS Integers, Sequences

CONSTANTS
  MaxFrame,  (* MAX_FRAME, 64 in the code                                  *)
  MaxStack,  (* MAX_STACK, 4096 in the code                                *)
  Clock,     (* what the native clock returns                              *)
  Zero,      (* the number 0                                               *)
  Arith(_, _, _), (* the number an operation makes of two values           *)
  Chunks     (* the code there is: lambdas and the functions inside them   *)

ASSUME MachineAssumption == MaxFrame \in Nat \ {0} /\ MaxStack \in Nat \ {0}

(* A byte is a number, and what a chunk calls is a chunk.                  *)
ASSUME ChunkAssumption ==
  \A c \in Chunks :
    /\ c.code \in Seq([op : STRING, arg : Nat])
    /\ Len(c.values) \in Nat /\ DOMAIN c.values = 1 .. Len(c.values)
    /\ \A i \in DOMAIN c.values : c.values[i].kind = "fn" => c.values[i].val \in Chunks

VARIABLES
  stack,     (* the cells of _stack                                        *)
  top,       (* _stackTop, as an index                                     *)
  frames,    (* _frame                                                     *)
  frameSize, (* _frameSize                                                 *)
  cur,       (* the frame the run refers to                                *)
  globals,   (* _global                                                    *)
  mode,      (* is a run under way?                                        *)
  outcome,   (* how the last run ended and what it returned                *)
  printed,   (* what console.info printed in the current or the last run   *)
  fails,     (* history: the runs that failed                              *)
  opened     (* history: the frames that calls inside a run have pushed    *)

machine == <<stack, top, frames, frameSize, cur, globals, mode, outcome, printed, fails, opened>>

(* A number is an int, a long, a uint64 or a double.                       *)
Double(x) == [kind |-> "double", val |-> x]
Str(s) == [kind |-> "str", val |-> s]
Native(name) == [kind |-> "native", val |-> name]
Function(chunk) == [kind |-> "fn", val |-> chunk]
Void == [kind |-> "void", val |-> 0]
NoChunk == [arity |-> 0, code |-> <<>>, values |-> <<>>]
Frame(chunk, slots, owner) == [func |-> chunk, ip |-> 0, slots |-> slots, owner |-> owner]
Owners == {"plan", "nobody", "freed"}

Cell == 0 .. MaxStack - 1

MachineInit ==
  /\ stack = [c \in Cell |-> Void] /\ top = 0
  /\ frames = [f \in 0 .. MaxFrame - 1 |-> Frame(NoChunk, 0, "nobody")] /\ frameSize = 0 /\ cur = 0
  /\ globals = [name \in {"clock", "console.info"} |-> Native(name)]
  /\ mode = "idle" /\ outcome = [code |-> "none", value |-> Void] /\ printed = <<>>
  /\ fails = 0 /\ opened = 0

(* The byte under the pointer: past the code the chunk is filled with      *)
(* zeros, and zero is the code of OP_SET_GLOBAL.                           *)
Instruction ==
  LET frame == frames[cur] IN
  IF frame.ip < Len(frame.func.code) THEN frame.func.code[frame.ip + 1]
                                     ELSE [op |-> "SET_GLOBAL", arg |-> 0]
PastTheCode == frames[cur].ip >= Len(frames[cur].func.code)
Constants == frames[cur].func.values
HasConstant(k) == k < Len(Constants)
Slot(k) == frames[cur].slots + k

(* The arithmetic of Value.cpp.  The operators have handlers for some pairs*)
(* of kinds; for the others visit throws, and so does a division by zero.  *)
(* Two numbers make a double.                                              *)
Kinds == {"int", "long", "uint64", "double", "str"}
Common == {"int", "double"} \X {"int", "double"}
Sums == Common \cup {<<"int", "long">>, <<"long", "double">>, <<"uint64", "double">>, <<"str", "str">>}
Defined(op, l, r) ==
  /\ <<l.kind, r.kind>> \in IF op = "ADD" THEN Sums ELSE Common
  /\ op = "DIVIDE" => r.val # Zero
Apply(op, l, r) ==
  IF l.kind = "str" THEN Str(l.val \o r.val) ELSE Double(Arith(op, l, r))

-----------------------------------------------------------------------------
Executing(ops) == mode = "running" /\ Instruction.op \in ops
Ahead == [frames EXCEPT ![cur].ip = @ + 1]

(* A run that throws: the top is reset, the frames stay.                   *)
FailAfter(text) ==
  /\ mode' = "idle" /\ outcome' = [code |-> "fail", value |-> Void] /\ fails' = fails + 1
  /\ top' = 0 /\ frames' = Ahead /\ printed' = text
  /\ UNCHANGED <<stack, frameSize, cur, globals, opened>>
Fail == FailAfter(printed)
Undefined ==
  /\ mode' = "undefined"
  /\ UNCHANGED <<stack, top, frames, frameSize, cur, globals, outcome, printed, fails, opened>>
GoOn(cells, newTop) ==
  /\ stack' = cells /\ top' = newTop /\ frames' = Ahead
  /\ UNCHANGED <<frameSize, cur, globals, mode, outcome, printed, fails, opened>>
Push(value) ==
  IF top \in Cell THEN GoOn([stack EXCEPT ![top] = value], top + 1) ELSE Undefined

(* Faulty variant: the number of frames is not looked at.                  *)
InterpretUnchecked(chunk) ==
  /\ mode = "idle"
  /\ stack' = [stack EXCEPT ![0] = Function(chunk)] /\ top' = 1
  /\ frames' = [frames EXCEPT ![frameSize] = Frame(chunk, 0, "plan")]
  /\ frameSize' = frameSize + 1 /\ cur' = frameSize
  /\ mode' = "running" /\ printed' = <<>>
  /\ UNCHANGED <<outcome, globals, fails, opened>>

(* GVM::interpret up to the run: the call is outside the try, so when the  *)
(* frames are full its exception leaves interpret.                         *)
Interpret(chunk) ==
  /\ mode = "idle"
  /\ stack' = [stack EXCEPT ![0] = Function(chunk)] /\ top' = 1
  /\ IF frameSize = MaxFrame
     THEN /\ outcome' = [code |-> "thrown", value |-> Void]
          /\ UNCHANGED <<frames, frameSize, cur, mode, printed>>
     ELSE /\ frames' = [frames EXCEPT ![frameSize] = Frame(chunk, 0, "plan")]
          /\ frameSize' = frameSize + 1 /\ cur' = frameSize
          /\ mode' = "running" /\ printed' = <<>> /\ UNCHANGED outcome
  /\ UNCHANGED <<globals, fails, opened>>

Constant ==
  /\ Executing({"CONSTANT"})
  /\ LET k == Instruction.arg IN
     IF HasConstant(k) THEN Push(Constants[k + 1]) ELSE Undefined

Binary ==
  /\ Executing({"ADD", "SUBTRACT", "MULTIPLY", "DIVIDE"})
  /\ LET op == Instruction.op IN
     IF top < 2 THEN Undefined
     ELSE LET l == stack[top - 2]  r == stack[top - 1] IN
          IF Defined(op, l, r) THEN GoOn([stack EXCEPT ![top - 2] = Apply(op, l, r)], top - 1)
                               ELSE Fail

Pop == Executing({"POP"}) /\ IF top > 0 THEN GoOn(stack, top - 1) ELSE Undefined

GetLocal ==
  /\ Executing({"GET_LOCAL"})
  /\ LET c == Slot(Instruction.arg) IN
     IF c \in Cell THEN Push(stack[c]) ELSE Undefined

SetLocal ==
  /\ Executing({"SET_LOCAL"})
  /\ LET c == Slot(Instruction.arg) IN
     IF c \in Cell /\ top > 0 THEN GoOn([stack EXCEPT ![c] = stack[top - 1]], top) ELSE Undefined

(* The name is a constant; a constant that is no string is read as one.    *)
Name == Constants[Instruction.arg + 1].val
HasName == HasConstant(Instruction.arg) /\ Constants[Instruction.arg + 1].kind = "str"

GetGlobal ==
  /\ Executing({"GET_GLOBAL"})
  /\ IF ~HasName THEN Undefined
     ELSE IF Name \in DOMAIN globals THEN Push(globals[Name]) ELSE Fail

(* What is stored is the cell at the top, the one above the last value.    *)
(* Past the code a known name would be set until the chunk ends.           *)
SetGlobal ==
  /\ Executing({"SET_GLOBAL"})
  /\ IF ~HasName \/ top \notin Cell THEN Undefined
     ELSE IF Name \notin DOMAIN globals THEN Fail
     ELSE IF PastTheCode THEN Undefined
     ELSE /\ globals' = [globals EXCEPT ![Name] = stack[top]] /\ frames' = Ahead
          /\ UNCHANGED <<stack, top, frameSize, cur, mode, outcome, printed, fails, opened>>

-----------------------------------------------------------------------------
Callee == top - Instruction.arg - 1
Arguments == [i \in 1 .. Instruction.arg |-> stack[Callee + i]]

(* A native: its arguments and itself leave the stack, its result is       *)
(* pushed.  The result of console.info is an empty Value whose index is    *)
(* not initialised: whether it counts as empty is left open.               *)
Shown ==
  SubSeq(Arguments, 1, CHOOSE n \in 0 .. Len(Arguments) :
    /\ \A i \in 1 .. n : Arguments[i].kind # "void"
    /\ n < Len(Arguments) => Arguments[n + 1].kind = "void")
CallClock ==
  /\ stack[Callee] = Native("clock")
  /\ GoOn([stack EXCEPT ![Callee] = Double(Clock)], Callee + 1)
CallPrint ==
  /\ stack[Callee] = Native("console.info")
  /\ IF \E i \in DOMAIN Arguments : Arguments[i].kind = "void"
     THEN FailAfter(printed \o Shown)
     ELSE \E empty \in BOOLEAN :
            /\ stack' = IF empty THEN stack ELSE [stack EXCEPT ![Callee] = Void]
            /\ top' = IF empty THEN Callee ELSE Callee + 1
            /\ printed' = printed \o Arguments /\ frames' = Ahead
            /\ UNCHANGED <<frameSize, cur, globals, mode, outcome, fails, opened>>

(* GVM::call: the frame is pushed and the run goes on where it was, unless *)
(* the new frame is the one it refers to.                                  *)
CallFunction ==
  /\ stack[Callee].kind = "fn"
  /\ LET chunk == stack[Callee].val IN
     IF Instruction.arg # chunk.arity \/ frameSize = MaxFrame THEN Fail
     ELSE /\ frames' = [Ahead EXCEPT ![frameSize] = Frame(chunk, Callee, "nobody")]
          /\ frameSize' = frameSize + 1 /\ opened' = opened + 1
          /\ UNCHANGED <<stack, top, cur, globals, mode, outcome, printed, fails>>
CallOther == stack[Callee].kind \in Kinds \cup {"void"} /\ Fail

Call ==
  /\ Executing({"CALL"})
  /\ IF Callee < 0 THEN Undefined
     ELSE CallClock \/ CallPrint \/ CallFunction \/ CallOther

(* The frame below was left by a run of a query that has ended.            *)
Dangling == frameSize > 1 /\ frames[frameSize - 2].owner = "freed"

(* Faulty variant: only a return into another frame gives its frame back.  *)
ReturnKeepsFrame ==
  /\ Executing({"RETURN"})
  /\ IF top = 0 \/ Dangling THEN Undefined
     ELSE LET result == stack[top - 1]  base == frames[cur].slots IN
          IF frameSize = 1
          THEN /\ mode' = "idle" /\ outcome' = [code |-> "success", value |-> result]
               /\ top' = top - 1 /\ frames' = Ahead
               /\ UNCHANGED <<stack, frameSize, cur, globals, printed, fails, opened>>
          ELSE /\ stack' = [stack EXCEPT ![base] = result] /\ top' = base + 1
               /\ frames' = [Ahead EXCEPT ![cur] = Ahead[frameSize - 2]]
               /\ frameSize' = frameSize - 1
               /\ UNCHANGED <<mode, outcome, cur, globals, printed, fails, opened>>

(* OP_RETURN: with frames left below, the result is pushed at the slots of *)
(* the frame that returns and the run goes on in the frame below.          *)
Return ==
  /\ Executing({"RETURN"})
  /\ IF top = 0 \/ Dangling THEN Undefined
     ELSE LET result == stack[top - 1]  base == frames[cur].slots IN
          /\ frameSize' = frameSize - 1
          /\ IF frameSize = 1
             THEN /\ mode' = "idle" /\ outcome' = [code |-> "success", value |-> result]
                  /\ top' = top - 1 /\ frames' = Ahead /\ UNCHANGED stack
             ELSE /\ stack' = [stack EXCEPT ![base] = result] /\ top' = base + 1
                  /\ frames' = [Ahead EXCEPT ![cur] = Ahead[frameSize - 2]]
                  /\ UNCHANGED <<mode, outcome>>
          /\ UNCHANGED <<cur, globals, printed, fails, opened>>

(* The plan of a query is deleted, its compiler with it, and the function  *)
(* of the compiler.                                                        *)
CleanPlan ==
  /\ frames' = [f \in DOMAIN frames |->
                 IF frames[f].owner = "plan" THEN [frames[f] EXCEPT !.owner = "freed"] ELSE frames[f]]
  /\ UNCHANGED <<stack, top, frameSize, cur, globals, mode, outcome, printed, fails, opened>>

MachineStep ==
  Constant \/ Binary \/ Pop \/ GetLocal \/ SetLocal \/ GetGlobal \/ SetGlobal \/ Call \/ Return

-----------------------------------------------------------------------------
MachineTypeOK ==
  /\ DOMAIN stack = Cell /\ top \in 0 .. MaxStack
  /\ DOMAIN frames = 0 .. MaxFrame - 1 /\ frameSize \in 0 .. MaxFrame /\ cur \in 0 .. MaxFrame - 1
  /\ \A f \in DOMAIN frames : frames[f].ip \in Nat /\ frames[f].slots \in Cell /\ frames[f].owner \in Owners
  /\ mode \in {"idle", "running", "undefined"} /\ fails \in Nat /\ opened \in Nat
  /\ outcome.code \in {"none", "success", "fail", "thrown"}

(* A run that succeeds leaves no frame: every frame that is left when the  *)
(* machine is idle was left by a failed run, and no more than the failures *)
(* and the calls inside the runs pushed.  Only a failure before can make   *)
(* interpret throw.                                                        *)
LeftFrames ==
  /\ mode = "idle" => /\ frameSize <= fails + opened
                      /\ fails = 0 => frameSize = 0
                      /\ outcome.code = "thrown" => fails > 0
  /\ mode = "running" => frameSize \in 1 .. fails + opened + 1
=============================================================================
