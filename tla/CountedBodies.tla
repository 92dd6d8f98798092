----------------------------- MODULE CountedBodies ----------------------------
(* Scheduler with bodies that yield a bounded number of times, as those of    *)
(* test/coro.cpp, and may add further coroutines on the way.                  *)
EXTENDS Scheduler

CONSTANTS
  MaxYields,  (* bound on the yields of one body                              *)
  MaxAdds     (* bound on the calls of addCoroutine                           *)

ASSUME BoundsAssumption == MaxYields \in Nat /\ MaxAdds \in Nat

VARIABLES
  left,       (* the yields a body has left                                   *)
  adds        (* the calls of addCoroutine so far                             *)

cvars == <<vars, left, adds>>

CInit == Init /\ left = [o \in Obj |-> 0] /\ adds = 0

Add(o) ==
  /\ adds < MaxAdds /\ adds' = adds + 1
  /\ AddCoroutine(o)
  /\ \E n \in 0 .. MaxYields : left' = [left EXCEPT ![o] = n]

BodyYields ==
  /\ active # Nobody /\ left[active] > 0
  /\ left' = [left EXCEPT ![active] = @ - 1]
  /\ Yield /\ UNCHANGED adds

BodyReturns ==
  /\ active # Nobody /\ left[active] = 0
  /\ Return /\ UNCHANGED <<left, adds>>

Loop ==
  \/ BodyYields \/ BodyReturns
  \/ (StartRun \/ NextPass \/ EndRun \/ Reap \/ Resume) /\ UNCHANGED <<left, adds>>

\* What stops the loop: no id left, a core that is never taken out, the end.
Stopper == (InitSpins \/ Async \/ Destroy) /\ UNCHANGED <<left, adds>>

CNext == Loop \/ Stopper \/ \E o \in Obj : Add(o)

\* The application calls run when it has coroutines, as every test does; run
\* itself and the bodies are straight-line code of the one thread.
CSpec == CInit /\ [][CNext]_cvars /\ WF_cvars(Loop)

(* Every coroutine reaches its end and is deleted, also those that are added *)
(* while run walks the map, on either side of its iterator, unless init      *)
(* spins or a Core keeps run from going on (DefaultSchedule.cpp:38-51).      *)
EveryCoroutineEnds ==
  \A o \in Obj : Live(o) ~> ~Live(o) \/ phase = "spin" \/ cores # 0
===============================================================================
