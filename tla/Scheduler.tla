------------------------------- MODULE Scheduler ------------------------------
(***************************************************************************)
(* The cooperative scheduler of GQLite: GDefaultSchedule (run, init, async *)
(* and the destructor) with GCoroutine's resume, yield and entry function, *)
(* in src/src/schedule/DefaultSchedule.cpp and                             *)
(* src/src/base/system/Coroutine.cpp.                                      *)
(*                                                                         *)
(* One thread executes either the application, the loop of run or the body *)
(* of one coroutine.  jump_fcontext is the transfer of control; the saved  *)
(* machine contexts are left out: every resume of one call of run jumps    *)
(* from the same stack frame, so the handle in _main stays good.  A body   *)
(* may do anything a GCoroutine* lets it do between two yields: modules    *)
(* that EXTEND this one say what particular bodies do.                     *)
(***************************************************************************)
EXTENDS Integers, FiniteSets

CONSTANTS
  Obj,       (* the addresses new GCoroutine can return                     *)
  Nobody,    (* no coroutine                                                *)
  IdMod,     (* ids are numbers modulo IdMod: 256, the width of uint8_t     *)
  MaxCores   (* bound on the calls of async; nothing shrinks _cores         *)

ASSUME ObjAssumption == Nobody \notin Obj
ASSUME IdModAssumption == IdMod \in Nat \ {0}
ASSUME MaxCoresAssumption == MaxCores \in Nat

VARIABLES
  coroutines,  (* _coroutines: id -> object                                 *)
  status,      (* _status of the object at each address                     *)
  ident,       (* _id of the object at each address                         *)
  maxID,       (* _maxID                                                    *)
  current,     (* _current                                                  *)
  cores,       (* the length of _cores                                      *)
  itr,         (* the iterator of run's inner loop, End past the last entry *)
  active,      (* the coroutine whose body executes                         *)
  phase,       (* what executes otherwise                                   *)
  since        (* history: who had a turn since the object's last turn      *)

vars == <<coroutines, status, ident, maxID, current, cores, itr, active,
          phase, since>>

Id == 0 .. IdMod - 1
End == IdMod
Status == {"Freed", "Ready", "Suspend", "Running", "Finish"}

Taken == DOMAIN coroutines
Live(o) == status[o] # "Freed"

\* The position after i in a map with the keys D.
IsNext(D, i, n) ==
  \/ n \in D /\ n > i /\ \A d \in D : d > i => n <= d
  \/ n = End /\ \A d \in D : d <= i

-------------------------------------------------------------------------------
Init ==
  /\ coroutines = [i \in {} |-> Nobody]
  /\ status = [o \in Obj |-> "Freed"]
  /\ ident = [o \in Obj |-> 0]
  /\ maxID = 0 /\ current = 0 /\ cores = 0
  /\ itr = End /\ active = Nobody /\ phase = "app"
  /\ since = [o \in Obj |-> {}]

\* Application code executes, in the program or in the body of a coroutine.
Executing == phase = "app" \/ (phase = "run" /\ active # Nobody)

\* Faulty variant: the next id, taken or not.
NextId(D, start, id) == id = start

\* The loop of init: from start upwards, in uint8_t, the first id not taken.
FirstFree(D, start, id) ==
  /\ id \in Id \ D
  /\ \E k \in Id : /\ id = (start + k) % IdMod
                   /\ \A j \in 0 .. k - 1 : (start + j) % IdMod \in D

\* addCoroutine: a new object that init registers. _maxID counts the calls; it
\* does not become the id the loop ends at.
AddCoroutine(o) ==
  /\ Executing /\ ~Live(o)
  /\ maxID' = (maxID + 1) % IdMod
  /\ \E id \in Id :
       /\ FirstFree(Taken, maxID', id)
       /\ coroutines' = [i \in Taken \cup {id} |-> IF i = id THEN o ELSE coroutines[i]]
       /\ ident' = [ident EXCEPT ![o] = id]
  /\ status' = [status EXCEPT ![o] = "Ready"]
  /\ since' = [p \in Obj |-> IF p = o THEN {} ELSE since[p] \ {o}]
  /\ UNCHANGED <<current, cores, itr, active, phase>>

\* With every id taken the loop of init does not end.
InitSpins ==
  /\ Executing /\ Taken = Id
  /\ maxID' = (maxID + 1) % IdMod
  /\ phase' = "spin"
  /\ UNCHANGED <<coroutines, status, ident, current, cores, itr, active, since>>

\* async: a Core that only the destructor removes.
Async ==
  /\ Executing /\ cores < MaxCores
  /\ cores' = cores + 1
  /\ UNCHANGED <<coroutines, status, ident, maxID, current, itr, active, phase, since>>

-------------------------------------------------------------------------------
(* run *)

\* The condition of the outer loop, and the inner loop's start.
BeginPass ==
  /\ Taken # {} /\ cores = 0
  /\ \E n \in Id : IsNext(Taken, -1, n) /\ itr' = n
  /\ phase' = "run"
  /\ UNCHANGED <<coroutines, status, ident, maxID, current, cores, active, since>>

StartRun == phase = "app" /\ BeginPass

NextPass == phase = "run" /\ itr = End /\ BeginPass

EndRun ==
  /\ phase = "run" /\ itr = End
  /\ Taken = {} \/ cores # 0
  /\ phase' = "app"
  /\ UNCHANGED <<coroutines, status, ident, maxID, current, cores, itr, active, since>>

AtEntry == phase = "run" /\ active = Nobody /\ itr # End

\* Faulty variant: the scan starts over after an erase.
EraseFromStart(i) == IsNext(Taken \ {i}, -1, itr')

\* itr = _coroutines.erase(itr): the entry goes and the iterator moves on.
Erase(i) == IsNext(Taken \ {i}, i, itr')

\* A finished coroutine is deleted in the pass after the one it finished in.
Reap ==
  /\ AtEntry
  /\ LET o == coroutines[itr] IN
       /\ status[o] = "Finish"
       /\ status' = [status EXCEPT ![o] = "Freed"]
       /\ since' = [since EXCEPT ![o] = {}]
       /\ coroutines' = [i \in Taken \ {itr} |-> coroutines[i]]
       /\ Erase(itr)
  /\ UNCHANGED <<ident, maxID, current, cores, active, phase>>

\* Faulty variant: the entry function looks up the last id handed out.
EntersLast(o, id) == coroutines[IF maxID \in Taken THEN maxID ELSE id]

\* The coroutine whose body a jump reaches: a first resume runs
\* __coroutine_entry, which looks _current up in the map; a later one returns
\* into the yield of the object itself.
Enters(o, id) == IF status[o] = "Ready" THEN coroutines[id] ELSE o

Resume ==
  /\ AtEntry
  /\ LET o == coroutines[itr] IN
       /\ status[o] \in {"Ready", "Suspend"}
       /\ current' = ident[o]
       /\ status' = [status EXCEPT ![o] = "Running"]
       /\ active' = Enters(o, current')
       /\ since' = [p \in Obj |-> IF p = o THEN {} ELSE since[p] \cup {o}]
  /\ UNCHANGED <<coroutines, ident, maxID, cores, itr, phase>>

\* Control comes back to run, which steps its iterator.
BackToRun(s) ==
  /\ phase = "run" /\ active # Nobody
  /\ status' = [status EXCEPT ![active] = s]
  /\ active' = Nobody
  /\ IsNext(Taken, itr, itr')
  /\ UNCHANGED <<coroutines, ident, maxID, current, cores, phase, since>>

\* co->yield(), which does nothing unless the status is Running.
Yield ==
  /\ active # Nobody /\ status[active] = "Running"
  /\ BackToRun("Suspend")

\* Faulty variant: a body that ends is left suspended.
ReturnSuspended == BackToRun("Suspend")

Return == BackToRun("Finish")

\* The destructor deletes what the map still holds.
Destroy ==
  /\ phase = "app"
  /\ status' = [o \in Obj |-> IF \E i \in Taken : coroutines[i] = o THEN "Freed"
                              ELSE status[o]]
  /\ coroutines' = [i \in {} |-> Nobody]
  /\ cores' = 0 /\ phase' = "gone"
  /\ UNCHANGED <<ident, maxID, current, itr, active, since>>

Next ==
  \/ \E o \in Obj : AddCoroutine(o)
  \/ InitSpins \/ Async
  \/ StartRun \/ NextPass \/ EndRun
  \/ Reap \/ Resume \/ Yield \/ Return
  \/ Destroy

Spec == Init /\ [][Next]_vars

-------------------------------------------------------------------------------
TypeOK ==
  /\ Taken \subseteq Id /\ \A i \in Taken : coroutines[i] \in Obj
  /\ coroutines = [i \in Taken |-> coroutines[i]]
  /\ status \in [Obj -> Status] /\ ident \in [Obj -> Id]
  /\ maxID \in Id /\ current \in Id /\ cores \in 0 .. MaxCores
  /\ itr \in Id \cup {End} /\ active \in Obj \cup {Nobody}
  /\ phase \in {"app", "run", "spin", "gone"}
  /\ since \in [Obj -> SUBSET Obj]

(* No coroutine is lost and none is deleted twice: the objects that exist    *)
(* are those of the map, each under its own id. A second coroutine under a   *)
(* taken id would leave the first one suspended for ever                     *)
(* (DefaultSchedule.cpp:53-63).                                              *)
NothingLost ==
  /\ \A i \in Taken : Live(coroutines[i]) /\ ident[coroutines[i]] = i
  /\ \A o \in Obj : Live(o) => ident[o] \in Taken /\ coroutines[ident[o]] = o

(* The body that executes is the one of the object marked Running, and       *)
(* _current is its id: the entry function that reads _current on a new stack *)
(* finds the coroutine that was resumed (Coroutine.cpp:22-28, 41-63).        *)
OneRunning ==
  /\ \A o \in Obj : status[o] = "Running" <=> active = o
  /\ active # Nobody => current = ident[active]

(* Turns are fair: while a coroutine waits for its turn no other one gets a  *)
(* second turn, whatever the bodies add and the passes erase in between      *)
(* (DefaultSchedule.cpp:38-51).                                              *)
FairTurns ==
  [][\A x, o \in Obj :
       (active = Nobody /\ active' = x /\ o # x /\ status[o] \in {"Ready", "Suspend"})
         => x \notin since[o]]_vars
===============================================================================
