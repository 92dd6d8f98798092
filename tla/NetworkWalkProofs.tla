--------------------------- MODULE NetworkWalkProofs ---------------------------
(***************************************************************************)
(* Proofs about the scheduler and about what runs on it.                   *)
(*   Scheduler    for every set of objects and every width of the ids: no  *)
(*                coroutine is lost, one body runs, turns are fair         *)
(*   NetworkWalk  for every plan of visits: a walk gives up only on all    *)
(*                data, one that ends without a path has met all that can  *)
(*                be reached, and one that ends with a path has a shortest *)
(***************************************************************************)
EXTENDS NetworkWalk, Recursions, TLAPS, FiniteSetTheorems

\* The iterator points at an entry while a pass is under way, at the entry of
\* the active coroutine while a body executes.
IteratorOK ==
  /\ itr # End => phase \in {"run", "spin"} /\ itr \in Taken
  /\ active # Nobody => itr # End /\ coroutines[itr] = active

\* o has had its turn in this pass.
Had(o) == ident[o] < itr \/ active = o

Waiting(o) == status[o] \in {"Ready", "Suspend", "Running"}

\* Who had a turn since o's last one, by position: a pass takes the ids upwards.
TurnOrder ==
  \A o, x \in Obj :
    Waiting(o) /\ Live(x) /\ x \in since[o] =>
      /\ ident[o] < ident[x] \/ Had(x)
      /\ Had(o) => ident[o] < ident[x] /\ Had(x)

IInv == TypeOK /\ NothingLost /\ OneRunning /\ IteratorOK /\ TurnOrder

-------------------------------------------------------------------------------
\* The position after i splits the keys into those up to i and the rest.
LEMMA NextSplits ==
  ASSUME NEW D \in SUBSET Id, NEW i \in Int, NEW n, IsNext(D, i, n)
  PROVE  /\ n \in D \cup {End}
         /\ \A d \in D : d < n <=> d <= i
         /\ i < End => n > i
<1>1. IdMod \in Nat /\ End = IdMod BY IdModAssumption DEF End
<1>2. \A d \in D : d \in Nat /\ d < End BY <1>1 DEF Id
<1>3. CASE n \in D /\ n > i /\ \A d \in D : d > i => n <= d
  BY <1>1, <1>2, <1>3
<1>4. CASE n = End /\ \A d \in D : d <= i
  BY <1>1, <1>2, <1>4
<1> QED BY <1>3, <1>4 DEF IsNext

LEMMA InitHolds == Init => IInv
<1> SUFFICES ASSUME Init PROVE IInv OBVIOUS
<1>1. IdMod \in Nat \ {0} /\ End = IdMod /\ 0 \in Id /\ MaxCores \in Nat
  BY IdModAssumption, MaxCoresAssumption DEF End, Id
<1>2. Taken = {} BY DEF Init, Taken
<1>3. TypeOK
  BY <1>1, <1>2 DEF Init, TypeOK, Status
<1>4. NothingLost /\ OneRunning /\ IteratorOK
  BY <1>1, <1>2, ObjAssumption DEF Init, NothingLost, OneRunning, IteratorOK, Live
<1>5. TurnOrder BY DEF Init, TurnOrder, Live
<1> QED BY <1>3, <1>4, <1>5 DEF IInv

LEMMA AddCoroutineKeeps ==
  ASSUME IInv, NEW o \in Obj, AddCoroutine(o)
  PROVE  IInv'
<1> USE DEF IInv
<1>1. PICK id \in Id :
        /\ FirstFree(Taken, maxID', id)
        /\ coroutines' = [i \in Taken \cup {id} |-> IF i = id THEN o ELSE coroutines[i]]
        /\ ident' = [ident EXCEPT ![o] = id]
  BY DEF AddCoroutine
<1>2. id \notin Taken BY <1>1 DEF FirstFree
<1>3. Taken' = Taken \cup {id} BY <1>1 DEF Taken
<1>4. ~Live(o) /\ status' = [status EXCEPT ![o] = "Ready"]
  BY DEF AddCoroutine
<1>5. UNCHANGED <<current, cores, itr, active, phase>>
  BY DEF AddCoroutine
<1>6. since' = [p \in Obj |-> IF p = o THEN {} ELSE since[p] \ {o}]
  BY DEF AddCoroutine
<1>7. \A i \in Taken : coroutines[i] # o
  BY <1>4 DEF NothingLost
<1>8. active # o
  BY <1>7, ObjAssumption DEF IteratorOK
<1>9. TypeOK'
  <2>1. maxID' \in Id
    BY IdModAssumption DEF AddCoroutine, TypeOK, Id
  <2>2. status' \in [Obj -> Status] /\ ident' \in [Obj -> Id]
    BY <1>1, <1>4 DEF TypeOK, Status
  <2>3. since' \in [Obj -> SUBSET Obj]
    BY <1>6 DEF TypeOK
  <2>4. /\ Taken' \subseteq Id /\ \A i \in Taken' : coroutines'[i] \in Obj
        /\ coroutines' = [i \in Taken' |-> coroutines'[i]]
    BY <1>1, <1>3 DEF TypeOK
  <2> QED BY <1>5, <2>1, <2>2, <2>3, <2>4 DEF TypeOK, Id, End
<1>10. NothingLost'
  BY <1>1, <1>2, <1>3, <1>4, <1>7 DEF NothingLost, Live, TypeOK, Taken
<1>11. OneRunning'
  BY <1>1, <1>4, <1>5, <1>8 DEF OneRunning, TypeOK, Live
<1>12. IteratorOK'
  BY <1>1, <1>2, <1>3, <1>5 DEF IteratorOK, End
<1>13. TurnOrder'
  <2> SUFFICES ASSUME NEW p \in Obj, NEW x \in Obj,
                      Waiting(p)', Live(x)', x \in since'[p]
               PROVE  /\ (ident[p] < ident[x] \/ Had(x))'
                      /\ Had(p)' => (ident[p] < ident[x] /\ Had(x))'
    BY DEF TurnOrder
  <2>1. p # o /\ x # o /\ x \in since[p]
    BY <1>6 
  <2>2. Waiting(p) /\ Live(x) /\ ident'[p] = ident[p] /\ ident'[x] = ident[x]
    BY <1>1, <1>4, <2>1 DEF Waiting, Live, TypeOK
  <2> QED BY <1>5, <2>1, <2>2 DEF TurnOrder, Had
<1> QED BY <1>9, <1>10, <1>11, <1>12, <1>13

LEMMA BeginPassKeeps ==
  ASSUME IInv, BeginPass, itr = End
  PROVE  IInv'
<1> USE DEF IInv
<1>1. PICK n : IsNext(Taken, -1, n) /\ itr' = n
  BY DEF BeginPass
<1>2. UNCHANGED <<coroutines, status, ident, maxID, current, cores, active, since>>
  BY DEF BeginPass
<1>3. Taken' = Taken /\ phase' = "run" BY <1>2 DEF Taken, BeginPass
<1>4. itr' \in Taken \cup {End} /\ \A d \in Taken : ~ d < itr'
  <2>1. Taken \in SUBSET Id BY DEF TypeOK
  <2>2. /\ n \in Taken \cup {End}
        /\ \A d \in Taken : d < n <=> d <= -1
    BY <1>1, <2>1, NextSplits
  <2>3. \A d \in Taken : d \in Nat BY <2>1 DEF Id
  <2> QED BY <1>1, <2>2, <2>3
<1>5. active = Nobody BY DEF IteratorOK
<1>6. TypeOK' BY <1>2, <1>3, <1>4 DEF TypeOK
<1>7. NothingLost' /\ OneRunning'
  BY <1>2, <1>3 DEF NothingLost, OneRunning, Live
<1>8. IteratorOK'
  BY <1>2, <1>3, <1>4, <1>5 DEF IteratorOK, End
<1>9. TurnOrder'
  <2> SUFFICES ASSUME NEW p \in Obj, NEW x \in Obj,
                      Waiting(p)', Live(x)', x \in since'[p]
               PROVE  (ident[p] < ident[x])' /\ ~Had(p)'
    BY DEF TurnOrder
  <2>1. Waiting(p) /\ Live(x) /\ x \in since[p] /\ Live(p)
    BY <1>2 DEF Waiting, Live
  <2>2. ident[p] \in Taken BY <2>1 DEF NothingLost
  <2>3. Had(p)
    BY <2>2, IdModAssumption DEF Had, End, TypeOK, Id
  <2>4. ~Had(p)'
    BY <1>2, <1>4, <1>5, <2>2, ObjAssumption DEF Had
  <2> QED BY <1>2, <2>1, <2>3, <2>4 DEF TurnOrder
<1> QED BY <1>6, <1>7, <1>8, <1>9

LEMMA ReapKeeps == ASSUME IInv, Reap PROVE IInv'
<1> USE DEF IInv
<1> DEFINE o == coroutines[itr]
<1>1. /\ AtEntry /\ status[o] = "Finish"
      /\ status' = [status EXCEPT ![o] = "Freed"]
      /\ since' = [since EXCEPT ![o] = {}]
      /\ coroutines' = [i \in Taken \ {itr} |-> coroutines[i]]
      /\ IsNext(Taken \ {itr}, itr, itr')
      /\ UNCHANGED <<ident, maxID, current, cores, active, phase>>
  BY DEF Reap, Erase
<1>2. itr \in Taken /\ o \in Obj /\ ident[o] = itr /\ active = Nobody /\ Live(o)
  BY <1>1 DEF AtEntry, IteratorOK, TypeOK, NothingLost
<1>3. Taken' = Taken \ {itr} BY <1>1 DEF Taken
<1>4. itr \in Int /\ itr < End
  BY <1>2, IdModAssumption DEF TypeOK, Id, End
<1>5. /\ itr' \in Taken' \cup {End}
      /\ \A d \in Taken' : d < itr' <=> d < itr
  <2>1. Taken \ {itr} \in SUBSET Id BY DEF TypeOK
  <2>2. /\ itr' \in (Taken \ {itr}) \cup {End}
        /\ \A d \in Taken \ {itr} : d < itr' <=> d <= itr
    BY <1>1, <1>4, <2>1, NextSplits
  <2>3. \A d \in Taken \ {itr} : d \in Int /\ d # itr BY <2>1 DEF Id
  <2>4. \A d \in Taken \ {itr} : d <= itr <=> d < itr BY <2>3, <1>4
  <2> QED BY <1>3, <2>2, <2>4
<1>6. \A p \in Obj : Live(p)' <=> (Live(p) /\ p # o)
  BY <1>1, <1>2 DEF Live, TypeOK
<1>7. \A p \in Obj : Live(p) /\ p # o => ident[p] \in Taken'
  BY <1>2, <1>3 DEF NothingLost
<1>8. TypeOK'
  <2>1. /\ Taken' \subseteq Id /\ \A i \in Taken' : coroutines'[i] \in Obj
        /\ coroutines' = [i \in Taken' |-> coroutines'[i]]
    BY <1>1, <1>3 DEF TypeOK
  <2>2. itr' \in Id \cup {End} BY <1>5, <2>1
  <2>3. status' \in [Obj -> Status] /\ since' \in [Obj -> SUBSET Obj]
    BY <1>1 DEF TypeOK, Status
  <2> QED BY <1>1, <2>1, <2>2, <2>3 DEF TypeOK
<1>9. NothingLost'
  <2>1. \A i \in Taken' : /\ coroutines'[i] = coroutines[i]
                          /\ coroutines[i] \in Obj /\ coroutines[i] # o
    BY <1>1, <1>2, <1>3 DEF NothingLost, TypeOK
  <2> QED BY <1>1, <1>3, <1>6, <1>7, <2>1 DEF NothingLost
<1>10. OneRunning'
  BY <1>1, <1>2, ObjAssumption DEF OneRunning, TypeOK
<1>11. IteratorOK'
  BY <1>1, <1>2, <1>5 DEF IteratorOK, AtEntry, End
<1>12. TurnOrder'
  <2> SUFFICES ASSUME NEW p \in Obj, NEW x \in Obj,
                      Waiting(p)', Live(x)', x \in since'[p]
               PROVE  /\ (ident[p] < ident[x] \/ Had(x))'
                      /\ Had(p)' => (ident[p] < ident[x] /\ Had(x))'
    BY DEF TurnOrder
  <2>1. p # o /\ Waiting(p) /\ x \in since[p]
    BY <1>1, <1>2 DEF Waiting, TypeOK
  <2>2. x # o /\ Live(x) /\ Live(p) BY <1>6, <2>1 DEF Waiting, Live
  <2>3. (Had(p)' <=> Had(p)) /\ (Had(x)' <=> Had(x))
    BY <1>1, <1>2, <1>5, <1>7, <2>1, <2>2, ObjAssumption DEF Had
  <2> QED BY <1>1, <2>1, <2>2, <2>3 DEF TurnOrder
<1> QED BY <1>8, <1>9, <1>10, <1>11, <1>12

\* A resume reaches the body of the object it marks Running.
LEMMA ResumeReaches ==
  ASSUME IInv, Resume
  PROVE  /\ itr \in Taken /\ coroutines[itr] \in Obj
         /\ ident[coroutines[itr]] = itr /\ Live(coroutines[itr])
         /\ active = Nobody
         /\ current' = itr /\ active' = coroutines[itr]
<1> USE DEF IInv
<1>1. itr \in Taken /\ coroutines[itr] \in Obj /\ ident[coroutines[itr]] = itr
  BY DEF Resume, AtEntry, IteratorOK, TypeOK, NothingLost
<1>2. current' = itr BY <1>1 DEF Resume
<1>3. active' = coroutines[itr] BY <1>1, <1>2 DEF Resume, Enters
<1> QED BY <1>1, <1>2, <1>3 DEF Resume, AtEntry, NothingLost

LEMMA ResumeKeeps == ASSUME IInv, Resume PROVE IInv'
<1> USE DEF IInv
<1> DEFINE o == coroutines[itr]
<1>1. /\ itr \in Taken /\ o \in Obj /\ ident[o] = itr /\ Live(o)
      /\ active = Nobody /\ current' = itr /\ active' = o
  BY ResumeReaches
<1>2. /\ AtEntry
      /\ status' = [status EXCEPT ![o] = "Running"]
      /\ since' = [p \in Obj |-> IF p = o THEN {} ELSE since[p] \cup {o}]
      /\ UNCHANGED <<coroutines, ident, maxID, cores, itr, phase>>
  BY DEF Resume
<1>3. Taken' = Taken BY <1>2 DEF Taken
<1>4. o # Nobody BY <1>1, ObjAssumption
<1> HIDE DEF o
<1>5. \A p \in Obj : Live(p)' <=> Live(p)
  BY <1>1, <1>2 DEF Live, TypeOK
<1>6. TypeOK'
  BY <1>1, <1>2, <1>3 DEF TypeOK, Status
<1>7. NothingLost'
  BY <1>2, <1>3, <1>5 DEF NothingLost, TypeOK
<1>8. OneRunning'
  BY <1>1, <1>2, <1>4, ObjAssumption DEF OneRunning, TypeOK
<1>9. IteratorOK'
  BY <1>1, <1>2, <1>3 DEF IteratorOK, AtEntry, End, o
<1>10. TurnOrder'
  <2> SUFFICES ASSUME NEW p \in Obj, NEW x \in Obj,
                      Waiting(p)', Live(x)', x \in since'[p]
               PROVE  /\ (ident[p] < ident[x] \/ Had(x))'
                      /\ Had(p)' => (ident[p] < ident[x] /\ Had(x))'
    BY DEF TurnOrder
  <2>1. p # o /\ Waiting(p) /\ (x = o \/ x \in since[p])
    BY <1>1, <1>2 DEF Waiting, TypeOK
  <2>2. Live(x) BY <1>5
  <2>3. Had(p)' <=> Had(p)
    BY <1>1, <1>2, <2>1, ObjAssumption DEF Had
  <2>4. CASE x = o
    <3>1. Had(x)' BY <1>1, <2>4 DEF Had
    <3>2. Had(p) => ident[p] < ident[x]
      BY <1>1, <2>1, <2>4, ObjAssumption DEF Had
    <3> QED BY <1>2, <2>3, <3>1, <3>2
  <2>5. CASE x # o
    <3>1. Had(x)' <=> Had(x)
      BY <1>1, <1>2, <2>5, ObjAssumption DEF Had
    <3> QED BY <1>2, <2>1, <2>2, <2>3, <2>5, <3>1 DEF TurnOrder
  <2> QED BY <2>4, <2>5
<1> QED BY <1>6, <1>7, <1>8, <1>9, <1>10

LEMMA BackToRunKeeps ==
  ASSUME IInv, NEW s \in {"Suspend", "Finish"}, BackToRun(s)
  PROVE  IInv'
<1> USE DEF IInv
<1>1. /\ phase = "run" /\ active # Nobody
      /\ status' = [status EXCEPT ![active] = s]
      /\ active' = Nobody
      /\ IsNext(Taken, itr, itr')
      /\ UNCHANGED <<coroutines, ident, maxID, current, cores, phase, since>>
  BY DEF BackToRun
<1>2. itr \in Taken /\ coroutines[itr] = active /\ ident[active] = itr
      /\ active \in Obj /\ Live(active)
  BY <1>1 DEF IteratorOK, NothingLost, TypeOK
<1>3. Taken' = Taken BY <1>1 DEF Taken
<1>4. itr \in Int /\ itr < End
  BY <1>2, IdModAssumption DEF TypeOK, Id, End
<1>5. /\ itr' \in Taken \cup {End}
      /\ \A d \in Taken : d < itr' <=> (d < itr \/ d = itr)
  <2>1. Taken \in SUBSET Id BY DEF TypeOK
  <2>2. /\ itr' \in Taken \cup {End}
        /\ \A d \in Taken : d < itr' <=> d <= itr
    BY <1>1, <1>4, <2>1, NextSplits
  <2>3. \A d \in Taken : d \in Int BY <2>1 DEF Id
  <2>4. \A d \in Taken : d <= itr <=> (d < itr \/ d = itr) BY <2>3, <1>4
  <2> QED BY <2>2, <2>4
<1>6. \A p \in Obj : Live(p)' <=> Live(p)
  BY <1>1, <1>2 DEF Live, TypeOK
<1>7. TypeOK'
  BY <1>1, <1>2, <1>3, <1>5 DEF TypeOK, Status
<1>8. NothingLost'
  BY <1>1, <1>3, <1>6 DEF NothingLost, TypeOK
<1>9. OneRunning'
  BY <1>1, <1>2, ObjAssumption DEF OneRunning, TypeOK
<1>10. IteratorOK'
  BY <1>1, <1>3, <1>5 DEF IteratorOK, End
<1>11. TurnOrder'
  <2> SUFFICES ASSUME NEW p \in Obj, NEW x \in Obj,
                      Waiting(p)', Live(x)', x \in since'[p]
               PROVE  /\ (ident[p] < ident[x] \/ Had(x))'
                      /\ Had(p)' => (ident[p] < ident[x] /\ Had(x))'
    BY DEF TurnOrder
  <2>1. Live(x) /\ Live(p) BY <1>6 DEF Waiting, Live
  <2>2. Waiting(p)
    BY <1>1, <1>2 DEF Waiting, TypeOK, OneRunning
  <2>3. \A q \in Obj : Live(q) => (Had(q)' <=> Had(q))
    <3> SUFFICES ASSUME NEW q \in Obj, Live(q) PROVE Had(q)' <=> Had(q)
      OBVIOUS
    <3>1. ident[q] \in Taken /\ (ident[q] = itr <=> q = active)
      BY <1>2 DEF NothingLost
    <3> QED BY <1>1, <1>5, <3>1, ObjAssumption DEF Had
  <2> QED BY <1>1, <2>1, <2>2, <2>3 DEF TurnOrder
<1> QED BY <1>7, <1>8, <1>9, <1>10, <1>11

LEMMA DestroyKeeps == ASSUME IInv, Destroy PROVE IInv'
<1> USE DEF IInv
<1>1. Taken' = {} BY DEF Destroy, Taken
<1>2. \A o \in Obj : status'[o] = "Freed"
  <2> SUFFICES ASSUME NEW o \in Obj PROVE status'[o] = "Freed" OBVIOUS
  <2>1. CASE Live(o) BY <2>1 DEF Destroy, NothingLost
  <2>2. CASE ~Live(o) BY <2>2 DEF Destroy, Live
  <2> QED BY <2>1, <2>2
<1>3. itr = End /\ active = Nobody BY DEF Destroy, IteratorOK
<1>4. UNCHANGED <<ident, maxID, current, itr, active, since>> /\ cores' = 0
  BY DEF Destroy
<1>5. TypeOK'
  <2>1. status' \in [Obj -> Status]
    BY DEF Destroy, TypeOK, Status
  <2>2. coroutines' = [i \in Taken' |-> coroutines'[i]]
    BY <1>1 DEF Destroy
  <2> QED BY <1>1, <1>4, <2>1, <2>2, MaxCoresAssumption DEF TypeOK, Destroy
<1>6. NothingLost' /\ IteratorOK' /\ TurnOrder'
  BY <1>1, <1>2, <1>3, <1>4 DEF NothingLost, IteratorOK, TurnOrder, Live, Waiting, End
<1>7. OneRunning'
  BY <1>2, <1>3, <1>4, ObjAssumption DEF OneRunning
<1> QED BY <1>5, <1>6, <1>7

LEMMA StepKeeps == IInv /\ [Next]_vars => IInv'
<1> SUFFICES ASSUME IInv, [Next]_vars PROVE IInv' OBVIOUS
<1>1. CASE UNCHANGED vars
  BY <1>1 DEF vars, IInv, TypeOK, NothingLost, OneRunning, IteratorOK, TurnOrder,
              Taken, Live, Had, Waiting
<1>2. ASSUME NEW o \in Obj, AddCoroutine(o) PROVE IInv'
  BY <1>2, AddCoroutineKeeps
<1>3. CASE InitSpins
  <2>1. phase' = "spin" /\ maxID' \in Id
    <3>1. phase' = "spin" /\ maxID' = (maxID + 1) % IdMod BY <1>3 DEF InitSpins
    <3>2. maxID \in Int BY DEF IInv, TypeOK, Id
    <3>3. (maxID + 1) % IdMod \in 0..(IdMod - 1) BY <3>2, IdModAssumption
    <3> QED BY <3>1, <3>3 DEF Id
  <2> QED
    BY <1>3, <2>1 DEF InitSpins, IInv, TypeOK, NothingLost, OneRunning, IteratorOK,
                 TurnOrder, Taken, Live, Had, Waiting
<1>4. CASE Async
  <2>1. cores' \in 0 .. MaxCores
    BY <1>4, MaxCoresAssumption DEF Async, IInv, TypeOK
  <2> QED
    BY <1>4, <2>1 DEF Async, IInv, TypeOK, NothingLost, OneRunning, IteratorOK,
                 TurnOrder, Taken, Live, Had, Waiting
<1>5. CASE StartRun
  <2>1. itr = End BY <1>5 DEF StartRun, IInv, IteratorOK
  <2> QED BY <1>5, <2>1, BeginPassKeeps DEF StartRun
<1>6. CASE NextPass BY <1>6, BeginPassKeeps DEF NextPass
<1>7. CASE EndRun
  BY <1>7 DEF EndRun, IInv, TypeOK, NothingLost, OneRunning, IteratorOK,
              TurnOrder, Taken, Live, Had, Waiting
<1>8. CASE Reap BY <1>8, ReapKeeps
<1>9. CASE Resume BY <1>9, ResumeKeeps
<1>10. CASE Yield BY <1>10, BackToRunKeeps DEF Yield
<1>11. CASE Return BY <1>11, BackToRunKeeps DEF Return
<1>12. CASE Destroy BY <1>12, DestroyKeeps
<1> QED
  BY <1>1, <1>2, <1>3, <1>4, <1>5, <1>6, <1>7, <1>8, <1>9, <1>10, <1>11, <1>12
  DEF Next

LEMMA Invariance == Spec => []IInv
<1> QED BY InitHolds, StepKeeps, PTL DEF Spec

-------------------------------------------------------------------------------
(* Every coroutine that exists is in the map once, under its own id, and the *)
(* values keep their types, for every width of the ids.                      *)
THEOREM NothingIsLost == Spec => [](TypeOK /\ NothingLost)
<1>1. IInv => TypeOK /\ NothingLost BY DEF IInv
<1> QED BY <1>1, Invariance, PTL

(* The executing body is the one of the single object marked Running.        *)
THEOREM OnlyOneRuns == Spec => []OneRunning
<1>1. IInv => OneRunning BY DEF IInv
<1> QED BY <1>1, Invariance, PTL

(* No coroutine gets a second turn while another one waits for its next.     *)
THEOREM TurnsAreFair == Spec => FairTurns
<1> DEFINE Fair ==
      \A x, o \in Obj :
        (active = Nobody /\ active' = x /\ o # x /\ status[o] \in {"Ready", "Suspend"})
          => x \notin since[o]
<1>1. IInv /\ [Next]_vars => [Fair]_vars
  <2> SUFFICES ASSUME IInv, Next, NEW x \in Obj, NEW o \in Obj,
                      active = Nobody, active' = x, o # x,
                      status[o] \in {"Ready", "Suspend"}, x \in since[o]
               PROVE  FALSE
    OBVIOUS
  <2>1. x # Nobody BY ObjAssumption
  <2>2. Resume
    BY <2>1 DEF Next, AddCoroutine, InitSpins, Async, StartRun, NextPass, BeginPass,
                EndRun, Reap, Yield, Return, BackToRun, Destroy
  <2>3. itr \in Taken /\ x = coroutines[itr] /\ ident[x] = itr /\ Live(x)
    BY <2>2, ResumeReaches
  <2>4. ~Had(x)
    <3>1. itr \in Nat BY <2>3 DEF IInv, TypeOK, Id
    <3> QED BY <2>1, <2>3, <3>1 DEF Had
  <2>5. Waiting(o) BY DEF Waiting
  <2>6. ident[o] < ident[x] /\ ~Had(o)
    BY <2>3, <2>4, <2>5 DEF IInv, TurnOrder
  <2> QED BY <2>3, <2>6 DEF Had
<1>2. Spec => [][Fair]_vars BY <1>1, Invariance, PTL DEF Spec
<1> QED BY <1>2 DEF FairTurns

-------------------------------------------------------------------------------
(* Visits: the steps of the application and of the two bodies are steps of   *)
(* the scheduler.                                                            *)

LEMMA FreshIsObject == Fresh \in Obj
BY ObjectAssumption DEF Fresh

LEMMA WStepIsStep == [WNext]_wvars => [Next]_vars
<1> SUFFICES ASSUME [WNext]_wvars PROVE [Next]_vars
  OBVIOUS
<1>1. CASE UNCHANGED wvars
  BY <1>1 DEF wvars, nvars
<1>2. ASSUME NEW v, LoadBatch(v) PROVE Next
  BY <1>2 DEF LoadBatch, Load, Next
<1>3. ASSUME NEW v, Stand(v) PROVE UNCHANGED vars
  BY <1>3 DEF Stand
<1>4. ASSUME NEW v, WalkOn(v) PROVE Next \/ UNCHANGED vars
  BY <1>4 DEF WalkOn, Reaches, Passes, Next
<1>5. ASSUME NEW v, LoadEnds(v) PROVE Next
  BY <1>5 DEF LoadEnds, Next
<1>6. ASSUME NEW v, Walk(v) PROVE Next
  BY <1>6 DEF Walk, Turn, Next
<1>7. ASSUME OpenWalker(Fresh) PROVE Next
  BY <1>7, FreshIsObject DEF OpenWalker, Next
<1>8. ASSUME NEW v, Open(v, Fresh) PROVE Next
  BY <1>8, FreshIsObject DEF Open, Next
<1>9. ASSUME StartRun \/ NextPass \/ EndRun \/ Reap \/ Resume PROVE Next
  BY <1>9 DEF Next
<1>10. QED
  BY <1>1, <1>2, <1>3, <1>4, <1>5, <1>6, <1>7, <1>8, <1>9 DEF WNext, WLoop

-------------------------------------------------------------------------------
(* Types of the visits, and what a network stays. *)

Outcomes == {"open", "reached", "no more data", "passed", "undefined"}

WTypes ==
  /\ plan \in Plans
  /\ finish \in [Net -> BOOLEAN] /\ opening \in Visit \cup {Nobody}
  /\ loader \in [Visit -> Obj \cup {Nobody}] /\ walker \in [Visit -> Obj \cup {Nobody}]
  /\ loaded \in [Visit -> Nat] /\ loading \in [Visit -> BOOLEAN]
  /\ seen \in [Visit -> Nat]
  /\ outcome \in [Visit -> Outcomes]
  /\ DOMAIN net = Visit /\ DOMAIN queue = Visit /\ DOMAIN visited = Visit
  /\ \A v \in Visit : loader[v] # Nobody => v \in DOMAIN plan
  /\ opening # Nobody => opening \in DOMAIN plan /\ phase = "app"

\* What is left of WTypes to check when only the turn of visit v goes on.
LEMMA TurnTypes ==
  ASSUME WTypes, UNCHANGED <<plan, opening, loader, walker, phase>>,
         finish' \in [Net -> BOOLEAN], loaded' \in [Visit -> Nat],
         loading' \in [Visit -> BOOLEAN], seen' \in [Visit -> Nat],
         outcome' \in [Visit -> Outcomes],
         DOMAIN net' = Visit, DOMAIN queue' = Visit, DOMAIN visited' = Visit
  PROVE  WTypes'
BY DEF WTypes, Outcomes

LEMMA WalkTypes ==
  ASSUME WTypes, NEW v \in Visit
  PROVE  /\ Stand(v) => WTypes'
         /\ WalkOn(v) => WTypes'
         /\ Walk(v) /\ UNCHANGED <<plan, walks>> => WTypes'
         /\ LoadBatch(v) => WTypes'
         /\ LoadEnds(v) /\ UNCHANGED <<plan, walks>> => WTypes'
<1>0. /\ finish \in [Net -> BOOLEAN] /\ loaded \in [Visit -> Nat]
      /\ loading \in [Visit -> BOOLEAN] /\ seen \in [Visit -> Nat]
      /\ outcome \in [Visit -> Outcomes] /\ NetOf[v] \in Net
      /\ DOMAIN net = Visit /\ DOMAIN queue = Visit /\ DOMAIN visited = Visit
  BY VisitAssumption DEF WTypes, Outcomes
<1>1. ASSUME Stand(v) PROVE WTypes'
  <2>1. /\ UNCHANGED <<plan, opening, loader, walker, phase, finish, loaded, loading, net, visited>>
        /\ seen' = [seen EXCEPT ![v] = loaded[v]]
        /\ (outcome' = [outcome EXCEPT ![v] = "undefined"] /\ queue' = queue)
           \/ (outcome' = outcome
               /\ queue' = [queue EXCEPT ![v] = {[ids |-> <<Lowest(net[v].nodes)>>, g |-> 0, f |-> 0]}])
    BY <1>1 DEF Stand, vars
  <2>2. outcome' \in [Visit -> Outcomes] /\ DOMAIN queue' = Visit
    BY <1>0, <2>1 DEF Outcomes
  <2>3. seen' \in [Visit -> Nat]
    BY <1>0, <2>1
  <2>4. QED
    BY <1>0, <2>1, <2>2, <2>3, TurnTypes
<1>2. ASSUME WalkOn(v) PROVE WTypes'
  <2>1. UNCHANGED <<finish, opening, loader, walker, loaded, loading, seen, plan, net>>
    BY <1>2 DEF WalkOn
  <2>2. PICK o : Reaches(v, o) \/ Passes(v, o)
    BY <1>2 DEF WalkOn
  <2>3. phase' = phase
    BY <2>2 DEF Reaches, Passes, Return, BackToRun, vars
  <2>4. outcome' \in [Visit -> Outcomes]
    BY <1>0, <2>2 DEF Reaches, Passes, Outcomes
  <2>5. DOMAIN queue' = Visit /\ DOMAIN visited' = Visit
    BY <1>0, <2>2 DEF Reaches, Passes
  <2>6. QED
    BY <1>0, <2>1, <2>3, <2>4, <2>5, TurnTypes
<1>3. ASSUME Walk(v), UNCHANGED <<plan, walks>> PROVE WTypes'
  <2>1. /\ UNCHANGED <<finish, opening, loader, walker, loaded, loading, plan, net, queue, visited>>
        /\ Turn(v)
    BY <1>3 DEF Walk, walks
  <2>2. phase' = phase /\ outcome' \in [Visit -> Outcomes] /\ seen' \in [Visit -> Nat]
    BY <1>0, <2>1 DEF Turn, Return, Yield, BackToRun, Outcomes
  <2>3. QED
    BY <1>0, <2>1, <2>2, TurnTypes
<1>4. ASSUME LoadBatch(v) PROVE WTypes'
  <2>1. /\ UNCHANGED <<finish, opening, loader, walker, loading, seen, outcome, phase>>
        /\ loaded' = [loaded EXCEPT ![v] = @ + 1]
        /\ UNCHANGED <<plan, queue, visited>>
    BY <1>4 DEF LoadBatch, Load, Yield, BackToRun
  <2>2. DOMAIN net' = Visit
    BY <1>0, <1>4 DEF LoadBatch
  <2>3. loaded' \in [Visit -> Nat]
    BY <1>0, <2>1
  <2>4. QED
    BY <1>0, <2>1, <2>2, <2>3, TurnTypes
<1>5. ASSUME LoadEnds(v), UNCHANGED <<plan, walks>> PROVE WTypes'
  <2>1. /\ UNCHANGED <<opening, loader, walker, loaded, seen, outcome, phase, plan, net, queue, visited>>
        /\ loading' = [loading EXCEPT ![v] = FALSE]
        /\ finish' = [finish EXCEPT ![NetOf[v]] = TRUE]
    BY <1>5 DEF LoadEnds, Finished, Return, BackToRun, walks
  <2>2. loading' \in [Visit -> BOOLEAN] /\ finish' \in [Net -> BOOLEAN]
    BY <1>0, <2>1
  <2>3. QED
    BY <1>0, <2>1, <2>2, TurnTypes
<1>6. QED
  BY <1>1, <1>2, <1>3, <1>4, <1>5

\* The steps of run between the bodies, which no visit sees.
Between ==
  /\ StartRun \/ NextPass \/ EndRun \/ Reap \/ Resume
  /\ opening = Nobody
  /\ UNCHANGED <<finish, opening, loader, walker, loaded, loading, seen, outcome>>
  /\ UNCHANGED <<plan, walks>>

\* The steps of WNext, one by one.
LEMMA WCases ==
  ASSUME WNext
  PROVE  \/ \E v \in Visit : LoadBatch(v) \/ Stand(v) \/ WalkOn(v)
         \/ \E v \in Visit : LoadEnds(v) /\ UNCHANGED <<plan, walks>>
         \/ \E v \in Visit : Selects(v, {"any"}) /\ Walk(v) /\ UNCHANGED <<plan, walks>>
         \/ OpenWalker(Fresh) /\ UNCHANGED <<plan, walks>>
         \/ Between
         \/ \E v \in DOMAIN plan : Open(v, Fresh) /\ UNCHANGED <<plan, walks>>
BY DEF WNext, WLoop, Between

LEMMA PlansAreVisits == ASSUME WTypes PROVE DOMAIN plan \subseteq Visit
BY PlanAssumption DEF WTypes

LEMMA WTypesStep ==
  ASSUME WTypes, [WNext]_wvars
  PROVE  WTypes'
<1>1. CASE UNCHANGED wvars
  BY <1>1 DEF wvars, nvars, vars, walks, WTypes
<1>2. ASSUME NEW v \in Visit, LoadBatch(v) \/ Stand(v) \/ WalkOn(v)
      PROVE  WTypes'
  BY <1>2, WalkTypes
<1>3. ASSUME NEW v \in Visit, LoadEnds(v) \/ Walk(v), UNCHANGED <<plan, walks>>
      PROVE  WTypes'
  BY <1>3, WalkTypes
<1>4. ASSUME OpenWalker(Fresh), UNCHANGED <<plan, walks>>
      PROVE  WTypes'
  <2>1. /\ opening # Nobody /\ walker' = [walker EXCEPT ![opening] = Fresh] /\ opening' = Nobody
        /\ UNCHANGED <<finish, loader, loaded, loading, seen, outcome, plan, net, queue, visited>>
    BY <1>4 DEF OpenWalker, walks
  <2>2. walker' \in [Visit -> Obj \cup {Nobody}]
    BY <2>1, FreshIsObject DEF WTypes
  <2>3. QED
    BY <2>1, <2>2 DEF WTypes
<1>5. ASSUME Between
      PROVE  WTypes'
  BY <1>5 DEF Between, WTypes, walks
<1>6. ASSUME NEW v \in DOMAIN plan, Open(v, Fresh), UNCHANGED <<plan, walks>>
      PROVE  WTypes'
  <2>1. /\ phase = "app" /\ phase' = phase /\ opening' = v
        /\ loader' = [loader EXCEPT ![v] = Fresh]
        /\ UNCHANGED <<finish, walker, loaded, loading, seen, outcome, plan, net, queue, visited>>
    BY <1>6 DEF Open, AddCoroutine, walks
  <2>2. v \in Visit
    BY PlansAreVisits
  <2>3. loader' \in [Visit -> Obj \cup {Nobody}]
    BY <2>1, FreshIsObject DEF WTypes
  <2>4. \A w \in Visit : loader'[w] # Nobody => w \in DOMAIN plan
    BY <2>1 DEF WTypes
  <2>5. QED
    BY <2>1, <2>2, <2>3, <2>4 DEF WTypes
<1>7. QED
  BY <1>1, <1>2, <1>3, <1>4, <1>5, <1>6, WCases

LEMMA WTypesInit == WInit => WTypes
<1> SUFFICES ASSUME WInit PROVE WTypes
  OBVIOUS
<1>1. /\ plan \in Plans /\ finish = [n \in Net |-> FALSE] /\ opening = Nobody
      /\ loader = [v \in Visit |-> Nobody] /\ walker = [v \in Visit |-> Nobody]
      /\ loaded = [v \in Visit |-> 0] /\ loading = [v \in Visit |-> TRUE]
      /\ seen = [v \in Visit |-> 0] /\ outcome = [v \in Visit |-> "open"]
      /\ DOMAIN net = Visit /\ DOMAIN queue = Visit /\ DOMAIN visited = Visit
  BY DEF WInit, NInit
<1>2. QED
  BY <1>1 DEF WTypes, Outcomes

LEMMA WInvariance == WSpec => [](IInv /\ WTypes)
<1>1. WInit => IInv
  BY InitHolds DEF WInit, NInit
<1>2. IInv /\ [WNext]_wvars => IInv'
  BY WStepIsStep, StepKeeps
<1>3. QED
  BY <1>1, <1>2, WTypesInit, WTypesStep, PTL DEF WSpec

-------------------------------------------------------------------------------
(* Giving up. *)

\* A network whose visit is said to be at its end is no longer loaded, and a walk
\* that gave up had seen what was loaded by then.
GaveUpInv ==
  /\ \A v \in Visit : finish[NetOf[v]] => ~loading[v]
  /\ GivesUpOnAllData

LEMMA GaveUpStep ==
  ASSUME \A v, w \in Visit : NetOf[v] = NetOf[w] => v = w,
         WTypes, GaveUpInv, [WNext]_wvars
  PROVE  GaveUpInv'
<1>1. CASE UNCHANGED wvars
  BY <1>1 DEF wvars, nvars, GaveUpInv, GivesUpOnAllData
<1>2. ASSUME NEW v \in Visit, LoadBatch(v)
      PROVE  GaveUpInv'
  <2>1. /\ UNCHANGED <<finish, loading, seen, outcome>> /\ loading[v]
        /\ loaded' = [loaded EXCEPT ![v] = @ + 1]
    BY <1>2 DEF LoadBatch, Load
  <2>2. QED
    BY <2>1 DEF GaveUpInv, GivesUpOnAllData, WTypes
<1>3. ASSUME NEW v \in Visit, Stand(v) \/ WalkOn(v)
      PROVE  GaveUpInv'
  <2>1. /\ UNCHANGED <<finish, loading, loaded>> /\ outcome[v] = "open"
        /\ \A w \in Visit : w # v => seen'[w] = seen[w] /\ outcome'[w] = outcome[w]
        /\ outcome'[v] # "no more data"
    BY <1>3 DEF Stand, WalkOn, Walking, Reaches, Passes, WTypes
  <2>2. QED
    BY <2>1 DEF GaveUpInv, GivesUpOnAllData
<1>4. ASSUME NEW v \in Visit, LoadEnds(v)
      PROVE  GaveUpInv'
  <2>1. /\ UNCHANGED <<loaded, seen, outcome>>
        /\ loading' = [loading EXCEPT ![v] = FALSE]
        /\ finish' = [finish EXCEPT ![NetOf[v]] = TRUE]
    BY <1>4 DEF LoadEnds, Finished
  <2>2. \A w \in Visit : w # v => NetOf[w] # NetOf[v] /\ NetOf[w] \in Net
    BY VisitAssumption
  <2>3. QED
    BY <2>1, <2>2 DEF GaveUpInv, GivesUpOnAllData, WTypes
<1>5. ASSUME NEW v \in Visit, Walk(v)
      PROVE  GaveUpInv'
  <2>1. /\ UNCHANGED <<finish, loading, loaded>> /\ seen' = [seen EXCEPT ![v] = loaded[v]]
        /\ \A w \in Visit : w # v => outcome'[w] = outcome[w]
        /\ outcome[v] = "open"
        /\ outcome'[v] = "no more data" => finish[NetOf[v]]
    BY <1>5 DEF Walk, Turn, WTypes
  <2>2. QED
    BY <2>1 DEF GaveUpInv, GivesUpOnAllData, WTypes
<1>6. ASSUME NEW v, OpenWalker(Fresh) \/ Between \/ Open(v, Fresh)
      PROVE  GaveUpInv'
  BY <1>6 DEF OpenWalker, Between, Open, GaveUpInv, GivesUpOnAllData
<1>7. QED
  BY <1>1, <1>2, <1>3, <1>4, <1>5, <1>6, WCases

\* A walk that gives up for want of data has walked once more over all the data
\* its loader brought (VirtualNetwork.h:77-90), whatever the visits and the order in
\* which coroutines get their turns, as long as no network is visited twice.
THEOREM GivingUpIsLate ==
  ASSUME \A v, w \in Visit : NetOf[v] = NetOf[w] => v = w
  PROVE  WSpec => []GivesUpOnAllData
<1>1. WInit => GaveUpInv
  BY VisitAssumption DEF WInit, NInit, GaveUpInv, GivesUpOnAllData
<1>2. WTypes /\ GaveUpInv /\ [WNext]_wvars => GaveUpInv'
  BY GaveUpStep
<1>3. GaveUpInv => GivesUpOnAllData
  BY DEF GaveUpInv
<1>4. QED
  BY <1>1, <1>2, <1>3, WInvariance, PTL DEF WSpec

-------------------------------------------------------------------------------
(* Networks stay built, and what is brought is there. *)

Nets == {g \in [nodes : SUBSET Node, lists : [Node -> [Layer -> SUBSET Int]],
                edges : UNION {[D -> Edge] : D \in SUBSET Int}] : Built(g)}

LEMMA BuiltNets ==
  ASSUME NEW g
  PROVE  /\ g \in Nets <=> Built(g)
         /\ Built(g) => \A n, l : Linked(g, n, l) \subseteq g.nodes
<1>1. Built(g) => g \in Nets
  BY DEF Nets, Built
<1>2. g \in Nets => Built(g)
  BY DEF Nets
<1>3. ASSUME Built(g), NEW n, NEW l, NEW x \in Linked(g, n, l)
      PROVE  x \in g.nodes
  <2>1. PICK i \in DOMAIN g.edges : x = Across(g.edges[i], n)
    BY DEF Linked
  <2>2. x \in {g.edges[i].from, g.edges[i].to}
    BY <2>1 DEF Across
  <2>3. QED
    BY <1>3, <2>2 DEF Built
<1>4. QED
  BY <1>1, <1>2, <1>3

LEMMA OneFieldMore ==
  ASSUME NEW A, NEW B, NEW C, NEW g \in [nodes : A, lists : B, edges : C], NEW S
  PROVE  [g EXCEPT !.nodes = S] = [nodes |-> S, lists |-> g.lists, edges |-> g.edges]
OBVIOUS

LEMMA NodeBuilt ==
  ASSUME NEW g, Built(g), NEW n, n \in Node
  PROVE  Built(WithNode(g, n)) /\ WithNode(g, n).nodes = g.nodes \cup {n}
<1> DEFINE h == WithNode(g, n)
<1>1. /\ g \in [nodes : SUBSET Node, lists : [Node -> [Layer -> SUBSET Int]],
                edges : [DOMAIN g.edges -> Edge]]
      /\ IsFiniteSet(g.nodes)
  BY DEF Built
<1>2. h = [nodes |-> g.nodes \cup {n}, lists |-> g.lists, edges |-> g.edges]
  <2> DEFINE L == [Node -> [Layer -> SUBSET Int]]
             E == [DOMAIN g.edges -> Edge]
  <2>1. g \in [nodes : SUBSET Node, lists : L, edges : E]
    BY <1>1
  <2> HIDE DEF L, E
  <2>2. QED
    BY <2>1, OneFieldMore DEF WithNode
<1>3. IsFiniteSet(g.nodes \cup {n})
  BY <1>1, FS_AddElement
<1> HIDE DEF h
<1>4. h.nodes = g.nodes \cup {n} /\ h.lists = g.lists /\ h.edges = g.edges
  BY <1>2
<1>5. Built(h)
  BY <1>1, <1>2, <1>3, <1>4 DEF Built
<1>6. QED
  BY <1>4, <1>5 DEF h

\* An edge whose ends are there, and what its entry keeps.
Joinable(g, i, a, b, info, l) ==
  Built(g) /\ i \in Int /\ {a, b} \subseteq g.nodes /\ info \in Info /\ l \in Layer
KeepsBuilt(g, h) == Built(h) /\ h.nodes = g.nodes

LEMMA EdgeBuilt ==
  ASSUME NEW g, NEW i, NEW a, NEW b, NEW info, NEW l, Joinable(g, i, a, b, info, l)
  PROVE  KeepsBuilt(g, WithEdge(g, i, a, b, info, l))
<1> DEFINE D == DOMAIN g.edges
           both == [nodes |-> g.nodes, lists |-> g.lists, edges |-> Put(g.edges, i, BothWays(g.edges[i]))]
           e == [from |-> a, to |-> b, info |-> info, both |-> FALSE, layer |-> l]
           K == [n \in Node |-> [m \in Layer |-> IF m = l /\ n \in {a, b} THEN g.lists[n][m] \cup {i}
                                                 ELSE g.lists[n][m]]]
           more == [nodes |-> g.nodes, lists |-> K, edges |-> Put(g.edges, i, e)]
<1>0. /\ Built(g) /\ i \in Int /\ a \in g.nodes /\ b \in g.nodes /\ info \in Info /\ l \in Layer
  BY DEF Joinable
<1>1. /\ g \in [nodes : SUBSET Node, lists : [Node -> [Layer -> SUBSET Int]], edges : [D -> Edge]]
      /\ D \subseteq Int /\ IsFiniteSet(D) /\ IsFiniteSet(g.nodes)
      /\ \A j \in D : {g.edges[j].from, g.edges[j].to} \subseteq g.nodes
  BY <1>0 DEF Built
<1>3. ASSUME i \in D PROVE KeepsBuilt(g, both)
  <2>1. Put(g.edges, i, BothWays(g.edges[i])) \in [D -> Edge]
    BY <1>1, <1>3 DEF Put, BothWays, Edge
  <2>2. DOMAIN both.edges = D
    BY <1>3 DEF Put
  <2>3. \A j \in D : both.edges[j].from = g.edges[j].from /\ both.edges[j].to = g.edges[j].to
    BY <1>3 DEF Put, BothWays
  <2>4. both \in [nodes : SUBSET Node, lists : [Node -> [Layer -> SUBSET Int]], edges : [D -> Edge]]
        /\ both.nodes = g.nodes
    BY <1>1, <2>1
  <2> HIDE DEF both
  <2>5. QED
    BY <1>1, <2>2, <2>3, <2>4 DEF Built, KeepsBuilt
<1>4. KeepsBuilt(g, more)
  <2>1. a \in Node /\ b \in Node
    BY <1>0, <1>1
  <2>2. e \in Edge /\ e.from = a /\ e.to = b
    BY <1>0, <2>1 DEF Edge
  <2> HIDE DEF e
  <2>3. /\ DOMAIN more.edges = D \cup {i} /\ more.edges \in [D \cup {i} -> Edge]
        /\ more.edges[i] = e /\ \A j \in D : j # i => more.edges[j] = g.edges[j]
    BY <1>1, <2>2 DEF Put
  <2>4. K \in [Node -> [Layer -> SUBSET Int]]
    BY <1>0, <1>1
  <2>5. /\ more = [nodes |-> g.nodes, lists |-> K, edges |-> more.edges] /\ more.nodes = g.nodes
    OBVIOUS
  <2>6. IsFiniteSet(D \cup {i})
    BY <1>1, FS_AddElement
  <2> HIDE DEF more, K
  <2>7. more \in [nodes : SUBSET Node, lists : [Node -> [Layer -> SUBSET Int]], edges : [DOMAIN more.edges -> Edge]]
    BY <1>1, <2>3, <2>4, <2>5
  <2>8. \A j \in D \cup {i} : {more.edges[j].from, more.edges[j].to} \subseteq g.nodes
    BY <1>0, <1>1, <2>2, <2>3
  <2>9. QED
    BY <1>0, <1>1, <2>3, <2>5, <2>6, <2>7, <2>8 DEF Built, KeepsBuilt
<1>5. CASE a \in Linked(g, b, l) /\ i \in D
  <2>1. WithEdge(g, i, a, b, info, l) = both
    BY <1>5, Zenon DEF WithEdge
  <2>2. QED
    BY <1>3, <1>5, <2>1, Zenon
<1>6. CASE a \in Linked(g, b, l) /\ i \notin D
  <2>1. WithEdge(g, i, a, b, info, l) = g
    BY <1>6, Zenon DEF WithEdge
  <2>2. QED
    BY <1>0, <2>1 DEF KeepsBuilt
<1>7. CASE a \notin Linked(g, b, l)
  <2>1. WithEdge(g, i, a, b, info, l) = more
    BY <1>7, Zenon DEF WithEdge
  <2>2. QED
    BY <1>4, <2>1, Zenon
<1>8. QED
  BY <1>5, <1>6, <1>7

LEMMA GivenBuilt ==
  ASSUME NEW g, g \in Nets, NEW x, x \in Given
  PROVE  WithGiven(g, x) \in Nets /\ g.nodes \subseteq WithGiven(g, x).nodes
         /\ WithGiven(g, x).nodes # {}
<1> DEFINE a == x.from
           b == x.to
           i == x.id
           info == x.info
           l == 0
           g1 == WithNode(g, a)
           g2 == WithNode(g1, b)
           h == WithEdge(g2, i, a, b, info, l)
           j == IF x.both THEN i ELSE i + 1
<1>0. WithGiven(g, x) = WithEdge(h, j, b, a, info, l)
  BY DEF WithGiven
<1>1. i \in Int /\ i + 1 \in Int /\ a \in Node /\ b \in Node /\ info \in Info /\ l \in Layer
  BY NodeAssumption DEF Given
<1> HIDE DEF a, b, i, info, l
<1>2. Built(g1) /\ g1.nodes = g.nodes \cup {a}
  BY <1>1, BuiltNets, NodeBuilt
<1> HIDE DEF g1
<1>3. Built(g2) /\ g2.nodes = g1.nodes \cup {b}
  BY <1>1, <1>2, NodeBuilt
<1> HIDE DEF g2
<1>4. a \in g2.nodes /\ b \in g2.nodes /\ g.nodes \subseteq g2.nodes
  BY <1>2, <1>3
<1>5. Built(h) /\ h.nodes = g2.nodes
  <2>1. Joinable(g2, i, a, b, info, l)
    BY <1>1, <1>3, <1>4 DEF Joinable
  <2>2. QED
    BY <2>1, EdgeBuilt DEF KeepsBuilt
<1> HIDE DEF h
<1>6. j \in Int
  BY <1>1
<1> HIDE DEF j
<1>7. KeepsBuilt(h, WithEdge(h, j, b, a, info, l))
  <2>1. Joinable(h, j, b, a, info, l)
    BY <1>1, <1>4, <1>5, <1>6 DEF Joinable
  <2>2. QED
    BY <2>1, EdgeBuilt
<1>8. QED
  BY <1>0, <1>4, <1>5, <1>7, BuiltNets DEF KeepsBuilt

\* What is brought is linked one by one.
IsBringing(g, links, u) ==
  /\ Bring(g, links) = u[Len(links)] /\ u[0] = g
  /\ \A k \in 1..Len(links) : u[k] = WithGiven(u[k - 1], links[k])

LEMMA BringsOneByOne ==
  ASSUME NEW g, Built(g), NEW links, links \in Seq(Given)
  PROVE  \E u : IsBringing(g, links, u)
<1> DEFINE N == Len(links)
           P(h) == h = [k \in 0..N |-> IF k = 0 THEN g ELSE WithGiven(h[k - 1], links[k])]
           f == [x \in (1..N) \X Nets |-> WithGiven(x[2], links[x[1]])]
           u == CHOOSE h : P(h)
<1>1. N \in Nat /\ (\A k \in 1..N : links[k] \in Given) /\ g \in Nets
  BY BuiltNets
<1>2. \E h : P(h)
  <2>1. \A x \in (1..N) \X Nets : WithGiven(x[2], links[x[1]]) \in Nets
    BY <1>1, GivenBuilt
  <2>2. f \in Steps(Nets, N)
    BY <2>1 DEF Steps
  <2>3. \A k \in 1..N : \A y \in Nets : f[<<k, y>>] = WithGiven(y, links[k])
    OBVIOUS
  <2> HIDE DEF f, N
  <2>4. PICK r : IsRun(r, Nets, g, N, f)
    BY <1>1, <2>2, Recursion
  <2>5. \A k \in 1..N : r[k] = WithGiven(r[k - 1], links[k])
    <3> TAKE k \in 1..N
    <3>1. k - 1 \in 0..N
      BY <1>1
    <3>2. r[k - 1] \in Nets /\ r[k] = f[<<k, r[k - 1]>>]
      BY <2>4, <3>1 DEF IsRun
    <3>3. QED
      BY <2>3, <3>2
  <2>6. r = [k \in 0..N |-> r[k]] /\ r[0] = g
    BY <2>4 DEF IsRun
  <2>7. \A k \in 0..N : k = 0 \/ k \in 1..N
    BY <1>1
  <2>8. \A k \in 0..N : r[k] = IF k = 0 THEN g ELSE WithGiven(r[k - 1], links[k])
    BY <2>5, <2>6, <2>7
  <2>9. P(r)
    BY <2>6, <2>8
  <2>10. QED
    BY <2>9
<1>3. Bring(g, links) = u[N]
  BY DEF Bring
<1>4. P(u)
  <2> HIDE DEF P
  <2>1. QED
    BY <1>2
<1> HIDE DEF u, N
<1>5. u[0] = g /\ \A k \in 1..N : u[k] = WithGiven(u[k - 1], links[k])
  <2>1. 0 \in 0..N /\ \A k \in 1..N : k \in 0..N /\ k # 0
    BY <1>1
  <2>2. \A k \in 0..N : u[k] = IF k = 0 THEN g ELSE WithGiven(u[k - 1], links[k])
    BY <1>4, Zenon
  <2> HIDE DEF P
  <2>3. QED
    BY <2>1, <2>2, Zenon
<1> HIDE DEF P
<1>6. QED
  BY <1>3, <1>5 DEF IsBringing, N

LEMMA BringBuilt ==
  ASSUME NEW g, Built(g), NEW links, links \in Seq(Given)
  PROVE  /\ Built(Bring(g, links)) /\ g.nodes \subseteq Bring(g, links).nodes
         /\ links # <<>> => Bring(g, links).nodes # {}
<1> DEFINE N == Len(links)
<1>1. N \in Nat /\ (\A k \in 1..N : links[k] \in Given) /\ g \in Nets
  BY BuiltNets
<1>2. PICK u : IsBringing(g, links, u)
  BY BringsOneByOne
<1>3. Bring(g, links) = u[N]
  BY <1>2 DEF IsBringing
<1>5. u[0] = g /\ \A k \in 1..N : u[k] = WithGiven(u[k - 1], links[k])
  BY <1>2 DEF IsBringing
<1> HIDE DEF N
<1> DEFINE T == {k \in 0..N : u[k] \in Nets /\ g.nodes \subseteq u[k].nodes
                              /\ (k # 0 => u[k].nodes # {})}
<1>6. 0 \in T
  BY <1>1, <1>5
<1>7. ASSUME NEW m \in 0..(N - 1), m \in T
      PROVE  m + 1 \in T
  <2>1. /\ m + 1 \in 1..N /\ m + 1 \in 0..N /\ (m + 1) - 1 = m
    BY <1>1
  <2>2. u[m + 1] = WithGiven(u[m], links[m + 1])
    BY <1>5, <2>1
  <2>3. /\ u[m] \in Nets /\ g.nodes \subseteq u[m].nodes /\ links[m + 1] \in Given
    BY <1>1, <1>7, <2>1
  <2>4. QED
    BY <2>1, <2>2, <2>3, GivenBuilt
<1>8. 0..N \subseteq T
  <2> HIDE DEF T
  <2>1. QED
    BY <1>1, <1>6, <1>7, UpTo
<1>9. N \in 0..N /\ (links # <<>> => N # 0)
  BY <1>1 DEF N
<1>10. u[N] \in Nets /\ g.nodes \subseteq u[N].nodes /\ (N # 0 => u[N].nodes # {})
  BY <1>8, <1>9
<1>11. QED
  BY <1>3, <1>9, <1>10, BuiltNets

-------------------------------------------------------------------------------
(* What the walks rest on: networks are built and hold what was loaded, the  *)
(* bodies of visits are different coroutines that wait for their turns, and  *)
(* a loader that has loaded nothing has not had its turn in this pass.       *)

NetsInv ==
  \A v \in Visit : Built(net[v]) /\ (loaded[v] > 0 => net[v].nodes # {})

LoaderOn(v) == loader[v] # Nobody /\ loading[v]
WalkerOn(v) == walker[v] # Nobody /\ outcome[v] = "open"

Own ==
  /\ phase \in {"app", "run"}
  /\ \A v \in Visit : walker[v] # Nobody \/ opening = v => loader[v] # Nobody
  /\ \A v \in Visit : /\ LoaderOn(v) => Waiting(loader[v])
                      /\ WalkerOn(v) => Waiting(walker[v])
  /\ \A v, w \in Visit :
       /\ LoaderOn(v) /\ LoaderOn(w) /\ v # w => loader[v] # loader[w]
       /\ WalkerOn(v) /\ WalkerOn(w) /\ v # w => walker[v] # walker[w]
       /\ LoaderOn(v) /\ WalkerOn(w) => loader[v] # walker[w]

FirstTurn ==
  \A v \in Visit : LoaderOn(v) /\ loaded[v] = 0 /\ phase = "run" => itr <= ident[loader[v]]

LEMMA EmptyBuilt == Built(EmptyNet)
<1> DEFINE L == [n \in Node |-> [l \in Layer |-> {}]]
<1>1. EmptyNet = [nodes |-> {}, lists |-> L, edges |-> NoEdges]
  BY DEF EmptyNet
<1>2. L \in [Node -> [Layer -> SUBSET Int]]
  OBVIOUS
<1>3. DOMAIN NoEdges = {} /\ NoEdges \in [{} -> Edge]
  BY DEF NoEdges
<1>4. IsFiniteSet({})
  BY FS_EmptySet
<1> HIDE DEF L
<1>5. EmptyNet.nodes = {} /\ EmptyNet.edges = NoEdges
  BY <1>1
<1>6. EmptyNet \in [nodes : SUBSET Node, lists : [Node -> [Layer -> SUBSET Int]], edges : [DOMAIN EmptyNet.edges -> Edge]]
  BY <1>1, <1>2, <1>3, <1>5
<1>7. QED
  BY <1>3, <1>4, <1>5, <1>6 DEF Built

LEMMA NetsInit == WInit => NetsInv
<1> SUFFICES ASSUME WInit, NEW v \in Visit
             PROVE  Built(net[v]) /\ ~(loaded[v] > 0)
  BY DEF NetsInv
<1>1. loaded[v] = 0 /\ net[v] = IF v \in DOMAIN plan THEN plan[v].net ELSE EmptyNet
  BY DEF WInit, NInit
<1>2. v \in DOMAIN plan => Built(plan[v].net)
  BY PlanAssumption DEF WInit
<1>3. QED
  BY <1>1, <1>2, EmptyBuilt

LEMMA NetsStep ==
  ASSUME WTypes, NetsInv, [WNext]_wvars
  PROVE  NetsInv'
<1>1. CASE UNCHANGED wvars
  BY <1>1 DEF wvars, nvars, walks, NetsInv
<1>2. ASSUME NEW v \in Visit, LoadBatch(v)
      PROVE  NetsInv'
  <2>1. /\ loader[v] # Nobody
        /\ loaded' = [loaded EXCEPT ![v] = @ + 1]
    BY <1>2 DEF LoadBatch, Load, Yield
  <2>2. PICK b \in plan[v].brings : net' = [net EXCEPT ![v] = Bring(@, b)]
    BY <1>2 DEF LoadBatch
  <2>3. b \in Seq(Given) /\ b # <<>>
    BY <2>1, <2>2, PlanAssumption DEF WTypes
  <2>4. Built(Bring(net[v], b)) /\ Bring(net[v], b).nodes # {}
    BY <2>3, BringBuilt DEF NetsInv
  <2>5. \A w \in Visit : net'[w] = IF w = v THEN Bring(net[v], b) ELSE net[w]
    BY <2>2 DEF WTypes
  <2>6. \A w \in Visit : w # v => loaded'[w] = loaded[w]
    BY <2>1 DEF WTypes
  <2>7. QED
    BY <2>4, <2>5, <2>6 DEF NetsInv
<1>3. ASSUME UNCHANGED <<loaded, net>> PROVE NetsInv'
  BY <1>3 DEF NetsInv
<1>4. ASSUME NEW v, Stand(v) \/ WalkOn(v) \/ ((LoadEnds(v) \/ Walk(v) \/ OpenWalker(Fresh) \/ Open(v, Fresh))
                                               /\ UNCHANGED <<plan, walks>>)
      PROVE  UNCHANGED <<loaded, net>>
  BY <1>4 DEF Stand, WalkOn, LoadEnds, Walk, OpenWalker, Open, walks
<1>5. ASSUME Between PROVE UNCHANGED <<loaded, net>>
  BY <1>5 DEF Between, walks
<1>6. QED
  BY <1>1, <1>2, <1>3, <1>4, <1>5, WCases

LEMMA OwnInit == WInit => Own /\ FirstTurn
<1> SUFFICES ASSUME WInit PROVE Own /\ FirstTurn
  OBVIOUS
<1>1. /\ phase = "app" /\ opening = Nobody
      /\ \A v \in Visit : loader[v] = Nobody /\ walker[v] = Nobody
  BY DEF WInit, NInit, Init
<1>2. Nobody \notin Visit
  BY NoVisitAssumption
<1>3. QED
  BY <1>1, <1>2 DEF Own, FirstTurn, LoaderOn, WalkerOn

-------------------------------------------------------------------------------
(* Whose turn it is. *)

\* The turn of o ends with status s.
TurnEnds(o, s) ==
  /\ active = o /\ o # Nobody /\ phase = "run" /\ phase' = "run" /\ ident' = ident
  /\ status' = [status EXCEPT ![o] = s]
  /\ IsNext(Taken, itr, itr')

\* What a turn of the loader of v does to the visits, and one of its walker.
LoaderTurn(v) ==
  /\ LoaderOn(v) /\ UNCHANGED <<opening, loader, walker, outcome>>
  /\ \A w \in Visit : w # v => loading'[w] = loading[w] /\ loaded'[w] = loaded[w]
  /\ \/ TurnEnds(loader[v], "Suspend") /\ loaded'[v] > 0 /\ loading'[v] = loading[v]
     \/ TurnEnds(loader[v], "Finish") /\ ~loading'[v]
WalkerTurn(v) ==
  /\ WalkerOn(v) /\ UNCHANGED <<opening, loader, walker, loaded, loading>>
  /\ \A w \in Visit : w # v => outcome'[w] = outcome[w]
  /\ \/ TurnEnds(walker[v], "Suspend") /\ outcome'[v] = outcome[v]
     \/ TurnEnds(walker[v], "Finish") /\ outcome'[v] # "open"
     \/ UNCHANGED vars

LEMMA BodyTurns ==
  ASSUME WTypes, NEW v \in Visit
  PROVE  /\ LoadBatch(v) \/ LoadEnds(v) => LoaderTurn(v)
         /\ Stand(v) \/ WalkOn(v) \/ Walk(v) => WalkerTurn(v)
<1>0. /\ loaded \in [Visit -> Nat] /\ loading \in [Visit -> BOOLEAN]
      /\ outcome \in [Visit -> Outcomes]
  BY DEF WTypes
<1>1. ASSUME LoadBatch(v) PROVE LoaderTurn(v)
  <2>1. /\ active = loader[v] /\ loading[v] /\ loaded' = [loaded EXCEPT ![v] = @ + 1]
        /\ Yield /\ UNCHANGED <<opening, loader, walker, outcome, loading>>
    BY <1>1 DEF LoadBatch, Load
  <2>2. TurnEnds(loader[v], "Suspend") /\ LoaderOn(v)
    BY <2>1 DEF Yield, BackToRun, TurnEnds, LoaderOn
  <2>3. loaded'[v] > 0 /\ \A w \in Visit : w # v => loaded'[w] = loaded[w]
    BY <1>0, <2>1
  <2>4. QED
    BY <2>1, <2>2, <2>3 DEF LoaderTurn
<1>2. ASSUME LoadEnds(v) PROVE LoaderTurn(v)
  <2>1. /\ active = loader[v] /\ loading[v] /\ loading' = [loading EXCEPT ![v] = FALSE]
        /\ Return /\ UNCHANGED <<opening, loader, walker, outcome, loaded>>
    BY <1>2 DEF LoadEnds
  <2>2. TurnEnds(loader[v], "Finish") /\ LoaderOn(v)
    BY <2>1 DEF Return, BackToRun, TurnEnds, LoaderOn
  <2>3. ~loading'[v] /\ \A w \in Visit : w # v => loading'[w] = loading[w]
    BY <1>0, <2>1
  <2>4. QED
    BY <2>1, <2>2, <2>3 DEF LoaderTurn
<1>3. ASSUME Stand(v) PROVE WalkerTurn(v)
  <2>1. /\ active # Nobody /\ active = walker[v] /\ outcome[v] = "open" /\ UNCHANGED vars
        /\ UNCHANGED <<opening, loader, walker, loaded, loading>>
        /\ outcome' = outcome \/ outcome' = [outcome EXCEPT ![v] = "undefined"]
    BY <1>3 DEF Stand, Walking
  <2>2. \A w \in Visit : w # v => outcome'[w] = outcome[w]
    BY <1>0, <2>1
  <2>3. QED
    BY <2>1, <2>2 DEF WalkerTurn, WalkerOn
<1>4. ASSUME WalkOn(v) PROVE WalkerTurn(v)
  <2>1. /\ active # Nobody /\ active = walker[v] /\ outcome[v] = "open"
        /\ UNCHANGED <<opening, loader, walker, loaded, loading>>
    BY <1>4 DEF WalkOn, Walking
  <2>2. \/ UNCHANGED <<vars, outcome>>
        \/ Return /\ \/ outcome' = [outcome EXCEPT ![v] = "reached"]
                     \/ outcome' = [outcome EXCEPT ![v] = "passed"]
    BY <1>4 DEF WalkOn, Reaches, Passes
  <2>3. /\ \A w \in Visit : w # v => outcome'[w] = outcome[w]
        /\ Return => outcome'[v] # "open"
    BY <1>0, <2>2 DEF Return, BackToRun, vars
  <2>4. Return => TurnEnds(walker[v], "Finish")
    BY <2>1 DEF Return, BackToRun, TurnEnds
  <2>5. QED
    BY <2>1, <2>2, <2>3, <2>4 DEF WalkerTurn, WalkerOn
<1>5. ASSUME Walk(v) PROVE WalkerTurn(v)
  <2>1. /\ active = walker[v] /\ outcome[v] = "open"
        /\ UNCHANGED <<opening, loader, walker, loaded, loading>>
    BY <1>5 DEF Walk
  <2>2. \/ Yield /\ outcome' = outcome
        \/ Return /\ \/ outcome' = [outcome EXCEPT ![v] = "reached"]
                     \/ outcome' = [outcome EXCEPT ![v] = "no more data"]
    BY <1>5 DEF Walk, Turn
  <2>3. /\ \A w \in Visit : w # v => outcome'[w] = outcome[w]
        /\ \/ Yield /\ outcome'[v] = outcome[v]
           \/ Return /\ outcome'[v] # "open"
    BY <1>0, <2>2
  <2>4. /\ Return => TurnEnds(walker[v], "Finish") /\ active # Nobody
        /\ Yield => TurnEnds(walker[v], "Suspend") /\ active # Nobody
    BY <2>1 DEF Return, Yield, BackToRun, TurnEnds
  <2>5. QED
    BY <2>1, <2>3, <2>4 DEF WalkerTurn, WalkerOn
<1>6. QED
  BY <1>1, <1>2, <1>3, <1>4, <1>5

-------------------------------------------------------------------------------
(* The bodies stay apart. *)

LEMMA WaitingStays ==
  ASSUME IInv, NEW o \in Obj, Waiting(o), NEW f \in Obj
  PROVE  /\ Between => Waiting(o)'
         /\ AddCoroutine(f) => o # f /\ Waiting(o)'
<1>0. status \in [Obj -> Status] /\ \A i \in Taken : coroutines[i] \in Obj
  BY DEF IInv, TypeOK
<1>1. ASSUME Reap PROVE Waiting(o)'
  BY <1>0, <1>1 DEF Reap, Waiting
<1>2. ASSUME Resume PROVE Waiting(o)'
  BY <1>0, <1>2 DEF Resume, Waiting
<1>3. ASSUME StartRun \/ NextPass \/ EndRun PROVE Waiting(o)'
  BY <1>3 DEF StartRun, NextPass, EndRun, BeginPass, Waiting
<1>4. ASSUME AddCoroutine(f) PROVE o # f /\ Waiting(o)'
  <2>1. ~Live(f) /\ status' = [status EXCEPT ![f] = "Ready"]
    BY <1>4 DEF AddCoroutine
  <2>2. QED
    BY <1>0, <2>1 DEF Waiting, Live
<1>5. QED
  BY <1>1, <1>2, <1>3, <1>4 DEF Between

\* The objects of a visit that has a body are objects.
LEMMA BodiesAreObjects ==
  ASSUME WTypes, NEW v \in Visit
  PROVE  (LoaderOn(v) => loader[v] \in Obj) /\ (WalkerOn(v) => walker[v] \in Obj)
BY DEF WTypes, LoaderOn, WalkerOn

LEMMA BodyKeepsOwn ==
  ASSUME IInv, WTypes, Own, NEW v \in Visit, LoaderTurn(v) \/ WalkerTurn(v)
  PROVE  Own'
<1>0. status \in [Obj -> Status]
  BY DEF IInv, TypeOK
<1>1. ASSUME NEW o \in Obj, NEW s, TurnEnds(o, s)
      PROVE  /\ phase' = "run" /\ status'[o] = s
             /\ \A p \in Obj : p # o => status'[p] = status[p]
  BY <1>0, <1>1 DEF TurnEnds
<1>2. ASSUME LoaderTurn(v) PROVE Own'
  <2>1. /\ LoaderOn(v) /\ UNCHANGED <<opening, loader, walker, outcome>>
        /\ \A w \in Visit : w # v => loading'[w] = loading[w]
        /\ loader[v] \in Obj
    BY <1>2, BodiesAreObjects DEF LoaderTurn
  <2>2. \A w \in Visit : LoaderOn(w)' => LoaderOn(w)
    BY <2>1 DEF LoaderOn
  <2>3. \A w \in Visit : WalkerOn(w)' = WalkerOn(w)
    BY <2>1 DEF WalkerOn
  <2>4. phase' = "run"
    BY <1>1, <1>2, <2>1 DEF LoaderTurn
  <2>5. \A w \in Visit : /\ LoaderOn(w)' => Waiting(loader[w])'
                         /\ WalkerOn(w)' => Waiting(walker[w])'
    <3> SUFFICES ASSUME NEW w \in Visit
                 PROVE  /\ LoaderOn(w)' => Waiting(loader[w])'
                        /\ WalkerOn(w)' => Waiting(walker[w])'
      OBVIOUS
    <3>1. ASSUME WalkerOn(w)' PROVE Waiting(walker[w])'
      <4>1. WalkerOn(w) /\ walker[w] # loader[v] /\ walker[w] \in Obj /\ Waiting(walker[w])
        BY <2>1, <2>3, <3>1, BodiesAreObjects DEF Own
      <4>2. status'[walker[w]] = status[walker[w]]
        BY <1>1, <1>2, <2>1, <4>1 DEF LoaderTurn
      <4>3. QED
        BY <2>1, <4>1, <4>2 DEF Waiting
    <3>2. ASSUME LoaderOn(w)', w # v PROVE Waiting(loader[w])'
      <4>1. LoaderOn(w) /\ loader[w] # loader[v] /\ loader[w] \in Obj /\ Waiting(loader[w])
        BY <2>1, <2>2, <3>2, BodiesAreObjects DEF Own
      <4>2. status'[loader[w]] = status[loader[w]]
        BY <1>1, <1>2, <2>1, <4>1 DEF LoaderTurn
      <4>3. QED
        BY <2>1, <4>1, <4>2 DEF Waiting
    <3>3. ASSUME LoaderOn(w)', w = v PROVE Waiting(loader[w])'
      <4>1. loading'[v]
        BY <3>3 DEF LoaderOn
      <4>2. TurnEnds(loader[v], "Suspend")
        BY <1>2, <4>1 DEF LoaderTurn
      <4>3. status'[loader[v]] = "Suspend"
        BY <1>1, <2>1, <4>2
      <4>4. QED
        BY <2>1, <3>3, <4>3 DEF Waiting
    <3>4. QED
      BY <3>1, <3>2, <3>3
  <2>6. QED
    BY <2>1, <2>2, <2>3, <2>4, <2>5 DEF Own
<1>3. ASSUME WalkerTurn(v) PROVE Own'
  <2>1. /\ WalkerOn(v) /\ UNCHANGED <<opening, loader, walker, loaded, loading>>
        /\ \A w \in Visit : w # v => outcome'[w] = outcome[w]
        /\ walker[v] \in Obj
    BY <1>3, BodiesAreObjects DEF WalkerTurn
  <2>2. \A w \in Visit : WalkerOn(w)' => WalkerOn(w)
    BY <2>1 DEF WalkerOn
  <2>3. \A w \in Visit : LoaderOn(w)' = LoaderOn(w)
    BY <2>1 DEF LoaderOn
  <2>4. phase' \in {"app", "run"}
    BY <1>1, <1>3, <2>1 DEF WalkerTurn, Own, vars
  <2>5. \A w \in Visit : /\ LoaderOn(w)' => Waiting(loader[w])'
                         /\ WalkerOn(w)' => Waiting(walker[w])'
    <3> SUFFICES ASSUME NEW w \in Visit
                 PROVE  /\ LoaderOn(w)' => Waiting(loader[w])'
                        /\ WalkerOn(w)' => Waiting(walker[w])'
      OBVIOUS
    <3>1. ASSUME LoaderOn(w)' PROVE Waiting(loader[w])'
      <4>1. LoaderOn(w) /\ loader[w] # walker[v] /\ loader[w] \in Obj /\ Waiting(loader[w])
        BY <2>1, <2>3, <3>1, BodiesAreObjects DEF Own
      <4>2. status'[loader[w]] = status[loader[w]]
        BY <1>1, <1>3, <2>1, <4>1 DEF WalkerTurn, vars
      <4>3. QED
        BY <2>1, <4>1, <4>2 DEF Waiting
    <3>2. ASSUME WalkerOn(w)', w # v PROVE Waiting(walker[w])'
      <4>1. WalkerOn(w) /\ walker[w] # walker[v] /\ walker[w] \in Obj /\ Waiting(walker[w])
        BY <2>1, <2>2, <3>2, BodiesAreObjects DEF Own
      <4>2. status'[walker[w]] = status[walker[w]]
        BY <1>1, <1>3, <2>1, <4>1 DEF WalkerTurn, vars
      <4>3. QED
        BY <2>1, <4>1, <4>2 DEF Waiting
    <3>3. ASSUME WalkerOn(w)', w = v PROVE Waiting(walker[w])'
      <4>1. outcome'[v] = "open" /\ Waiting(walker[v])
        BY <2>1, <3>3 DEF WalkerOn, Own
      <4>2. TurnEnds(walker[v], "Suspend") \/ UNCHANGED vars
        BY <1>3, <4>1 DEF WalkerTurn
      <4>3. status'[walker[v]] = "Suspend" \/ status' = status
        BY <1>1, <2>1, <4>2 DEF vars
      <4>4. QED
        BY <2>1, <3>3, <4>1, <4>3 DEF Waiting
    <3>4. QED
      BY <3>1, <3>2, <3>3
  <2>6. QED
    BY <2>1, <2>2, <2>3, <2>4, <2>5 DEF Own
<1>4. QED
  BY <1>2, <1>3

LEMMA OwnStep ==
  ASSUME IInv, WTypes, Own, [WNext]_wvars
  PROVE  Own'
<1>1. CASE UNCHANGED wvars
  BY <1>1 DEF wvars, nvars, vars, Own, LoaderOn, WalkerOn, Waiting
<1>2. ASSUME NEW v \in Visit, LoadBatch(v) \/ LoadEnds(v) \/ Stand(v) \/ WalkOn(v) \/ Walk(v)
      PROVE  Own'
  BY <1>2, BodyTurns, BodyKeepsOwn
<1>3. ASSUME NEW f \in Obj, OpenWalker(f)
      PROVE  Own'
  <2>1. /\ AddCoroutine(f) /\ opening # Nobody /\ opening' = Nobody
        /\ walker' = [walker EXCEPT ![opening] = f]
        /\ UNCHANGED <<loader, loaded, loading, outcome>>
    BY <1>3 DEF OpenWalker
  <2>2. phase' = phase
    BY <2>1 DEF AddCoroutine
  <2>3. opening \in Visit /\ walker \in [Visit -> Obj \cup {Nobody}]
    BY <2>1 DEF WTypes
  <2>4. \A w \in Visit : walker'[w] = IF w = opening THEN f ELSE walker[w]
    BY <2>1, <2>3
  <2>5. \A o \in Obj : Waiting(o) => o # f /\ Waiting(o)'
    BY <2>1, WaitingStays
  <2>6. status'[f] = "Ready"
    BY <2>1 DEF AddCoroutine, IInv, TypeOK
  <2>7. \A w \in Visit : LoaderOn(w)' = LoaderOn(w)
    BY <2>1 DEF LoaderOn
  <2>8. \A w \in Visit : w # opening => (WalkerOn(w)' = WalkerOn(w))
    BY <2>1, <2>4 DEF WalkerOn
  <2>9. \A w \in Visit : /\ LoaderOn(w) => loader[w] \in Obj /\ loader[w] # f /\ Waiting(loader[w])'
                         /\ WalkerOn(w) => walker[w] \in Obj /\ walker[w] # f
    BY <2>1, <2>5, BodiesAreObjects DEF Own, Waiting
  <2>10. \A w \in Visit : w # opening /\ WalkerOn(w) => Waiting(walker[w])'
    BY <2>4, <2>5, <2>9 DEF Own, Waiting
  <2>11. \A w \in Visit : WalkerOn(w)' => Waiting(walker[w])'
    BY <2>4, <2>6, <2>8, <2>10 DEF Waiting
  <2>12. \A w \in Visit : walker'[w] # Nobody \/ opening' = w => loader'[w] # Nobody
    BY <2>1, <2>4, NoVisitAssumption DEF Own
  <2>13. \A x, w \in Visit :
           /\ LoaderOn(x)' /\ LoaderOn(w)' /\ x # w => loader'[x] # loader'[w]
           /\ WalkerOn(x)' /\ WalkerOn(w)' /\ x # w => walker'[x] # walker'[w]
           /\ LoaderOn(x)' /\ WalkerOn(w)' => loader'[x] # walker'[w]
    BY <2>1, <2>4, <2>7, <2>8, <2>9 DEF Own
  <2>14. QED
    BY <2>1, <2>2, <2>7, <2>9, <2>11, <2>12, <2>13 DEF Own
<1>4. ASSUME Between
      PROVE  Own'
  <2>1. UNCHANGED <<opening, loader, walker, loaded, loading, outcome>>
    BY <1>4 DEF Between
  <2>2. phase' \in {"app", "run"}
    BY <1>4 DEF Between, StartRun, NextPass, EndRun, BeginPass, Reap, Resume, Own
  <2>3. \A w \in Visit : LoaderOn(w)' = LoaderOn(w) /\ WalkerOn(w)' = WalkerOn(w)
    BY <2>1 DEF LoaderOn, WalkerOn
  <2>4. \A o \in Obj : Waiting(o) => Waiting(o)'
    BY <1>4, WaitingStays
  <2>5. \A w \in Visit : /\ LoaderOn(w) => Waiting(loader[w])'
                         /\ WalkerOn(w) => Waiting(walker[w])'
    BY <2>1, <2>4, BodiesAreObjects DEF Own, Waiting
  <2>6. QED
    BY <2>1, <2>2, <2>3, <2>5 DEF Own
<1>5. ASSUME NEW v \in DOMAIN plan, NEW f \in Obj, Open(v, f)
      PROVE  Own'
  <2>1. /\ AddCoroutine(f) /\ opening' = v /\ loader[v] = Nobody
        /\ loader' = [loader EXCEPT ![v] = f]
        /\ UNCHANGED <<walker, loaded, loading, outcome>>
    BY <1>5 DEF Open
  <2>2. phase' = phase /\ v \in Visit /\ loader \in [Visit -> Obj \cup {Nobody}]
    BY <2>1, PlansAreVisits DEF AddCoroutine, WTypes
  <2>3. \A w \in Visit : loader'[w] = IF w = v THEN f ELSE loader[w]
    BY <2>1, <2>2
  <2>4. \A o \in Obj : Waiting(o) => o # f /\ Waiting(o)'
    BY <2>1, WaitingStays
  <2>5. status'[f] = "Ready" /\ f # Nobody
    BY <2>1, ObjAssumption DEF AddCoroutine, IInv, TypeOK
  <2>6. \A w \in Visit : WalkerOn(w)' = WalkerOn(w)
    BY <2>1 DEF WalkerOn
  <2>7. \A w \in Visit : w # v => (LoaderOn(w)' = LoaderOn(w))
    BY <2>1, <2>3 DEF LoaderOn
  <2>8. \A w \in Visit : /\ LoaderOn(w) => loader[w] \in Obj /\ loader[w] # f
                         /\ WalkerOn(w) => walker[w] \in Obj /\ walker[w] # f /\ Waiting(walker[w])'
    BY <2>1, <2>4, BodiesAreObjects DEF Own, Waiting
  <2>9. \A w \in Visit : w # v /\ LoaderOn(w) => Waiting(loader[w])'
    BY <2>3, <2>4, <2>8 DEF Own, Waiting
  <2>10. \A w \in Visit : LoaderOn(w)' => Waiting(loader[w])'
    BY <2>3, <2>5, <2>7, <2>9 DEF Waiting
  <2>11. \A w \in Visit : walker'[w] # Nobody \/ opening' = w => loader'[w] # Nobody
    BY <2>1, <2>3, <2>5 DEF Own
  <2>12. \A x, w \in Visit :
           /\ LoaderOn(x)' /\ LoaderOn(w)' /\ x # w => loader'[x] # loader'[w]
           /\ WalkerOn(x)' /\ WalkerOn(w)' /\ x # w => walker'[x] # walker'[w]
           /\ LoaderOn(x)' /\ WalkerOn(w)' => loader'[x] # walker'[w]
    BY <2>1, <2>3, <2>6, <2>7, <2>8 DEF Own
  <2>13. QED
    BY <2>1, <2>2, <2>6, <2>8, <2>10, <2>11, <2>12 DEF Own
<1>6. QED
  BY <1>1, <1>2, <1>3, <1>4, <1>5, WCases, FreshIsObject

\* Where a waiting coroutine is.
LEMMA PlaceOf ==
  ASSUME IInv, NEW o \in Obj, Waiting(o)
  PROVE  ident[o] \in Taken /\ coroutines[ident[o]] = o /\ ident[o] \in Int /\ ident[o] < End
BY IdModAssumption DEF IInv, NothingLost, TypeOK, Waiting, Live, Id, End

\* A coroutine that is not behind the iterator is not passed over.
LEMMA NotPassed ==
  ASSUME IInv, NEW o \in Obj, Waiting(o)
  PROVE  /\ \A x \in Obj : (\E s : TurnEnds(x, s)) /\ x # o /\ itr <= ident[o] => itr' <= ident'[o]
         /\ Between /\ phase' = "run" /\ (phase = "run" => itr <= ident[o]) => itr' <= ident'[o]
<1>0. /\ ident[o] \in Taken /\ coroutines[ident[o]] = o /\ ident[o] \in Int /\ ident[o] < End
      /\ Taken \in SUBSET Id /\ End \in Int
  BY PlaceOf, IdModAssumption DEF IInv, TypeOK, End
<1>1. ASSUME NEW x \in Obj, NEW s, x # o, TurnEnds(x, s), itr <= ident[o]
      PROVE  itr' <= ident'[o]
  <2>1. active = x /\ x # Nobody /\ ident' = ident /\ IsNext(Taken, itr, itr')
    BY <1>1 DEF TurnEnds
  <2>2. coroutines[itr] = x /\ itr \in Int /\ itr # ident[o]
    BY <1>0, <1>1, <2>1 DEF IInv, IteratorOK, TypeOK, Id
  <2>3. itr' \in Taken \cup {End} /\ \A d \in Taken : d < itr' <=> d <= itr
    BY <1>0, <2>1, <2>2, NextSplits
  <2>4. itr' \in Int
    BY <1>0, <2>3 DEF Id
  <2>5. QED
    BY <1>0, <1>1, <2>1, <2>2, <2>3, <2>4
<1>2. ASSUME StartRun \/ NextPass
      PROVE  itr' <= ident'[o]
  <2>1. IsNext(Taken, -1, itr') /\ ident' = ident
    BY <1>2 DEF StartRun, NextPass, BeginPass
  <2>2. itr' \in Taken \cup {End} /\ \A d \in Taken : d < itr' <=> d <= -1
    BY <1>0, <2>1, NextSplits
  <2>3. itr' \in Int /\ ident[o] \in Nat
    BY <1>0, <2>2 DEF Id
  <2>4. QED
    BY <1>0, <2>1, <2>2, <2>3
<1>3. ASSUME Reap, itr <= ident[o]
      PROVE  itr' <= ident'[o]
  <2>1. /\ phase = "run" /\ itr \in Taken /\ status[coroutines[itr]] = "Finish" /\ ident' = ident
        /\ IsNext(Taken \ {itr}, itr, itr')
    BY <1>3 DEF Reap, AtEntry, IInv, IteratorOK, Erase
  <2>2. itr \in Int /\ itr # ident[o] /\ ident[o] \in Taken \ {itr} /\ Taken \ {itr} \in SUBSET Id
    BY <1>0, <2>1 DEF Waiting, Id
  <2>3. itr' \in (Taken \ {itr}) \cup {End} /\ \A d \in Taken \ {itr} : d < itr' <=> d <= itr
    BY <2>1, <2>2, NextSplits
  <2>4. itr' \in Int
    BY <1>0, <2>3 DEF Id
  <2>5. QED
    BY <1>0, <1>3, <2>1, <2>2, <2>3, <2>4
<1>4. ASSUME Resume, itr <= ident[o]
      PROVE  itr' <= ident'[o]
  BY <1>4 DEF Resume
<1>5. /\ EndRun => phase' # "run"
      /\ Reap \/ Resume => phase = "run"
  BY DEF EndRun, Reap, Resume, AtEntry
<1>6. QED
  BY <1>1, <1>2, <1>3, <1>4, <1>5 DEF Between

LEMMA FirstTurnStep ==
  ASSUME IInv, WTypes, Own, FirstTurn, [WNext]_wvars
  PROVE  FirstTurn'
<1>1. CASE UNCHANGED wvars
  BY <1>1 DEF wvars, nvars, vars, FirstTurn, LoaderOn
<1>2. ASSUME NEW v \in Visit, LoaderTurn(v), NEW w \in Visit, LoaderOn(w)', loaded'[w] = 0
      PROVE  itr' <= ident'[loader'[w]]
  <2>1. /\ LoaderOn(v) /\ loader' = loader /\ loader[v] \in Obj
        /\ \E s : TurnEnds(loader[v], s)
    BY <1>2, BodiesAreObjects DEF LoaderTurn
  <2>2. w # v
    <3>1. loaded'[v] > 0 \/ ~loading'[v]
      BY <1>2 DEF LoaderTurn
    <3>2. loading'[w] /\ ~(loaded'[w] > 0)
      BY <1>2 DEF LoaderOn
    <3>3. QED
      BY <3>1, <3>2
  <2>3. LoaderOn(w) /\ loaded[w] = 0
    BY <1>2, <2>1, <2>2 DEF LoaderTurn, LoaderOn
  <2>4. loader[w] \in Obj /\ Waiting(loader[w]) /\ loader[v] # loader[w]
    BY <2>1, <2>2, <2>3, BodiesAreObjects DEF Own
  <2>5. itr <= ident[loader[w]]
    BY <2>1, <2>3 DEF FirstTurn, TurnEnds
  <2>6. QED
    BY <2>1, <2>4, <2>5, NotPassed
<1>3. ASSUME NEW v \in Visit, WalkerTurn(v), NEW w \in Visit, LoaderOn(w)', loaded'[w] = 0, phase' = "run"
      PROVE  itr' <= ident'[loader'[w]]
  <2>1. /\ WalkerOn(v) /\ loader' = loader /\ walker[v] \in Obj
        /\ (\E s : TurnEnds(walker[v], s)) \/ UNCHANGED vars
    BY <1>3, BodiesAreObjects DEF WalkerTurn
  <2>2. LoaderOn(w) /\ loaded[w] = 0
    BY <1>3, <2>1 DEF WalkerTurn, LoaderOn
  <2>3. loader[w] \in Obj /\ Waiting(loader[w]) /\ walker[v] # loader[w]
    BY <2>1, <2>2, BodiesAreObjects DEF Own
  <2>4. itr <= ident[loader[w]]
    BY <1>3, <2>1, <2>2 DEF FirstTurn, TurnEnds, vars
  <2>5. QED
    BY <2>1, <2>3, <2>4, NotPassed DEF vars
<1>4. ASSUME NEW v \in Visit, LoadBatch(v) \/ LoadEnds(v) \/ Stand(v) \/ WalkOn(v) \/ Walk(v)
      PROVE  FirstTurn'
  <2>1. LoaderTurn(v) \/ WalkerTurn(v)
    BY <1>4, BodyTurns
  <2>2. QED
    BY <1>2, <1>3, <2>1 DEF FirstTurn
<1>5. ASSUME Between
      PROVE  FirstTurn'
  <2> SUFFICES ASSUME NEW w \in Visit, LoaderOn(w)', loaded'[w] = 0, phase' = "run"
               PROVE  itr' <= ident'[loader'[w]]
    BY DEF FirstTurn
  <2>1. LoaderOn(w) /\ loaded[w] = 0 /\ loader' = loader
    BY <1>5 DEF Between, LoaderOn
  <2>2. loader[w] \in Obj /\ Waiting(loader[w])
    BY <2>1, BodiesAreObjects DEF Own
  <2>3. phase = "run" => itr <= ident[loader[w]]
    BY <2>1 DEF FirstTurn
  <2>4. QED
    BY <1>5, <2>1, <2>2, <2>3, NotPassed
<1>6. ASSUME NEW v, NEW f, OpenWalker(f) \/ Open(v, f)
      PROVE  FirstTurn'
  <2>1. phase = "app" /\ phase' = phase
    BY <1>6 DEF OpenWalker, Open, AddCoroutine, WTypes
  <2>2. QED
    BY <2>1 DEF FirstTurn
<1>7. QED
  BY <1>1, <1>4, <1>5, <1>6, WCases

-------------------------------------------------------------------------------
(* The search of a walk. *)

Paths == Seq(Node) \ {<<>>}
Ends(q) == {Last(p.ids) : p \in q}

\* What a walk has met: visited nodes V and the ends of the paths in its queue Q.
Explored(g, V, Q) ==
  /\ \A p \in Q : p.ids \in Paths
  /\ Lowest(g.nodes) \in V \cup Ends(Q) /\ V \cup Ends(Q) \subseteq g.nodes
  /\ \A n \in V : Linked(g, n, 0) \subseteq V \cup Ends(Q)
  /\ Target \notin V

SearchOf(v) ==
  /\ active = walker[v] /\ active # Nobody /\ Selects(v, {"a star", "breadth first"})
  /\ Explored(net[v], visited[v], queue[v])

SearchInv ==
  \A v \in Visit : outcome[v] = "open" =>
    /\ queue[v] = {} => visited[v] = {}
    /\ queue[v] # {} => SearchOf(v)

LEMMA LastOfPath ==
  ASSUME NEW s, s \in Paths, NEW n \in Node
  PROVE  /\ Last(s) \in Node /\ Append(s, n) \in Paths /\ Last(Append(s, n)) = n
         /\ <<n>> \in Paths /\ Last(<<n>>) = n
BY DEF Paths, Last

LEMMA LowestIsThere ==
  ASSUME NEW S, S \subseteq Node, S # {}
  PROVE  Lowest(S) \in S
<1>1. S \in SUBSET Nat
  BY NodeAssumption
<1>2. \E n \in S : \A m \in S : n <= m
  BY <1>1, Least
<1>3. QED
  BY <1>2 DEF Lowest

LEMMA StandExplores ==
  ASSUME NEW g, Built(g), g.nodes # {}, NEW Q,
         Q = {[ids |-> <<Lowest(g.nodes)>>, g |-> 0, f |-> 0]}
  PROVE  Explored(g, {}, Q)
<1> DEFINE n == Lowest(g.nodes)
           p == [ids |-> <<n>>, g |-> 0, f |-> 0]
<1>1. n \in g.nodes /\ n \in Node
  BY LowestIsThere DEF Built
<1>2. p.ids = <<n>>
  OBVIOUS
<1> HIDE DEF n
<1>3. p.ids \in Paths /\ Last(p.ids) = n
  BY <1>1, <1>2 DEF Paths, Last
<1> HIDE DEF p
<1>4. Q = {p}
  BY DEF p, n
<1>5. Ends(Q) = {n}
  BY <1>3, <1>4 DEF Ends
<1>6. QED
  BY <1>1, <1>3, <1>4, <1>5 DEF Explored, n

LEMMA PassExplores ==
  ASSUME WTypes, NEW v \in Visit, Built(net[v]), Explored(net[v], visited[v], queue[v]),
         NEW o \in queue[v], Passes(v, o)
  PROVE  Explored(net[v], visited'[v], queue'[v])
<1> DEFINE g == net[v]
           V == visited[v]
           Q == queue[v]
           l == Last(o.ids)
           W == V \cup {l}
           new == Linked(g, l, 0) \ W
           nth(n) == Cardinality({m \in new : m <= n})
           K == {Pushed(v, o, n, nth(n)) : n \in new}
           R == (Q \ {o}) \cup K
<1>1. visited'[v] = W /\ l # Target
  BY DEF Passes, WTypes
<1>2. queue'[v] = R
  <2>1. queue' = [queue EXCEPT ![v] = (@ \ {o}) \cup
                    {Pushed(v, o, n, Cardinality({m \in Linked(net[v], l, 0) \ visited'[v] : m <= n}))
                       : n \in Linked(net[v], l, 0) \ visited'[v]}]
    BY DEF Passes
  <2>2. QED
    BY <1>1, <2>1 DEF WTypes
<1>3. /\ \A p \in Q : p.ids \in Paths
      /\ Lowest(g.nodes) \in V \cup Ends(Q) /\ V \cup Ends(Q) \subseteq g.nodes
      /\ \A n \in V : Linked(g, n, 0) \subseteq V \cup Ends(Q)
      /\ Target \notin V
  BY DEF Explored
<1>4. new \subseteq g.nodes /\ g.nodes \subseteq Node /\ Linked(g, l, 0) \subseteq g.nodes
  BY BuiltNets DEF Built
<1>5. o.ids \in Paths /\ l \in Ends(Q)
  BY <1>3 DEF Ends
<1>6. \A n \in new : \A k : Pushed(v, o, n, k).ids \in Paths /\ Last(Pushed(v, o, n, k).ids) = n
  <2> SUFFICES ASSUME NEW n \in new, NEW k
               PROVE  Pushed(v, o, n, k).ids \in Paths /\ Last(Pushed(v, o, n, k).ids) = n
    OBVIOUS
  <2>1. Pushed(v, o, n, k).ids = Append(o.ids, n)
    BY DEF Pushed
  <2>2. n \in Node
    BY <1>4
  <2>3. QED
    BY <1>5, <2>1, <2>2, LastOfPath
<1> HIDE DEF g, V, Q, l, new, nth
<1>7. Ends(K) = new /\ \A p \in K : p.ids \in Paths
  BY <1>6 DEF Ends
<1>8. Ends(R) = Ends(Q \ {o}) \cup Ends(K)
  <2> HIDE DEF K
  <2>1. QED
    BY DEF Ends
<1>9. Ends(Q) \subseteq Ends(Q \ {o}) \cup {l}
  BY DEF Ends, l
<1>10. Ends(Q \ {o}) \subseteq Ends(Q)
  BY DEF Ends
<1> HIDE DEF K
<1>11. W \cup Ends(R) = V \cup Ends(Q) \cup new \cup {l}
  BY <1>5, <1>7, <1>8, <1>9, <1>10
<1>12. \A p \in R : p.ids \in Paths
  BY <1>3, <1>7
<1>13. Linked(g, l, 0) \subseteq W \cup new
  BY DEF new
<1> HIDE DEF R
<1>14. \A n \in W : Linked(g, n, 0) \subseteq W \cup Ends(R)
  BY <1>3, <1>11, <1>13
<1>15. W \cup Ends(R) \subseteq g.nodes
  BY <1>3, <1>4, <1>5, <1>11
<1>16. Explored(g, W, R)
  BY <1>1, <1>3, <1>11, <1>12, <1>14, <1>15 DEF Explored
<1>17. QED
  BY <1>1, <1>2, <1>16 DEF g

LEMMA NothingLeft ==
  ASSUME NEW g, NEW V, NEW Q, Built(g), Explored(g, V, Q), Q = {} \/ ~Unseen(g, V)
  PROVE  RoutesTo(g, Target) = {}
<1>0. /\ V \subseteq g.nodes /\ Lowest(g.nodes) \in V \cup Ends(Q) /\ Target \notin V
      /\ V \cup Ends(Q) \subseteq g.nodes
      /\ \A n \in V : Linked(g, n, 0) \subseteq V \cup Ends(Q)
  BY DEF Explored
<1>1. Lowest(g.nodes) \in V /\ \A n \in V : Linked(g, n, 0) \subseteq V
  <2>1. CASE Q = {}
    BY <1>0, <2>1 DEF Ends
  <2>2. CASE ~Unseen(g, V)
    <3>1. IsFiniteSet(g.nodes) /\ IsFiniteSet(DOMAIN g.edges)
      BY DEF Built
    <3>2. /\ Cardinality(g.nodes) \in Nat /\ Cardinality(DOMAIN g.edges) \in Nat
          /\ IsFiniteSet(V) /\ Cardinality(V) \in Nat /\ Cardinality(V) <= Cardinality(g.nodes)
      BY <1>0, <3>1, FS_CardinalityType, FS_Subset
    <3>3. Cardinality(V) = Cardinality(g.nodes)
      BY <2>2, <3>2 DEF Unseen
    <3>4. V = g.nodes
      BY <1>0, <3>1, <3>3, FS_Subset
    <3>5. QED
      BY <1>0, <3>4
  <2>3. QED
    BY <2>1, <2>2
<1> SUFFICES ASSUME NEW p \in RoutesTo(g, Target) PROVE FALSE
  OBVIOUS
<1>2. Cardinality(Node) \in Nat
  BY NodeAssumption, FS_CardinalityType
<1>3. PICK n \in 1..Cardinality(Node) : p \in [1..n -> Node]
  BY DEF RoutesTo, Tours
<1>4. /\ p[1] = Lowest(g.nodes) /\ Last(p) = Target
      /\ \A i \in 1..(Len(p) - 1) : p[i + 1] \in Linked(g, p[i], 0)
  BY DEF RoutesTo
<1>5. n \in Nat \ {0} /\ Len(p) = n
  BY <1>2, <1>3
<1> DEFINE T == {m \in 0..(n - 1) : p[m + 1] \in V}
<1>6. 0 \in T
  BY <1>1, <1>4, <1>5
<1>7. ASSUME NEW m \in 0..(n - 1 - 1), m \in T
      PROVE  m + 1 \in T
  <2>1. m + 1 \in 1..(n - 1) /\ m + 1 \in 0..(n - 1)
    BY <1>5
  <2>2. p[m + 1] \in V /\ p[(m + 1) + 1] \in Linked(g, p[m + 1], 0)
    BY <1>4, <1>5, <1>7, <2>1
  <2>3. QED
    BY <1>1, <2>1, <2>2
<1>8. 0..(n - 1) \subseteq T
  <2> HIDE DEF T
  <2>1. n - 1 \in Nat
    BY <1>5
  <2>2. QED
    BY <1>6, <1>7, <2>1, UpTo
<1>9. p[(n - 1) + 1] \in V
  BY <1>5, <1>8
<1>10. Last(p) \in V
  BY <1>5, <1>9 DEF Last
<1>11. QED
  BY <1>0, <1>4, <1>10

\* A walk is under way from its first turn of the loop to its end.
LEMMA SearchInit == WInit => SearchInv
BY DEF WInit, SearchInv

\* What the turn of a walk does to its search.
LEMMA WalkTurn ==
  ASSUME WTypes, NetsInv, NEW v \in Visit, SearchInv, outcome[v] = "open", Stand(v) \/ WalkOn(v)
  PROVE  /\ active' = active \/ outcome'[v] # "open"
         /\ active = walker[v] /\ active # Nobody /\ Selects(v, {"a star", "breadth first"})
         /\ \/ outcome'[v] = "undefined" /\ net[v].nodes = {}
            \/ outcome'[v] = "reached"
            \/ outcome'[v] = "passed" /\ RoutesTo(net[v], Target) = {}
            \/ /\ outcome'[v] = "open" /\ queue'[v] # {}
               /\ Explored(net[v], visited'[v], queue'[v])
<1>0. Built(net[v]) /\ outcome \in [Visit -> Outcomes] /\ DOMAIN queue = Visit /\ DOMAIN visited = Visit
  BY DEF NetsInv, WTypes
<1>1. active = walker[v] /\ active # Nobody /\ Selects(v, {"a star", "breadth first"})
  BY DEF Stand, WalkOn, Walking
<1>2. CASE Stand(v)
  <2>1. /\ UNCHANGED vars /\ visited' = visited /\ visited[v] = {}
    BY <1>2 DEF Stand, SearchInv
  <2>2. CASE net[v].nodes = {}
    BY <1>0, <1>1, <1>2, <2>1, <2>2 DEF Stand, vars
  <2>3. CASE net[v].nodes # {}
    <3>1. /\ outcome' = outcome
          /\ queue'[v] = {[ids |-> <<Lowest(net[v].nodes)>>, g |-> 0, f |-> 0]}
      BY <1>0, <1>2, <2>3 DEF Stand
    <3>2. Explored(net[v], {}, queue'[v])
      BY <1>0, <2>3, <3>1, StandExplores
    <3>3. QED
      BY <1>1, <2>1, <3>1, <3>2 DEF vars
  <2>4. QED
    BY <2>2, <2>3
<1>3. CASE WalkOn(v)
  <2>1. PICK o \in queue[v] : Reaches(v, o) \/ Passes(v, o)
    BY <1>3 DEF WalkOn
  <2>2. CASE Reaches(v, o)
    BY <1>0, <1>1, <2>2 DEF Reaches
  <2>3. CASE Passes(v, o)
    <3>1. Explored(net[v], visited[v], queue[v])
      BY <2>1 DEF SearchInv, SearchOf
    <3>2. Explored(net[v], visited'[v], queue'[v])
      BY <1>0, <2>3, <3>1, PassExplores
    <3>3. CASE Unseen(net[v], visited'[v]) /\ queue'[v] # {}
      <4>1. UNCHANGED <<vars, outcome>>
        BY <2>3, <3>3 DEF Passes
      <4>2. QED
        BY <1>1, <3>2, <3>3, <4>1 DEF vars
    <3>4. CASE ~(Unseen(net[v], visited'[v]) /\ queue'[v] # {})
      <4>1. outcome'[v] = "passed"
        BY <1>0, <2>3, <3>4 DEF Passes
      <4>2. RoutesTo(net[v], Target) = {}
        BY <1>0, <3>2, <3>4, NothingLeft
      <4>3. QED
        BY <1>1, <4>1, <4>2
    <3>5. QED
      BY <3>3, <3>4
  <2>4. QED
    BY <2>1, <2>2, <2>3
<1>4. QED
  BY <1>2, <1>3

LEMMA SearchStep ==
  ASSUME IInv, WTypes, NetsInv, Own, SearchInv, [WNext]_wvars
  PROVE  SearchInv'
<1>1. CASE UNCHANGED wvars
  BY <1>1 DEF wvars, nvars, vars, walks, SearchInv, SearchOf, Selects
<1>3. ASSUME NEW v \in Visit, outcome[v] = "open", queue[v] # {}
      PROVE  /\ active # Nobody /\ active = walker[v] /\ WalkerOn(v) /\ phase = "run" /\ itr # End
             /\ Selects(v, {"a star", "breadth first"})
  BY <1>3 DEF SearchInv, SearchOf, WalkerOn, IInv, IteratorOK, Own
<1>4. ASSUME NEW w \in Visit, LoadBatch(w) \/ (LoadEnds(w) /\ UNCHANGED <<plan, walks>>)
      PROVE  SearchInv'
  <2>1. /\ active = loader[w] /\ active # Nobody /\ LoaderOn(w)
        /\ UNCHANGED <<plan, walker, outcome, queue, visited>>
        /\ \A v \in Visit : v # w => net'[v] = net[v]
    <3>1. CASE LoadBatch(w)
      BY <3>1 DEF LoadBatch, Load, Yield, LoaderOn, WTypes
    <3>2. CASE LoadEnds(w) /\ UNCHANGED <<plan, walks>>
      BY <3>2 DEF LoadEnds, Return, BackToRun, LoaderOn, walks
    <3>3. QED
      BY <1>4, <3>1, <3>2
  <2>2. \A v \in Visit : outcome[v] = "open" => queue[v] = {}
    BY <1>3, <2>1 DEF Own
  <2>3. QED
    BY <2>1, <2>2 DEF SearchInv
<1>5. ASSUME NEW w \in Visit, Selects(w, {"any"}), Walk(w), UNCHANGED <<plan, walks>>
      PROVE  SearchInv'
  <2>1. /\ active = walker[w] /\ active # Nobody /\ WalkerOn(w)
        /\ UNCHANGED <<plan, walker, net, queue, visited>>
        /\ \A v \in Visit : v # w => outcome'[v] = outcome[v]
    BY <1>5 DEF Walk, Turn, Yield, Return, BackToRun, WalkerOn, walks, WTypes
  <2>2. outcome[w] = "open" /\ ~Selects(w, {"a star", "breadth first"})
    BY <1>5 DEF Walk, Selects
  <2>3. \A v \in Visit : outcome[v] = "open" => queue[v] = {}
    BY <1>3, <2>1, <2>2 DEF Own
  <2>4. \A v \in Visit : outcome'[v] = "open" => outcome[v] = "open"
    BY <2>1, <2>2
  <2>5. QED
    BY <2>1, <2>3, <2>4 DEF SearchInv
<1>6. ASSUME NEW w \in Visit, Stand(w) \/ WalkOn(w)
      PROVE  SearchInv'
  <2>1. /\ UNCHANGED <<plan, walker, net>> /\ outcome[w] = "open" /\ WalkerOn(w)
        /\ \A v \in Visit : v # w => /\ outcome'[v] = outcome[v] /\ queue'[v] = queue[v]
                                     /\ visited'[v] = visited[v]
    BY <1>6 DEF Stand, WalkOn, Walking, Reaches, Passes, WTypes, WalkerOn
  <2>2. /\ active' = active \/ outcome'[w] # "open"
        /\ active = walker[w] /\ active # Nobody /\ Selects(w, {"a star", "breadth first"})
        /\ outcome'[w] = "open" => queue'[w] # {} /\ Explored(net[w], visited'[w], queue'[w])
    BY <1>6, <2>1, WalkTurn
  <2>3. \A v \in Visit : v # w /\ outcome[v] = "open" => queue[v] = {}
    BY <1>3, <2>1, <2>2 DEF Own
  <2>4. ASSUME NEW v \in Visit, v # w, outcome'[v] = "open"
        PROVE  queue'[v] = {} /\ visited'[v] = {}
    BY <2>1, <2>3, <2>4 DEF SearchInv
  <2>5. ASSUME outcome'[w] = "open"
        PROVE  queue'[w] # {} /\ SearchOf(w)'
    BY <2>1, <2>2, <2>5 DEF SearchOf, Selects
  <2>6. QED
    BY <2>4, <2>5 DEF SearchInv
<1>7. ASSUME OpenWalker(Fresh) \/ (\E w \in DOMAIN plan : Open(w, Fresh)), UNCHANGED <<plan, walks>>
      PROVE  SearchInv'
  <2>1. /\ phase = "app" /\ UNCHANGED <<plan, outcome, net, queue, visited>>
    BY <1>7 DEF OpenWalker, Open, WTypes, walks
  <2>2. \A v \in Visit : outcome[v] = "open" => queue[v] = {}
    BY <1>3, <2>1
  <2>3. QED
    BY <2>1, <2>2 DEF SearchInv
<1>8. ASSUME Between
      PROVE  SearchInv'
  <2>1. UNCHANGED <<plan, outcome, net, queue, visited, walker>>
    BY <1>8 DEF Between, walks
  <2>2. \A v \in Visit : outcome[v] = "open" => queue[v] = {}
    BY <1>3, <1>8 DEF Between, StartRun, NextPass, EndRun, Reap, Resume, AtEntry
  <2>3. QED
    BY <2>1, <2>2 DEF SearchInv
<1>9. CASE \E w \in Visit : LoadBatch(w) \/ Stand(w) \/ WalkOn(w)
  BY <1>4, <1>6, <1>9
<1>10. CASE \E w \in Visit : LoadEnds(w) /\ UNCHANGED <<plan, walks>>
  BY <1>4, <1>10
<1>11. CASE \E w \in Visit : Selects(w, {"any"}) /\ Walk(w) /\ UNCHANGED <<plan, walks>>
  BY <1>5, <1>11
<1>12. CASE /\ OpenWalker(Fresh) \/ \E w \in DOMAIN plan : Open(w, Fresh)
            /\ UNCHANGED <<plan, walks>>
  BY <1>7, <1>12
<1>13. QED
  BY <1>1, <1>8, <1>9, <1>10, <1>11, <1>12, WCases

\* A walk ends without a path only if there is none.
LEMMA NoneMissed ==
  ASSUME IInv, WTypes, NetsInv, Own, FirstTurn, SearchInv, [WNext]_wvars,
         NEW v \in Visit, outcome[v] = "open"
  PROVE  /\ outcome'[v] = "passed" => RoutesTo(net[v], Target) = {}
         /\ outcome'[v] = "undefined" =>
              \/ ident[walker[v]] < ident[loader[v]] /\ loading[v]
              \/ ~loading[v] /\ loaded[v] = 0
<1>1. CASE Stand(v) \/ WalkOn(v)
  <2>1. /\ active = walker[v] /\ active # Nobody
        /\ outcome'[v] = "passed" => RoutesTo(net[v], Target) = {}
        /\ outcome'[v] = "undefined" => net[v].nodes = {}
    BY <1>1, WalkTurn
  <2>2. ASSUME net[v].nodes = {}, loading[v]
        PROVE  ident[walker[v]] < ident[loader[v]]
    <3>1. loaded[v] = 0
      BY <2>2 DEF NetsInv, WTypes
    <3>2. WalkerOn(v) /\ LoaderOn(v)
      BY <2>1, <2>2 DEF WalkerOn, LoaderOn, Own
    <3>3. /\ loader[v] \in Obj /\ walker[v] \in Obj /\ loader[v] # walker[v]
          /\ Waiting(loader[v]) /\ Waiting(walker[v])
      BY <3>2, BodiesAreObjects DEF Own
    <3>4. itr \in Taken /\ coroutines[itr] = walker[v] /\ phase = "run"
      BY <2>1 DEF IInv, IteratorOK, Own
    <3>5. ident[walker[v]] = itr
      BY <3>4 DEF IInv, NothingLost
    <3>6. itr <= ident[loader[v]]
      BY <3>1, <3>2, <3>4 DEF FirstTurn
    <3>7. /\ ident[walker[v]] \in Int /\ ident[loader[v]] \in Int
          /\ ident[walker[v]] # ident[loader[v]]
      BY <3>3, PlaceOf
    <3>8. QED
      BY <3>5, <3>6, <3>7
  <2>3. ASSUME net[v].nodes = {}
        PROVE  loaded[v] = 0
    BY <2>3 DEF NetsInv, WTypes
  <2>4. loading[v] \in BOOLEAN
    BY DEF WTypes
  <2>5. QED
    BY <2>1, <2>2, <2>3, <2>4
<1>2. CASE ~(Stand(v) \/ WalkOn(v))
  <2>1. ASSUME NEW w \in Visit, w # v, Stand(w) \/ WalkOn(w)
        PROVE  outcome'[v] = outcome[v]
    BY <2>1 DEF Stand, WalkOn, Reaches, Passes, WTypes
  <2>2. ASSUME NEW w \in Visit, Walk(w)
        PROVE  outcome'[v] \notin {"passed", "undefined"}
    BY <2>2 DEF Walk, Turn, WTypes
  <2>3. ASSUME NEW w, LoadBatch(w) \/ LoadEnds(w) \/ OpenWalker(Fresh) \/ Between \/ Open(w, Fresh)
        PROVE  outcome' = outcome
    BY <2>3 DEF LoadBatch, Load, LoadEnds, OpenWalker, Between, Open
  <2>4. UNCHANGED wvars => outcome' = outcome
    BY DEF wvars, nvars
  <2>5. outcome'[v] \notin {"passed", "undefined"}
    BY <1>2, <2>1, <2>2, <2>3, <2>4, WCases
  <2>6. QED
    BY <2>5
<1>3. QED
  BY <1>1, <1>2

\* A walk that ends without a path has met all that can be reached in what was
\* loaded by then, and the target was not there; one that stands on nothing had its
\* turn before its loader, or the loader had nothing (VirtualNetwork.h:75-91,
\* AStarWalk.h:57-78, AStarWalk.cpp:6-11).  For every plan: any networks, batches and
\* number of concurrent visits, ids of any width, ties broken either way.
THEOREM NoPathIsMissed == WSpec => WalksMissNothing
<1> DEFINE I == IInv /\ WTypes /\ NetsInv /\ Own /\ FirstTurn /\ SearchInv
           Missed == \A v \in Visit : outcome[v] = "open" =>
             /\ outcome'[v] = "passed" => RoutesTo(net[v], Target) = {}
             /\ outcome'[v] = "undefined" =>
                  \/ ident[walker[v]] < ident[loader[v]] /\ loading[v]
                  \/ ~loading[v] /\ loaded[v] = 0
<1>1. WInit => NetsInv /\ Own /\ FirstTurn /\ SearchInv
  BY NetsInit, OwnInit, SearchInit
<1>2. IInv /\ WTypes /\ (NetsInv /\ Own /\ FirstTurn /\ SearchInv) /\ [WNext]_wvars
        => (NetsInv /\ Own /\ FirstTurn /\ SearchInv)'
  BY NetsStep, OwnStep, FirstTurnStep, SearchStep
<1>3. I /\ [WNext]_wvars => [Missed]_wvars
  BY NoneMissed
<1>4. WSpec => []I
  BY <1>1, <1>2, WInvariance, PTL DEF WSpec
<1> HIDE DEF I
<1>5. WSpec => [][Missed]_wvars
  BY <1>3, <1>4, PTL DEF WSpec
<1>6. QED
  BY <1>5 DEF WalksMissNothing

-------------------------------------------------------------------------------
(* A search that takes the path of the least cost and guess first.  The length *)
(* of edges is w and the guesses are h: lengths and heights for A*, one for    *)
(* every edge and no guess for the breadth-first walk.                         *)

\* The ways from the first node that pass no node twice.
Trips(g) ==
  {r \in Tours : /\ r[1] = Lowest(g.nodes)
                 /\ \A i \in 1..(Len(r) - 1) : r[i + 1] \in Linked(g, r[i], 0)}

\* What the edges of r add up to.
Sums(w, r, s) ==
  /\ s \in [0..(Len(r) - 1) -> Int] /\ s[0] = 0
  /\ \A i \in 1..(Len(r) - 1) : s[i] = s[i - 1] + w[<<r[i], r[i + 1]>>]

\* No edge is shorter than the guesses at its ends differ.
Fits(g, w, h) ==
  \A a \in Node :
    /\ h[a] \in Int
    /\ \A b \in Linked(g, a, 0) \ {a} : w[<<a, b>>] \in Int /\ h[a] <= w[<<a, b>>] + h[b]

\* No way to x is shorter than d.
AtLeast(g, w, x, d) ==
  d \in Int /\ \A r \in Trips(g) : \A s : Sums(w, r, s) =>
                 \A j \in 1..Len(r) : r[j] = x => d <= s[j - 1]

\* Shortest ways to the visited nodes V go on in the queue, of which K has the ends and costs.
Frontier(g, w, V, K) ==
  /\ \A q \in K : q.c \in Int
  /\ \A x \in V : \E d : /\ AtLeast(g, w, x, d)
                         /\ \A y \in Linked(g, x, 0) \ V : \E q \in K : q.end = y /\ q.c <= d + w[<<x, y>>]
  /\ Lowest(g.nodes) \notin V => \E q \in K : q.end = Lowest(g.nodes) /\ q.c <= 0

LEMMA TripFacts ==
  ASSUME NEW g, NEW r, r \in Trips(g)
  PROVE  /\ Len(r) \in Nat \ {0} /\ r \in [1..Len(r) -> Node] /\ r \in Tours
         /\ r[1] = Lowest(g.nodes) /\ Last(r) = r[Len(r)]
         /\ \A i \in 1..(Len(r) - 1) : r[i + 1] \in Linked(g, r[i], 0) \ {r[i]}
<1>1. Cardinality(Node) \in Nat
  BY NodeAssumption, FS_CardinalityType
<1>2. PICK n \in 1..Cardinality(Node) : r \in [1..n -> Node]
  BY DEF Trips, Tours
<1>3. n \in Nat \ {0} /\ Len(r) = n /\ DOMAIN r = 1..n
  BY <1>1, <1>2
<1>4. \A i \in 1..(n - 1) : r[i + 1] # r[i]
  BY <1>3 DEF Trips, Tours, IsInjective
<1>5. QED
  BY <1>2, <1>3, <1>4 DEF Trips, Last

\* Along a way, what is behind and the guess of what is ahead never get less.
LEMMA Rising ==
  ASSUME NEW g, NEW w, NEW h, Fits(g, w, h), NEW r, r \in Trips(g), NEW s, Sums(w, r, s),
         NEW i \in 1..Len(r), NEW j \in i..Len(r)
  PROVE  s[i - 1] + h[r[i]] <= s[j - 1] + h[r[j]]
<1> DEFINE n == Len(r)
           e(m) == s[i + m - 1] + h[r[i + m]]
           T == {m \in 0..(j - i) : e(0) <= e(m)}
<1>1. /\ n \in Nat \ {0} /\ r \in [1..n -> Node]
      /\ \A k \in 1..(n - 1) : r[k + 1] \in Linked(g, r[k], 0) \ {r[k]}
  BY TripFacts
<1>2. s \in [0..(n - 1) -> Int] /\ \A k \in 1..(n - 1) : s[k] = s[k - 1] + w[<<r[k], r[k + 1]>>]
  BY DEF Sums
<1> HIDE DEF n
<1>3. i \in 1..n /\ j \in i..n
  BY DEF n
<1>4. \A m \in 0..(j - i) : e(m) \in Int
  <2> TAKE m \in 0..(j - i)
  <2>1. i + m - 1 \in 0..(n - 1) /\ i + m \in 1..n
    BY <1>1, <1>3
  <2>2. QED
    BY <1>1, <1>2, <2>1 DEF Fits
<1>5. ASSUME NEW m \in 0..((j - i) - 1)
      PROVE  e(m) <= e(m + 1)
  <2> DEFINE k == i + m
  <2>1. k \in 1..(n - 1) /\ i + (m + 1) - 1 = k /\ i + (m + 1) = k + 1 /\ k - 1 \in 0..(n - 1)
        /\ k \in 0..(n - 1) /\ k \in 1..n /\ k + 1 \in 1..n
    BY <1>1, <1>3
  <2> HIDE DEF k
  <2>2. /\ r[k] \in Node /\ r[k + 1] \in Node /\ s[k - 1] \in Int
        /\ r[k + 1] \in Linked(g, r[k], 0) \ {r[k]} /\ s[k] = s[k - 1] + w[<<r[k], r[k + 1]>>]
    BY <1>1, <1>2, <2>1
  <2>3. /\ h[r[k]] \in Int /\ h[r[k + 1]] \in Int /\ w[<<r[k], r[k + 1]>>] \in Int
        /\ h[r[k]] <= w[<<r[k], r[k + 1]>>] + h[r[k + 1]]
    BY <2>2 DEF Fits
  <2>4. s[k - 1] + h[r[k]] <= s[k] + h[r[k + 1]]
    BY <2>2, <2>3
  <2>5. QED
    BY <2>1, <2>4 DEF k
<1>6. j - i \in Nat /\ 0 \in 0..(j - i) /\ j - i \in 0..(j - i) /\ i + (j - i) - 1 = j - 1 /\ i + (j - i) = j
      /\ i + 0 - 1 = i - 1 /\ i + 0 = i
  BY <1>1, <1>3
<1>7. 0 \in T
  <2>1. e(0) \in Int
    BY <1>4, <1>6
  <2> HIDE DEF e
  <2>2. QED
    BY <1>6, <2>1
<1>8. ASSUME NEW m \in 0..((j - i) - 1), m \in T
      PROVE  m + 1 \in T
  <2>1. m \in 0..(j - i) /\ m + 1 \in 0..(j - i)
    BY <1>6
  <2>2. e(0) \in Int /\ e(m) \in Int /\ e(m + 1) \in Int /\ e(0) <= e(m) /\ e(m) <= e(m + 1)
    BY <1>4, <1>5, <1>6, <1>8, <2>1
  <2> HIDE DEF e
  <2>3. e(0) <= e(m + 1)
    BY <2>2
  <2>4. QED
    BY <2>1, <2>3
<1>9. 0..(j - i) \subseteq T
  <2> HIDE DEF T
  <2>1. QED
    BY <1>6, <1>7, <1>8, UpTo
<1>10. j - i \in T
  <2> HIDE DEF T
  <2>1. QED
    BY <1>6, <1>9
<1>11. e(0) <= e(j - i)
  BY <1>10
<1>12. QED
  BY <1>6, <1>11

LEMMA NotMore ==
  ASSUME NEW a \in Int, NEW b \in Int, NEW c \in Int, NEW d \in Int, NEW e \in Int, NEW f \in Int,
         a <= b, b + e <= c + f, d + f <= a + e
  PROVE  d <= c
OBVIOUS

\* What is taken from the queue for a node that was not visited is a shortest way to it.
LEMMA TakenIsShortest ==
  ASSUME NEW g, NEW w, NEW h, Fits(g, w, h), NEW V, NEW K, Frontier(g, w, V, K), NEW o \in K,
         o.end \in Node \ V, \A q \in K : o.c + h[o.end] <= q.c + h[q.end]
  PROVE  AtLeast(g, w, o.end, o.c)
<1>1. \A q \in K : q.c \in Int
  BY DEF Frontier
<1> SUFFICES ASSUME NEW r, r \in Trips(g), NEW s, Sums(w, r, s), NEW j \in 1..Len(r), r[j] = o.end
             PROVE  o.c <= s[j - 1]
  BY <1>1, Zenon DEF AtLeast
<1> DEFINE n == Len(r)
           T == {k \in 1..n : r[k] \notin V}
<1>2. /\ n \in Nat \ {0} /\ r \in [1..n -> Node] /\ r[1] = Lowest(g.nodes)
      /\ \A k \in 1..(n - 1) : r[k + 1] \in Linked(g, r[k], 0) \ {r[k]}
  BY TripFacts
<1>3. /\ s \in [0..(n - 1) -> Int] /\ s[0] = 0
      /\ \A k \in 1..(n - 1) : s[k] = s[k - 1] + w[<<r[k], r[k + 1]>>]
  BY DEF Sums
<1>4. j \in T /\ T \in SUBSET Nat
  OBVIOUS
<1> HIDE DEF n
<1>5. PICK i \in T : \A k \in T : i <= k
  BY <1>4, Least
<1>6. i \in 1..n /\ j \in i..n /\ r[i] \notin V /\ j \in 1..n
  BY <1>2, <1>4, <1>5
<1>7. \E q \in K : q.end = r[i] /\ q.c <= s[i - 1]
  <2>1. CASE i = 1
    <3>1. PICK q \in K : q.end = Lowest(g.nodes) /\ q.c <= 0
      BY <1>2, <1>6, <2>1 DEF Frontier
    <3>2. QED
      BY <1>2, <1>3, <2>1, <3>1
  <2>2. CASE i # 1
    <3> DEFINE k == i - 1
    <3>1. k \in 1..(n - 1) /\ k \in 1..n /\ k + 1 = i /\ k \notin T /\ k - 1 \in 0..(n - 1)
      BY <1>2, <1>5, <1>6, <2>2
    <3> HIDE DEF k
    <3>2. r[k] \in V /\ r[k] \in Node
      BY <1>2, <3>1
    <3>3. PICK d : /\ AtLeast(g, w, r[k], d)
                   /\ \A y \in Linked(g, r[k], 0) \ V : \E q \in K : q.end = y /\ q.c <= d + w[<<r[k], y>>]
      BY <3>2 DEF Frontier
    <3>4. r[i] \in Linked(g, r[k], 0) \ {r[k]} /\ s[k] = s[k - 1] + w[<<r[k], r[i]>>]
      BY <1>2, <1>3, <3>1
    <3>5. PICK q \in K : q.end = r[i] /\ q.c <= d + w[<<r[k], r[i]>>]
      BY <1>6, <3>3, <3>4
    <3>6. d \in Int /\ d <= s[k - 1]
      BY <3>1, <3>3 DEF AtLeast, n
    <3>7. w[<<r[k], r[i]>>] \in Int /\ s[k - 1] \in Int /\ q.c \in Int
      BY <1>1, <1>3, <3>1, <3>2, <3>4 DEF Fits
    <3>8. q.c <= s[k]
      BY <3>4, <3>5, <3>6, <3>7
    <3>9. QED
      BY <3>5, <3>8 DEF k
  <2>3. QED
    BY <2>1, <2>2
<1>8. PICK q \in K : q.end = r[i] /\ q.c <= s[i - 1]
  BY <1>7
<1>9. s[i - 1] + h[r[i]] <= s[j - 1] + h[r[j]]
  BY <1>6, Rising DEF n
<1>10. o.c + h[r[j]] <= q.c + h[r[i]]
  BY <1>8
<1>11. i - 1 \in 0..(n - 1) /\ j - 1 \in 0..(n - 1)
  BY <1>2, <1>6
<1>12. /\ s[i - 1] \in Int /\ s[j - 1] \in Int /\ q.c \in Int /\ o.c \in Int
       /\ h[r[i]] \in Int /\ h[r[j]] \in Int
  BY <1>1, <1>2, <1>3, <1>6, <1>11 DEF Fits
<1> DEFINE a == q.c
           b == s[i - 1]
           c == s[j - 1]
           d == o.c
           e == h[r[i]]
           f == h[r[j]]
<1>13. a <= b /\ b + e <= c + f /\ d + f <= a + e
  BY <1>8, <1>9, <1>10
<1>14. a \in Int /\ b \in Int /\ c \in Int /\ d \in Int /\ e \in Int /\ f \in Int
  BY <1>12
<1>15. d <= c
  <2> HIDE DEF a, b, c, d, e, f
  <2>1. QED
    BY <1>13, <1>14, NotMore
<1>16. QED
  BY <1>15

\* The queue after a path was taken: all others, and one more for each new neighbour.
LEMMA FrontierGoesOn ==
  ASSUME NEW g, NEW w, NEW V, NEW K, Frontier(g, w, V, K), NEW o \in K, NEW x, o.end = x,
         x \notin V => AtLeast(g, w, x, o.c), NEW L, \A q \in L : q.c \in Int,
         \A q \in K : q.end # x => q \in L,
         \A y \in Linked(g, x, 0) \ (V \cup {x}) : \E q \in L : q.end = y /\ q.c <= o.c + w[<<x, y>>]
  PROVE  Frontier(g, w, V \cup {x}, L)
<1> DEFINE W == V \cup {x}
<1>1. ASSUME NEW z \in W
      PROVE  \E d : /\ AtLeast(g, w, z, d)
                    /\ \A y \in Linked(g, z, 0) \ W : \E q \in L : q.end = y /\ q.c <= d + w[<<z, y>>]
  <2>1. CASE z \in V
    <3>1. PICK d : /\ AtLeast(g, w, z, d)
                   /\ \A y \in Linked(g, z, 0) \ V : \E q \in K : q.end = y /\ q.c <= d + w[<<z, y>>]
      BY <2>1 DEF Frontier
    <3>2. ASSUME NEW y \in Linked(g, z, 0) \ W
          PROVE  \E q \in L : q.end = y /\ q.c <= d + w[<<z, y>>]
      <4>1. PICK q \in K : q.end = y /\ q.c <= d + w[<<z, y>>]
        BY <3>1
      <4>2. QED
        BY <4>1
    <3>3. QED
      BY <3>1, <3>2
  <2>2. CASE z \notin V
    <3>1. z = x
      BY <2>2
    <3>2. QED
      BY <2>2, <3>1
  <2>3. QED
    BY <2>1, <2>2
<1>2. ASSUME Lowest(g.nodes) \notin W
      PROVE  \E q \in L : q.end = Lowest(g.nodes) /\ q.c <= 0
  <2>1. PICK q \in K : q.end = Lowest(g.nodes) /\ q.c <= 0
    BY <1>2 DEF Frontier
  <2>2. QED
    BY <1>2, <2>1
<1>3. QED
  BY <1>1, <1>2 DEF Frontier

\* A path in the queue: a way from the first node that is visited up to its end.
WayOver(g, V, p) ==
  /\ p \in Paths /\ p[1] = Lowest(g.nodes) /\ IsInjective(p)
  /\ \A i \in 1..(Len(p) - 1) : p[i] \in V /\ p[i + 1] \in Linked(g, p[i], 0)

\* The edges of p add up to c.
Summed(w, p, c) == \E s : Sums(w, p, s) /\ c = s[Len(p) - 1]

LEMMA PathFacts ==
  ASSUME NEW p, p \in Paths
  PROVE  /\ Len(p) \in Nat \ {0} /\ p \in [1..Len(p) -> Node] /\ DOMAIN p = 1..Len(p)
         /\ Last(p) = p[Len(p)] /\ Last(p) \in Node
         /\ \A n \in Node : /\ Append(p, n) \in Paths /\ Len(Append(p, n)) = Len(p) + 1
                            /\ Append(p, n)[Len(p) + 1] = n /\ Last(Append(p, n)) = n
                            /\ \A i \in 1..Len(p) : Append(p, n)[i] = p[i]
<1>1. p \in Seq(Node) /\ p # <<>>
  BY DEF Paths
<1>2. Len(p) \in Nat \ {0} /\ p \in [1..Len(p) -> Node] /\ DOMAIN p = 1..Len(p)
  BY <1>1
<1>3. Last(p) = p[Len(p)] /\ Last(p) \in Node
  BY <1>2 DEF Last
<1>4. ASSUME NEW n \in Node
      PROVE  /\ Append(p, n) \in Paths /\ Len(Append(p, n)) = Len(p) + 1
             /\ Append(p, n)[Len(p) + 1] = n /\ Last(Append(p, n)) = n
             /\ \A i \in 1..Len(p) : Append(p, n)[i] = p[i]
  <2>1. Append(p, n) \in Seq(Node) /\ Len(Append(p, n)) = Len(p) + 1 /\ Append(p, n)[Len(p) + 1] = n
        /\ \A i \in 1..Len(p) : Append(p, n)[i] = p[i]
    BY <1>1, <1>2
  <2>2. Append(p, n) \in Paths /\ Last(Append(p, n)) = n
    BY <1>2, <2>1 DEF Paths, Last
  <2>3. QED
    BY <2>1, <2>2
<1>5. QED
  BY <1>2, <1>3, <1>4

LEMMA WayIsTrip ==
  ASSUME NEW g, NEW V, NEW p, WayOver(g, V, p)
  PROVE  p \in Trips(g)
<1> DEFINE n == Len(p)
<1>1. n \in Nat \ {0} /\ p \in [1..n -> Node] /\ DOMAIN p = 1..n
  BY PathFacts DEF WayOver
<1>2. n <= Cardinality(Node)
  <2>1. p \in Injection(1..n, Node)
    BY <1>1 DEF Injection, WayOver, IsInjective
  <2>2. Cardinality(1..n) <= Cardinality(Node)
    BY <2>1, NodeAssumption, FS_Injection
  <2>3. Cardinality(1..n) = n
    BY <1>1, FS_Interval
  <2>4. QED
    BY <2>2, <2>3
<1>3. Cardinality(Node) \in Nat
  BY NodeAssumption, FS_CardinalityType
<1>4. p \in Tours
  <2>1. n \in 1..Cardinality(Node)
    BY <1>1, <1>2, <1>3
  <2>2. QED
    BY <1>1, <2>1 DEF Tours, WayOver
<1>5. QED
  BY <1>4 DEF Trips, WayOver

LEMMA WayGoesOn ==
  ASSUME NEW g, NEW V, NEW p, WayOver(g, V, p), NEW n \in Node, n \in Linked(g, Last(p), 0),
         n \notin V \cup {Last(p)}
  PROVE  WayOver(g, V \cup {Last(p)}, Append(p, n))
<1> DEFINE k == Len(p)
           q == Append(p, n)
           W == V \cup {Last(p)}
<1>1. k \in Nat \ {0} /\ DOMAIN p = 1..k /\ Last(p) = p[k]
  BY PathFacts DEF WayOver
<1>2. /\ q \in Paths /\ Len(q) = k + 1 /\ q[k + 1] = n /\ \A i \in 1..k : q[i] = p[i]
  BY PathFacts DEF WayOver
<1>3. DOMAIN q = 1..(k + 1)
  BY <1>2, PathFacts
<1> HIDE DEF q, k
<1>4. \A i \in 1..k : p[i] \in W
  <2> TAKE i \in 1..k
  <2>1. CASE i = k
    BY <1>1, <2>1
  <2>2. CASE i # k
    <3>1. i \in 1..(k - 1)
      BY <1>1, <2>2
    <3>2. QED
      BY <3>1 DEF WayOver, k
  <2>3. QED
    BY <2>1, <2>2
<1>5. IsInjective(q)
  <2> SUFFICES ASSUME NEW i \in 1..(k + 1), NEW j \in 1..(k + 1), q[i] = q[j]
               PROVE  i = j
    BY <1>3 DEF IsInjective
  <2>1. CASE i \in 1..k /\ j \in 1..k
    BY <1>1, <1>2, <2>1 DEF WayOver, IsInjective
  <2>2. CASE i = k + 1 /\ j = k + 1
    BY <2>2
  <2>3. CASE i = k + 1 /\ j \in 1..k
    BY <1>2, <1>4, <2>3
  <2>4. CASE i \in 1..k /\ j = k + 1
    BY <1>2, <1>4, <2>4
  <2>5. QED
    BY <1>1, <2>1, <2>2, <2>3, <2>4
<1>6. \A i \in 1..k : q[i] \in W /\ q[i + 1] \in Linked(g, q[i], 0)
  <2> TAKE i \in 1..k
  <2>1. q[i] \in W
    BY <1>2, <1>4
  <2>2. CASE i = k
    BY <1>1, <1>2, <2>1, <2>2
  <2>3. CASE i # k
    <3>1. i \in 1..(k - 1) /\ i + 1 \in 1..k
      BY <1>1, <2>3
    <3>2. p[i + 1] \in Linked(g, p[i], 0)
      BY <3>1 DEF WayOver, k
    <3>3. QED
      BY <1>2, <2>1, <3>1, <3>2
  <2>4. QED
    BY <2>2, <2>3
<1>7. q[1] = Lowest(g.nodes)
  BY <1>1, <1>2 DEF WayOver
<1>8. WayOver(g, W, q)
  BY <1>1, <1>2, <1>5, <1>6, <1>7 DEF WayOver
<1>9. QED
  BY <1>8 DEF q

LEMMA SumGoesOn ==
  ASSUME NEW w, NEW p, p \in Paths, NEW c, Summed(w, p, c), NEW n \in Node, w[<<Last(p), n>>] \in Int
  PROVE  c \in Int /\ Summed(w, Append(p, n), c + w[<<Last(p), n>>])
<1> DEFINE k == Len(p)
           q == Append(p, n)
           d == w[<<Last(p), n>>]
<1>1. k \in Nat \ {0} /\ Last(p) = p[k]
  BY PathFacts
<1>2. Len(q) = k + 1 /\ q[k + 1] = n /\ \A i \in 1..k : q[i] = p[i]
  BY PathFacts
<1>3. PICK s : Sums(w, p, s) /\ c = s[k - 1]
  BY DEF Summed
<1>4. /\ s \in [0..(k - 1) -> Int] /\ s[0] = 0
      /\ \A i \in 1..(k - 1) : s[i] = s[i - 1] + w[<<p[i], p[i + 1]>>]
  BY <1>3 DEF Sums
<1>5. c \in Int
  BY <1>1, <1>3, <1>4
<1> HIDE DEF q, k
<1> DEFINE t == [i \in 0..k |-> IF i = k THEN c + d ELSE s[i]]
<1>6. d \in Int /\ d = w[<<q[k], q[k + 1]>>]
  BY <1>1, <1>2
<1> HIDE DEF d
<1>7. /\ t \in [0..k -> Int] /\ t[k] = c + d /\ \A i \in 0..(k - 1) : t[i] = s[i]
  BY <1>1, <1>4, <1>5, <1>6
<1> HIDE DEF t
<1>8. \A i \in 1..k : t[i] = t[i - 1] + w[<<q[i], q[i + 1]>>]
  <2> TAKE i \in 1..k
  <2>1. CASE i = k
    <3>1. k - 1 \in 0..(k - 1)
      BY <1>1
    <3>2. QED
      BY <1>3, <1>6, <1>7, <2>1, <3>1
  <2>2. CASE i # k
    <3>1. i \in 1..(k - 1) /\ i \in 0..(k - 1) /\ i - 1 \in 0..(k - 1) /\ i + 1 \in 1..k
      BY <1>1, <2>2
    <3>2. QED
      BY <1>2, <1>4, <1>7, <3>1
  <2>3. QED
    BY <2>1, <2>2
<1>9. Sums(w, q, t)
  BY <1>1, <1>2, <1>4, <1>7, <1>8 DEF Sums
<1>10. Summed(w, q, c + d)
  BY <1>1, <1>2, <1>7, <1>9 DEF Summed
<1>11. QED
  BY <1>5, <1>10 DEF q, d

LEMMA SumIsUnique ==
  ASSUME NEW w, NEW r, Len(r) \in Nat \ {0}, NEW s, NEW t, Sums(w, r, s), Sums(w, r, t)
  PROVE  s[Len(r) - 1] = t[Len(r) - 1]
<1> DEFINE n == Len(r) - 1
           T == {m \in 0..n : s[m] = t[m]}
<1>1. /\ n \in Nat /\ s[0] = 0 /\ t[0] = 0
      /\ \A i \in 1..n : s[i] = s[i - 1] + w[<<r[i], r[i + 1]>>]
      /\ \A i \in 1..n : t[i] = t[i - 1] + w[<<r[i], r[i + 1]>>]
  BY DEF Sums
<1> HIDE DEF n
<1>2. 0 \in T
  BY <1>1
<1>3. ASSUME NEW m \in 0..(n - 1), m \in T
      PROVE  m + 1 \in T
  <2>1. m + 1 \in 1..n /\ (m + 1) - 1 = m /\ m + 1 \in 0..n
    BY <1>1
  <2>2. s[m + 1] = t[m + 1]
    BY <1>1, <1>3, <2>1
  <2>3. QED
    BY <2>1, <2>2
<1>4. 0..n \subseteq T
  <2> HIDE DEF T
  <2>1. QED
    BY <1>1, <1>2, <1>3, UpTo
<1>5. n \in T
  <2> HIDE DEF T
  <2>1. QED
    BY <1>1, <1>4
<1>6. QED
  BY <1>5 DEF n

\* The cost of a way is what its edges add up to.
LengthsOf(g) == [e \in Node \X Node |-> Length(g, e[1], e[2])]

LEMMA CostIsSum ==
  ASSUME NEW g, NEW h, Fits(g, LengthsOf(g), h), NEW r, r \in Trips(g)
  PROVE  Summed(LengthsOf(g), r, Cost(g, r))
<1> DEFINE N == Len(r) - 1
           w == LengthsOf(g)
           P(u) == u = [k \in 0..N |-> IF k = 0 THEN 0 ELSE u[k - 1] + Length(g, r[k], r[k + 1])]
           f == [x \in (1..N) \X Int |-> x[2] + Length(g, r[x[1]], r[x[1] + 1])]
           u == CHOOSE z : P(z)
<1>1. N \in Nat /\ \A k \in 1..N : /\ Length(g, r[k], r[k + 1]) \in Int
                                   /\ Length(g, r[k], r[k + 1]) = w[<<r[k], r[k + 1]>>]
  <2>1. /\ Len(r) \in Nat \ {0} /\ r \in [1..Len(r) -> Node]
        /\ \A i \in 1..(Len(r) - 1) : r[i + 1] \in Linked(g, r[i], 0) \ {r[i]}
    BY TripFacts
  <2>2. N \in Nat
    BY <2>1
  <2> SUFFICES ASSUME NEW k \in 1..N
               PROVE  /\ Length(g, r[k], r[k + 1]) \in Int
                      /\ Length(g, r[k], r[k + 1]) = w[<<r[k], r[k + 1]>>]
    BY <2>2
  <2>3. r[k] \in Node /\ r[k + 1] \in Node
    BY <2>1
  <2>4. w[<<r[k], r[k + 1]>>] \in Int
    BY <2>1, <2>3 DEF Fits
  <2>5. w[<<r[k], r[k + 1]>>] = Length(g, r[k], r[k + 1])
    BY <2>3 DEF LengthsOf
  <2>6. QED
    BY <2>4, <2>5
<1> HIDE DEF w
<1>2. \E z : P(z)
  <2>1. ASSUME NEW x \in (1..N) \X Int
        PROVE  x[2] + Length(g, r[x[1]], r[x[1] + 1]) \in Int
    <3> DEFINE d == Length(g, r[x[1]], r[x[1] + 1])
    <3>1. x[1] \in 1..N /\ x[2] \in Int
      OBVIOUS
    <3>2. d \in Int
      BY <1>1, <3>1
    <3> HIDE DEF d
    <3>3. x[2] + d \in Int
      BY <3>1, <3>2
    <3>4. QED
      BY <3>3 DEF d
  <2>2. f \in Steps(Int, N)
    BY <2>1 DEF Steps
  <2>3. \A k \in 1..N : \A y \in Int : f[<<k, y>>] = y + Length(g, r[k], r[k + 1])
    OBVIOUS
  <2> HIDE DEF f, N
  <2>4. PICK z : IsRun(z, Int, 0, N, f)
    BY <1>1, <2>2, Recursion
  <2>5. \A k \in 1..N : z[k] = z[k - 1] + Length(g, r[k], r[k + 1])
    <3> TAKE k \in 1..N
    <3>1. k - 1 \in 0..N
      BY <1>1
    <3>2. z[k - 1] \in Int /\ z[k] = f[<<k, z[k - 1]>>]
      BY <2>4, <3>1 DEF IsRun
    <3>3. QED
      BY <2>3, <3>2
  <2>6. z = [k \in 0..N |-> z[k]] /\ z[0] = 0
    BY <2>4 DEF IsRun
  <2>7. \A k \in 0..N : k = 0 \/ k \in 1..N
    BY <1>1
  <2>8. \A k \in 0..N : z[k] = IF k = 0 THEN 0 ELSE z[k - 1] + Length(g, r[k], r[k + 1])
    BY <2>5, <2>6, <2>7
  <2>9. P(z)
    BY <2>6, <2>8
  <2>10. QED
    BY <2>9
<1>3. Cost(g, r) = u[N]
  BY DEF Cost
<1>4. P(u)
  <2> HIDE DEF P
  <2>1. QED
    BY <1>2
<1> HIDE DEF u, N
<1>5. DOMAIN u = 0..N /\ u[0] = 0 /\ \A k \in 1..N : u[k] = u[k - 1] + Length(g, r[k], r[k + 1])
  <2>1. 0 \in 0..N /\ \A k \in 1..N : k \in 0..N /\ k # 0
    BY <1>1
  <2>2. \A k \in 0..N : u[k] = IF k = 0 THEN 0 ELSE u[k - 1] + Length(g, r[k], r[k + 1])
    BY <1>4, Zenon
  <2>3. DOMAIN u = 0..N /\ u = [k \in 0..N |-> u[k]]
    BY <1>4, <2>2
  <2> HIDE DEF P
  <2>4. QED
    BY <2>1, <2>2, <2>3, Zenon
<1>6. u = [k \in 0..N |-> u[k]]
  BY <1>4
<1> HIDE DEF P
<1> DEFINE T == {k \in 0..N : u[k] \in Int}
<1>7. 0 \in T
  BY <1>1, <1>5
<1>8. ASSUME NEW m \in 0..(N - 1), m \in T
      PROVE  m + 1 \in T
  <2>1. m + 1 \in 1..N /\ m + 1 \in 0..N /\ (m + 1) - 1 = m
    BY <1>1
  <2> DEFINE d == Length(g, r[m + 1], r[(m + 1) + 1])
  <2>2. d \in Int
    BY <1>1, <2>1
  <2>3. u[m + 1] = u[(m + 1) - 1] + d
    BY <1>5, <2>1
  <2> HIDE DEF d
  <2>4. u[m + 1] \in Int
    BY <1>8, <2>1, <2>2, <2>3
  <2>5. QED
    BY <2>1, <2>4
<1>9. 0..N \subseteq T
  <2> HIDE DEF T
  <2>1. QED
    BY <1>1, <1>7, <1>8, UpTo
<1>10. u \in [0..N -> Int]
  BY <1>6, <1>9
<1>11. Sums(w, r, u)
  BY <1>1, <1>5, <1>10 DEF Sums, N
<1>12. QED
  BY <1>3, <1>11 DEF Summed, N, w

-------------------------------------------------------------------------------
(* The queue of A*, and that of the breadth-first walk.                        *)

Ones == [e \in Node \X Node |-> 1]
Zeros == [n \in Node |-> 0]
Heights == [n \in Node |-> Height(n)]

\* Ends and costs of the paths in a queue: their lengths, or their numbers of edges.
ByLength(Q) == {[end |-> Last(p.ids), c |-> p.g] : p \in Q}
ByEdges(Q) == {[end |-> Last(p.ids), c |-> Len(p.ids) - 1] : p \in Q}

Ways(g, V, Q) == \A p \in Q : WayOver(g, V, p.ids)

\* The first path has no rank but is alone.
AStarQueue(g, V, Q) ==
  /\ Frontier(g, LengthsOf(g), V, ByLength(Q))
  /\ \A p \in Q : /\ Summed(LengthsOf(g), p.ids, p.g)
                  /\ p.f = p.g + Heights[Last(p.ids)] \/ Q = {p}

\* Ranks grow by numbers up to k that grow themselves: first in, first out.
BreadthQueue(g, V, Q, k) ==
  /\ Frontier(g, Ones, V, ByEdges(Q))
  /\ \E low \in Int : \A p \in Q : p.g = p.f /\ p.f \in Int /\ low <= p.f /\ p.f <= low + k
  /\ \A p, q \in Q : /\ p.f <= q.f => Len(p.ids) <= Len(q.ids)
                     /\ Len(p.ids) <= Len(q.ids) + 1

\* The queue R after o was taken from Q: more has a path for each new neighbour.
New(g, V, x) == Linked(g, x, 0) \ (V \cup {x})
Takes(g, V, Q, o, R, more) ==
  /\ o \in Q /\ New(g, V, Last(o.ids)) \subseteq Node
  /\ \A n \in New(g, V, Last(o.ids)) : more[n].ids = Append(o.ids, n)
  /\ R = (Q \ {o}) \cup {more[n] : n \in New(g, V, Last(o.ids))}

LEMMA WaysGoOn ==
  ASSUME NEW g, NEW V, NEW Q, NEW o, NEW R, NEW more, Ways(g, V, Q), Takes(g, V, Q, o, R, more)
  PROVE  Ways(g, V \cup {Last(o.ids)}, R)
<1> DEFINE x == Last(o.ids)
           W == V \cup {x}
<1> SUFFICES ASSUME NEW p \in R PROVE WayOver(g, W, p.ids)
  BY DEF Ways
<1>1. WayOver(g, V, o.ids)
  BY DEF Ways, Takes
<1>2. CASE p \in Q
  <2>1. WayOver(g, V, p.ids)
    BY <1>2 DEF Ways
  <2>2. QED
    BY <2>1 DEF WayOver
<1>3. ASSUME NEW n \in New(g, V, x), p = more[n]
      PROVE  WayOver(g, W, p.ids)
  <2>1. p.ids = Append(o.ids, n) /\ n \in Node /\ n \in Linked(g, x, 0) /\ n \notin W
    BY <1>3 DEF Takes, New
  <2>2. WayOver(g, W, Append(o.ids, n))
    BY <1>1, <2>1, WayGoesOn
  <2>3. QED
    BY <2>1, <2>2
<1>4. QED
  BY <1>2, <1>3 DEF Takes

\* What the ends of the new queue are, for either cost c of a path.
LEMMA EndsGoOn ==
  ASSUME NEW g, NEW V, NEW Q, NEW o, NEW R, NEW more, Ways(g, V, Q), Takes(g, V, Q, o, R, more),
         NEW n \in New(g, V, Last(o.ids))
  PROVE  /\ more[n] \in R /\ Last(more[n].ids) = n /\ Len(more[n].ids) = Len(o.ids) + 1
         /\ Len(o.ids) \in Nat \ {0} /\ n \in Node /\ Last(o.ids) \in Node /\ o.ids \in Paths
         /\ n \in Linked(g, Last(o.ids), 0) \ {Last(o.ids)}
<1>1. o.ids \in Paths
  BY DEF Ways, Takes, WayOver
<1>2. more[n] \in R /\ more[n].ids = Append(o.ids, n) /\ n \in Node
  BY DEF Takes
<1>3. n \in Linked(g, Last(o.ids), 0) \ {Last(o.ids)}
  BY DEF New
<1>4. QED
  BY <1>1, <1>2, <1>3, PathFacts

LEMMA AStarTakes ==
  ASSUME NEW g, NEW V, NEW Q, NEW o, Ways(g, V, Q), AStarQueue(g, V, Q), IsTop(o, Q),
         Fits(g, LengthsOf(g), Heights), Last(o.ids) \notin V
  PROVE  AtLeast(g, LengthsOf(g), Last(o.ids), o.g)
<1> DEFINE K == ByLength(Q)
           k == [end |-> Last(o.ids), c |-> o.g]
<1>1. o \in Q /\ \A p \in Q : o.f <= p.f
  BY DEF IsTop
<1>2. k \in K /\ k.end = Last(o.ids) /\ k.c = o.g
  BY <1>1 DEF ByLength
<1>3. \A p \in Q : Last(p.ids) \in Node
  BY PathFacts DEF Ways, WayOver
<1>4. \A p \in Q : o.g + Heights[Last(o.ids)] <= p.g + Heights[Last(p.ids)]
  <2> TAKE p \in Q
  <2>1. CASE p = o
    <3>1. o.g \in Int /\ Heights[Last(o.ids)] \in Int
      BY <1>1, <1>2, <1>3 DEF Fits, AStarQueue, Frontier
    <3>2. QED
      BY <2>1, <3>1
  <2>2. CASE p # o
    <3>1. o.f = o.g + Heights[Last(o.ids)] /\ p.f = p.g + Heights[Last(p.ids)]
      BY <1>1, <2>2 DEF AStarQueue
    <3>2. QED
      BY <1>1, <3>1
  <2>3. QED
    BY <2>1, <2>2
<1>5. \A q \in K : k.c + Heights[k.end] <= q.c + Heights[q.end]
  BY <1>2, <1>4 DEF ByLength
<1>6. Frontier(g, LengthsOf(g), V, K) /\ k.end \in Node \ V
  BY <1>1, <1>2, <1>3 DEF AStarQueue
<1> HIDE DEF K, k
<1>7. AtLeast(g, LengthsOf(g), k.end, k.c)
  BY <1>2, <1>5, <1>6, TakenIsShortest
<1>8. QED
  BY <1>2, <1>7

LEMMA AStarGoesOn ==
  ASSUME NEW g, NEW V, NEW Q, NEW o, NEW R, NEW more, Ways(g, V, Q), AStarQueue(g, V, Q), IsTop(o, Q),
         Fits(g, LengthsOf(g), Heights), Takes(g, V, Q, o, R, more),
         \A n \in New(g, V, Last(o.ids)) : /\ more[n].g = o.g + Length(g, Last(o.ids), n)
                                           /\ more[n].f = more[n].g + Height(n)
  PROVE  AStarQueue(g, V \cup {Last(o.ids)}, R)
<1> DEFINE x == Last(o.ids)
           w == LengthsOf(g)
           K == ByLength(Q)
           L == ByLength(R)
           k == [end |-> x, c |-> o.g]
<1>1. o \in Q /\ \A p \in Q : Summed(w, p.ids, p.g) /\ (p.f = p.g + Heights[Last(p.ids)] \/ Q = {p})
  BY DEF AStarQueue, Takes
<1>2. Frontier(g, w, V, K) /\ k \in K /\ k.end = x /\ k.c = o.g
  BY <1>1 DEF AStarQueue, ByLength
<1>3. o.g \in Int
  BY <1>2 DEF Frontier
<1>4. ASSUME NEW n \in New(g, V, x)
      PROVE  /\ w[<<x, n>>] \in Int /\ more[n].g = o.g + w[<<x, n>>] /\ more[n].g \in Int
             /\ more[n].f = more[n].g + Heights[Last(more[n].ids)]
             /\ Summed(w, more[n].ids, more[n].g)
             /\ \E q \in L : q.end = n /\ q.c <= k.c + w[<<x, n>>]
  <2>1. /\ more[n] \in R /\ Last(more[n].ids) = n /\ n \in Node /\ x \in Node /\ o.ids \in Paths
        /\ n \in Linked(g, x, 0) \ {x}
    BY EndsGoOn
  <2>0. more[n].ids = Append(o.ids, n)
    BY DEF Takes
  <2>2. w[<<x, n>>] \in Int
    BY <2>1 DEF Fits
  <2>3. w[<<x, n>>] = Length(g, x, n) /\ Heights[n] = Height(n)
    BY <2>1 DEF LengthsOf, Heights
  <2> HIDE DEF w
  <2>4. more[n].g = o.g + w[<<x, n>>] /\ more[n].g \in Int
    BY <1>3, <2>2, <2>3
  <2>5. Summed(w, Append(o.ids, n), o.g + w[<<x, n>>])
    BY <1>1, <2>1, <2>2, SumGoesOn
  <2>6. [end |-> n, c |-> more[n].g] \in L
    BY <2>1 DEF ByLength
  <2>7. \E q \in L : q.end = n /\ q.c <= k.c + w[<<x, n>>]
    BY <1>2, <2>4, <2>6
  <2>8. QED
    BY <2>0, <2>1, <2>2, <2>3, <2>4, <2>5, <2>7
<1>5. ASSUME NEW p \in R
      PROVE  Summed(w, p.ids, p.g) /\ p.g \in Int /\ p.f = p.g + Heights[Last(p.ids)]
  <2>1. CASE p \in Q \ {o}
    <3>1. [end |-> Last(p.ids), c |-> p.g] \in K
      BY <2>1 DEF ByLength
    <3>2. p.g \in Int
      BY <1>2, <3>1 DEF Frontier
    <3>3. QED
      BY <1>1, <2>1, <3>2
  <2>2. ASSUME NEW n \in New(g, V, x), p = more[n]
        PROVE  Summed(w, p.ids, p.g) /\ p.g \in Int /\ p.f = p.g + Heights[Last(p.ids)]
    BY <1>4, <2>2
  <2>3. QED
    BY <2>1, <2>2 DEF Takes
<1>6. Frontier(g, w, V \cup {x}, L)
  <2>1. x \notin V => AtLeast(g, w, x, k.c)
    BY <1>2, AStarTakes
  <2>2. \A q \in L : q.c \in Int
    BY <1>5 DEF ByLength
  <2>3. \A q \in K : q.end # x => q \in L
    <3> SUFFICES ASSUME NEW q \in K, q.end # x
                 PROVE  q \in L
      OBVIOUS
    <3>1. PICK p \in Q : q = [end |-> Last(p.ids), c |-> p.g]
      BY DEF ByLength
    <3>2. p \in R
      BY <3>1 DEF Takes
    <3>3. QED
      BY <3>1, <3>2 DEF ByLength
  <2>4. \A y \in Linked(g, x, 0) \ (V \cup {x}) : \E q \in L : q.end = y /\ q.c <= k.c + w[<<x, y>>]
    BY <1>4 DEF New
  <2> HIDE DEF K, L, k, w
  <2>5. QED
    BY <1>2, <2>1, <2>2, <2>3, <2>4, FrontierGoesOn
<1>7. QED
  BY <1>5, <1>6 DEF AStarQueue

LEMMA AStarReaches ==
  ASSUME NEW g, NEW V, NEW Q, NEW o, Ways(g, V, Q), AStarQueue(g, V, Q), IsTop(o, Q),
         Fits(g, LengthsOf(g), Heights), Last(o.ids) = Target, Target \notin V,
         NEW r, r \in RoutesTo(g, Target)
  PROVE  Cost(g, o.ids) <= Cost(g, r)
<1> DEFINE w == LengthsOf(g)
           p == o.ids
<1>1. o \in Q
  BY DEF IsTop
<1>2. AtLeast(g, w, Target, o.g)
  BY AStarTakes
<1>3. r \in Trips(g) /\ Last(r) = Target
  BY DEF RoutesTo, Trips
<1>4. Len(r) \in Nat \ {0} /\ Last(r) = r[Len(r)]
  BY <1>3, TripFacts
<1>5. PICK s : Sums(w, r, s) /\ Cost(g, r) = s[Len(r) - 1]
  BY <1>3, CostIsSum DEF Summed
<1>6. o.g <= Cost(g, r)
  BY <1>2, <1>3, <1>4, <1>5 DEF AtLeast
<1>7. p \in Trips(g) /\ Summed(w, p, o.g)
  BY <1>1, WayIsTrip DEF Ways, AStarQueue
<1>8. Len(p) \in Nat \ {0}
  BY <1>7, TripFacts
<1>9. Summed(w, p, Cost(g, p))
  BY <1>7, CostIsSum
<1> HIDE DEF w, p
<1>10. Cost(g, p) = o.g
  BY <1>7, <1>8, <1>9, SumIsUnique DEF Summed
<1>11. QED
  BY <1>6, <1>10 DEF p

LEMMA OnesFit == ASSUME NEW g, Built(g) PROVE Fits(g, Ones, Zeros)
<1> SUFFICES ASSUME NEW a \in Node, NEW b \in Linked(g, a, 0)
             PROVE  Ones[<<a, b>>] = 1 /\ Zeros[a] = 0 /\ Zeros[b] = 0
  BY DEF Fits, Zeros
<1>1. b \in Node
  BY BuiltNets DEF Built
<1>2. QED
  BY <1>1 DEF Ones, Zeros

LEMMA BreadthTakes ==
  ASSUME NEW g, Built(g), NEW V, NEW Q, NEW o, NEW k, Ways(g, V, Q), BreadthQueue(g, V, Q, k), IsTop(o, Q),
         Last(o.ids) \notin V
  PROVE  AtLeast(g, Ones, Last(o.ids), Len(o.ids) - 1)
<1> DEFINE K == ByEdges(Q)
           e == [end |-> Last(o.ids), c |-> Len(o.ids) - 1]
<1>1. o \in Q /\ \A p \in Q : o.f <= p.f
  BY DEF IsTop
<1>2. e \in K /\ e.end = Last(o.ids) /\ e.c = Len(o.ids) - 1
  BY <1>1 DEF ByEdges
<1>3. \A p \in Q : Last(p.ids) \in Node /\ Len(p.ids) \in Nat
  BY PathFacts DEF Ways, WayOver
<1>4. \A p \in Q : Len(o.ids) - 1 + Zeros[Last(o.ids)] <= Len(p.ids) - 1 + Zeros[Last(p.ids)]
  <2> TAKE p \in Q
  <2>1. Len(o.ids) <= Len(p.ids)
    BY <1>1 DEF BreadthQueue
  <2>2. Zeros[Last(o.ids)] = 0 /\ Zeros[Last(p.ids)] = 0
    BY <1>1, <1>3 DEF Zeros
  <2>3. QED
    BY <1>1, <1>3, <2>1, <2>2
<1>5. \A q \in K : e.c + Zeros[e.end] <= q.c + Zeros[q.end]
  <2> TAKE q \in K
  <2>1. PICK p \in Q : q = [end |-> Last(p.ids), c |-> Len(p.ids) - 1]
    BY DEF ByEdges
  <2>2. q.end = Last(p.ids) /\ q.c = Len(p.ids) - 1
    BY <2>1
  <2> HIDE DEF K, e
  <2>3. QED
    BY <1>2, <1>4, <2>2
<1>6. Frontier(g, Ones, V, K) /\ e.end \in Node \ V
  BY <1>1, <1>2, <1>3 DEF BreadthQueue
<1> HIDE DEF K, e
<1>7. AtLeast(g, Ones, e.end, e.c)
  BY <1>2, <1>5, <1>6, OnesFit, TakenIsShortest
<1>8. QED
  BY <1>2, <1>7

LEMMA BreadthGoesOn ==
  ASSUME NEW g, Built(g), NEW V, NEW Q, NEW o, NEW R, NEW more, NEW k \in Nat, NEW m \in Nat, NEW rank,
         Ways(g, V, Q), BreadthQueue(g, V, Q, k), IsTop(o, Q), Takes(g, V, Q, o, R, more),
         \A n \in New(g, V, Last(o.ids)) : /\ more[n].g = o.g + (k + rank[n]) /\ more[n].f = more[n].g
                                           /\ rank[n] \in 1..m
  PROVE  BreadthQueue(g, V \cup {Last(o.ids)}, R, k + m)
<1> DEFINE x == Last(o.ids)
           K == ByEdges(Q)
           L == ByEdges(R)
           e == [end |-> x, c |-> Len(o.ids) - 1]
<1>1. o \in Q /\ \A p \in Q : o.f <= p.f
  BY DEF IsTop
<1>2. Frontier(g, Ones, V, K) /\ e \in K /\ e.end = x /\ e.c = Len(o.ids) - 1
  BY <1>1 DEF BreadthQueue, ByEdges
<1>3. /\ \A p \in Q : Len(p.ids) \in Nat \ {0}
      /\ \A p \in R : Len(p.ids) \in Nat \ {0}
  <2>1. Ways(g, V \cup {x}, R)
    BY WaysGoOn
  <2>2. QED
    BY <2>1, PathFacts DEF Ways, WayOver
<1>4. PICK low \in Int : \A p \in Q : p.g = p.f /\ p.f \in Int /\ low <= p.f /\ p.f <= low + k
  BY DEF BreadthQueue
<1>5. ASSUME NEW n \in New(g, V, x)
      PROVE  /\ more[n] \in R /\ Last(more[n].ids) = n /\ Len(more[n].ids) = Len(o.ids) + 1
             /\ n \in Node /\ x \in Node
             /\ more[n].g = more[n].f /\ more[n].f \in Int /\ o.f + k < more[n].f /\ more[n].f <= o.f + (k + m)
  <2>1. /\ more[n] \in R /\ Last(more[n].ids) = n /\ Len(more[n].ids) = Len(o.ids) + 1
        /\ n \in Node /\ x \in Node
    BY EndsGoOn
  <2>2. /\ more[n].g = more[n].f /\ more[n].f = o.f + (k + rank[n]) /\ rank[n] \in 1..m /\ o.f \in Int
    BY <1>1, <1>4
  <2>3. QED
    BY <2>1, <2>2
<1>6. \A p \in R : p \in Q \ {o} \/ \E n \in New(g, V, x) : p = more[n]
  BY DEF Takes
<1>7. \A p \in Q : p.g = p.f /\ p.f \in Int /\ o.f <= p.f /\ p.f <= o.f + k
  <2> TAKE p \in Q
  <2>1. /\ p.g = p.f /\ p.f \in Int /\ o.f <= p.f /\ p.f <= low + k /\ low <= o.f /\ o.f \in Int
    BY <1>1, <1>4
  <2>2. QED
    BY <2>1
<1>8. \A p \in R : p.g = p.f /\ p.f \in Int /\ o.f <= p.f /\ p.f <= o.f + (k + m)
  <2> TAKE p \in R
  <2>1. CASE p \in Q
    <3>1. p.g = p.f /\ p.f \in Int /\ o.f \in Int /\ o.f <= p.f /\ p.f <= o.f + k
      BY <1>1, <1>7, <2>1
    <3>2. QED
      BY <3>1
  <2>2. ASSUME NEW n \in New(g, V, x), p = more[n]
        PROVE  p.g = p.f /\ p.f \in Int /\ o.f <= p.f /\ p.f <= o.f + (k + m)
    <3>1. /\ p.g = p.f /\ p.f \in Int /\ o.f + k < p.f /\ p.f <= o.f + (k + m) /\ o.f \in Int
      BY <1>1, <1>4, <1>5, <2>2
    <3>2. QED
      BY <3>1
  <2>3. QED
    BY <1>6, <2>1, <2>2
<1>9. \A p \in Q : Len(o.ids) <= Len(p.ids) /\ Len(p.ids) <= Len(o.ids) + 1
  BY <1>1 DEF BreadthQueue
<1>10. ASSUME NEW p \in R, NEW q \in R
       PROVE  (p.f <= q.f => Len(p.ids) <= Len(q.ids)) /\ Len(p.ids) <= Len(q.ids) + 1
  <2>1. /\ Len(o.ids) \in Nat /\ Len(p.ids) \in Nat /\ Len(q.ids) \in Nat
        /\ p.f \in Int /\ q.f \in Int /\ o.f \in Int
    BY <1>1, <1>3, <1>7, <1>8
  <2>2. CASE p \in Q /\ q \in Q
    BY <2>2 DEF BreadthQueue
  <2>3. CASE p \in Q /\ \E n \in New(g, V, x) : q = more[n]
    <3>1. Len(q.ids) = Len(o.ids) + 1
      BY <1>5, <2>3
    <3>2. Len(p.ids) <= Len(o.ids) + 1
      BY <1>9, <2>3
    <3>3. QED
      BY <2>1, <3>1, <3>2
  <2>4. CASE (\E n \in New(g, V, x) : p = more[n]) /\ q \in Q
    <3>1. Len(p.ids) = Len(o.ids) + 1 /\ o.f + k < p.f
      BY <1>5, <2>4
    <3>2. Len(o.ids) <= Len(q.ids) /\ q.f <= o.f + k
      BY <1>7, <1>9, <2>4
    <3>3. QED
      BY <2>1, <3>1, <3>2
  <2>5. CASE (\E n \in New(g, V, x) : p = more[n]) /\ \E n \in New(g, V, x) : q = more[n]
    <3>1. Len(p.ids) = Len(o.ids) + 1 /\ Len(q.ids) = Len(o.ids) + 1
      BY <1>5, <2>5
    <3>2. QED
      BY <2>1, <3>1
  <2>6. QED
    BY <1>6, <2>2, <2>3, <2>4, <2>5
<1>11. Frontier(g, Ones, V \cup {x}, L)
  <2>1. x \notin V => AtLeast(g, Ones, x, e.c)
    BY <1>2, BreadthTakes
  <2>2. \A q \in L : q.c \in Int
    BY <1>3 DEF ByEdges
  <2>3. \A q \in K : q.end # x => q \in L
    <3> SUFFICES ASSUME NEW q \in K, q.end # x
                 PROVE  q \in L
      OBVIOUS
    <3>1. PICK p \in Q : q = [end |-> Last(p.ids), c |-> Len(p.ids) - 1]
      BY DEF ByEdges
    <3>2. p \in R
      BY <3>1 DEF Takes
    <3>3. QED
      BY <3>1, <3>2 DEF ByEdges
  <2>4. ASSUME NEW y \in Linked(g, x, 0) \ (V \cup {x})
        PROVE  \E q \in L : q.end = y /\ q.c <= e.c + Ones[<<x, y>>]
    <3>1. y \in New(g, V, x)
      BY DEF New
    <3>2. /\ more[y] \in R /\ Last(more[y].ids) = y /\ Len(more[y].ids) = Len(o.ids) + 1
          /\ y \in Node /\ x \in Node
      BY <1>5, <3>1
    <3> DEFINE q == [end |-> Last(more[y].ids), c |-> Len(more[y].ids) - 1]
    <3>3. q \in L
      BY <3>2 DEF ByEdges
    <3>4. q.end = y /\ q.c = Len(o.ids) + 1 - 1
      BY <3>2
    <3>5. Ones[<<x, y>>] = 1 /\ Len(o.ids) \in Nat
      BY <1>1, <1>3, <3>2 DEF Ones
    <3> HIDE DEF q, e, L
    <3>6. q.c <= e.c + Ones[<<x, y>>]
      BY <1>2, <3>4, <3>5
    <3>7. QED
      BY <3>3, <3>4, <3>6
  <2> HIDE DEF K, L, e
  <2>5. QED
    BY <1>2, <2>1, <2>2, <2>3, <2>4, FrontierGoesOn
<1>12. o.f \in Int
  BY <1>1, <1>4
<1>13. QED
  BY <1>8, <1>10, <1>11, <1>12 DEF BreadthQueue

LEMMA BreadthReaches ==
  ASSUME NEW g, Built(g), NEW V, NEW Q, NEW o, NEW k, Ways(g, V, Q), BreadthQueue(g, V, Q, k), IsTop(o, Q),
         Last(o.ids) = Target, Target \notin V, NEW r, r \in RoutesTo(g, Target)
  PROVE  Len(o.ids) <= Len(r)
<1> DEFINE n == Len(r)
           s == [i \in 0..(n - 1) |-> i]
<1>1. AtLeast(g, Ones, Target, Len(o.ids) - 1)
  BY BreadthTakes
<1>2. r \in Trips(g) /\ Last(r) = Target
  BY DEF RoutesTo, Trips
<1>3. n \in Nat \ {0} /\ r \in [1..n -> Node] /\ Last(r) = r[n]
  BY <1>2, TripFacts
<1> HIDE DEF n
<1>4. \A i \in 1..(n - 1) : Ones[<<r[i], r[i + 1]>>] = 1
  <2> TAKE i \in 1..(n - 1)
  <2>1. r[i] \in Node /\ r[i + 1] \in Node
    BY <1>3
  <2>2. QED
    BY <2>1 DEF Ones
<1>5. s \in [0..(n - 1) -> Int] /\ \A i \in 0..(n - 1) : s[i] = i
  OBVIOUS
<1> HIDE DEF s
<1>6. s[0] = 0 /\ \A i \in 1..(n - 1) : s[i] = s[i - 1] + Ones[<<r[i], r[i + 1]>>]
  <2>1. 0 \in 0..(n - 1) /\ \A i \in 1..(n - 1) : i \in 0..(n - 1) /\ i - 1 \in 0..(n - 1) /\ i = (i - 1) + 1
    BY <1>3
  <2>2. QED
    BY <1>4, <1>5, <2>1
<1>7. Sums(Ones, r, s)
  BY <1>5, <1>6 DEF Sums, n
<1>8. Len(o.ids) - 1 <= s[n - 1] /\ Len(o.ids) - 1 \in Int
  BY <1>1, <1>2, <1>3, <1>7 DEF AtLeast, n
<1>9. s[n - 1] = n - 1
  BY <1>3, <1>5
<1>10. Len(o.ids) \in Nat
  BY PathFacts DEF IsTop, Ways, WayOver
<1>11. QED
  BY <1>3, <1>8, <1>9, <1>10 DEF n

-------------------------------------------------------------------------------
(* The networks A* walks: an edge is listed at both ends, as it was laid.      *)

Told(A) == \A x, y \in A : x.id = y.id => x.ends = y.ends
Sound(g, A) == Tied(g) /\ \A i \in DOMAIN g.edges : LaidBy(i, g.edges[i]) \in A

LEMMA EmptySound == ASSUME NEW A PROVE Sound(EmptyNet, A)
<1>1. EmptyNet.lists = [n \in Node |-> [l \in Layer |-> {}]] /\ EmptyNet.edges = NoEdges
  BY DEF EmptyNet
<1>2. DOMAIN EmptyNet.edges = {} /\ \A n \in Node : EmptyNet.lists[n][0] = {}
  BY <1>1, NodeAssumption DEF NoEdges
<1>3. QED
  BY <1>2 DEF Sound, Tied

LEMMA NodeSound ==
  ASSUME NEW A, NEW g, Built(g), Sound(g, A), NEW n \in Node
  PROVE  Sound(WithNode(g, n), A)
<1> DEFINE E == [DOMAIN g.edges -> Edge]
           L == [Node -> [Layer -> SUBSET Int]]
<1>1. g \in [nodes : SUBSET Node, lists : L, edges : E]
  BY DEF Built
<1> HIDE DEF E, L
<1>2. WithNode(g, n) = [nodes |-> g.nodes \cup {n}, lists |-> g.lists, edges |-> g.edges]
  BY <1>1, OneFieldMore DEF WithNode
<1>3. WithNode(g, n).lists = g.lists /\ WithNode(g, n).edges = g.edges
  BY <1>2
<1>4. QED
  BY <1>3 DEF Sound, Tied

LEMMA EdgeSound ==
  ASSUME NEW A, Told(A), NEW g, Sound(g, A), NEW i, NEW a, NEW b, NEW info, Joinable(g, i, a, b, info, 0),
         [id |-> i, ends |-> {a, b}, info |-> info] \in A
  PROVE  Sound(WithEdge(g, i, a, b, info, 0), A)
<1> DEFINE D == DOMAIN g.edges
           both == [nodes |-> g.nodes, lists |-> g.lists, edges |-> Put(g.edges, i, BothWays(g.edges[i]))]
           e == [from |-> a, to |-> b, info |-> info, both |-> FALSE, layer |-> 0]
           K == [n \in Node |-> [m \in Layer |-> IF m = 0 /\ n \in {a, b} THEN g.lists[n][m] \cup {i}
                                                 ELSE g.lists[n][m]]]
           more == [nodes |-> g.nodes, lists |-> K, edges |-> Put(g.edges, i, e)]
<1>1. /\ a \in Node /\ b \in Node /\ 0 \in Layer
      /\ \A j \in D : g.edges[j].from \in Node /\ g.edges[j].to \in Node
  BY NodeAssumption DEF Joinable, Built
<1>2. /\ \A n \in Node : \A j \in g.lists[n][0] :
           /\ j \in D /\ n \in {g.edges[j].from, g.edges[j].to}
           /\ j \in g.lists[g.edges[j].from][0] /\ j \in g.lists[g.edges[j].to][0]
      /\ \A j \in D : LaidBy(j, g.edges[j]) \in A
  BY DEF Sound, Tied
<1>3. ASSUME i \in D PROVE Sound(both, A)
  <2>1. DOMAIN both.edges = D /\ both.lists = g.lists
    BY <1>3 DEF Put
  <2>2. \A j \in D : /\ both.edges[j].from = g.edges[j].from /\ both.edges[j].to = g.edges[j].to
                     /\ both.edges[j].info = g.edges[j].info
    BY <1>3 DEF Put, BothWays
  <2> HIDE DEF both
  <2>3. \A j \in D : LaidBy(j, both.edges[j]) = LaidBy(j, g.edges[j])
    BY <2>2 DEF LaidBy
  <2>4. Tied(both)
    BY <1>2, <2>1, <2>2 DEF Tied
  <2>5. QED
    BY <1>2, <2>1, <2>3, <2>4 DEF Sound
<1>4. Sound(more, A)
  <2>1. /\ DOMAIN more.edges = D \cup {i} /\ more.edges[i] = e /\ more.lists = K
        /\ \A j \in D : j # i => more.edges[j] = g.edges[j]
    BY DEF Put
  <2>2. \A n \in Node : K[n][0] = IF n \in {a, b} THEN g.lists[n][0] \cup {i} ELSE g.lists[n][0]
    BY <1>1
  <2>3. e.from = a /\ e.to = b /\ LaidBy(i, e) = [id |-> i, ends |-> {a, b}, info |-> info]
    BY DEF LaidBy
  <2> HIDE DEF more, K, e
  <2>4. ASSUME NEW n \in Node, NEW j \in K[n][0]
        PROVE  /\ j \in D \cup {i} /\ n \in {more.edges[j].from, more.edges[j].to}
               /\ j \in K[more.edges[j].from][0] /\ j \in K[more.edges[j].to][0]
    <3>1. CASE j = i
      <4>1. n \in {a, b}
        <5>1. ASSUME i \in g.lists[n][0]
              PROVE  n \in {a, b}
          <6>1. i \in D /\ n \in {g.edges[i].from, g.edges[i].to} /\ LaidBy(i, g.edges[i]) \in A
            BY <1>2, <5>1
          <6>2. /\ LaidBy(i, g.edges[i]).id = i
                /\ LaidBy(i, g.edges[i]).ends = {g.edges[i].from, g.edges[i].to}
            BY DEF LaidBy
          <6> DEFINE x == [id |-> i, ends |-> {a, b}, info |-> info]
          <6>3. x \in A /\ x.id = i /\ x.ends = {a, b}
            OBVIOUS
          <6> HIDE DEF x
          <6>4. {g.edges[i].from, g.edges[i].to} = {a, b}
            BY <6>1, <6>2, <6>3 DEF Told
          <6>5. QED
            BY <6>1, <6>4
        <5>2. QED
          BY <2>2, <2>4, <3>1, <5>1
      <4>2. i \in K[a][0] /\ i \in K[b][0]
        BY <1>1, <2>2
      <4>3. QED
        BY <2>1, <2>3, <3>1, <4>1, <4>2
    <3>2. CASE j # i
      <4>1. j \in g.lists[n][0]
        BY <2>2, <2>4, <3>2
      <4>2. /\ j \in D /\ more.edges[j] = g.edges[j] /\ n \in {g.edges[j].from, g.edges[j].to}
            /\ j \in g.lists[g.edges[j].from][0] /\ j \in g.lists[g.edges[j].to][0]
        BY <1>2, <2>1, <3>2, <4>1
      <4>3. j \in K[g.edges[j].from][0] /\ j \in K[g.edges[j].to][0]
        BY <1>1, <2>2, <4>2
      <4>4. QED
        BY <4>2, <4>3
    <3>3. QED
      BY <3>1, <3>2
  <2>5. Tied(more)
    BY <2>1, <2>4 DEF Tied
  <2>6. \A j \in D \cup {i} : LaidBy(j, more.edges[j]) \in A
    BY <1>2, <2>1, <2>3
  <2>7. QED
    BY <2>1, <2>5, <2>6 DEF Sound
<1>5. CASE a \in Linked(g, b, 0) /\ i \in D
  <2>1. WithEdge(g, i, a, b, info, 0) = both
    BY <1>5, Zenon DEF WithEdge
  <2>2. QED
    BY <1>3, <1>5, <2>1, Zenon
<1>6. CASE a \in Linked(g, b, 0) /\ i \notin D
  <2>1. WithEdge(g, i, a, b, info, 0) = g
    BY <1>6, Zenon DEF WithEdge
  <2>2. QED
    BY <2>1
<1>7. CASE a \notin Linked(g, b, 0)
  <2>1. WithEdge(g, i, a, b, info, 0) = more
    BY <1>7, Zenon DEF WithEdge
  <2>2. QED
    BY <1>4, <2>1, Zenon
<1>8. QED
  BY <1>5, <1>6, <1>7

LEMMA GivenSound ==
  ASSUME NEW A, Told(A), NEW g, g \in Nets, Sound(g, A), NEW x, x \in Given,
         LaidBy(x.id, x) \in A, ~x.both => LaidBy(x.id + 1, x) \in A
  PROVE  Sound(WithGiven(g, x), A)
<1> DEFINE a == x.from
           b == x.to
           i == x.id
           info == x.info
           g1 == WithNode(g, a)
           g2 == WithNode(g1, b)
           h == WithEdge(g2, i, a, b, info, 0)
           j == IF x.both THEN i ELSE i + 1
<1>0. WithGiven(g, x) = WithEdge(h, j, b, a, info, 0)
  BY DEF WithGiven
<1>1. i \in Int /\ i + 1 \in Int /\ a \in Node /\ b \in Node /\ info \in Info /\ 0 \in Layer
  BY NodeAssumption DEF Given
<1>2. /\ [id |-> i, ends |-> {a, b}, info |-> info] \in A
      /\ [id |-> j, ends |-> {b, a}, info |-> info] \in A
  <2>1. \A k : LaidBy(k, x) = [id |-> k, ends |-> {a, b}, info |-> info]
    BY DEF LaidBy
  <2>2. x.both \in BOOLEAN /\ {a, b} = {b, a}
    BY DEF Given
  <2>3. LaidBy(j, x) \in A
    BY <2>2
  <2> HIDE DEF a, b, i, info, j
  <2>4. LaidBy(i, x) \in A
    BY DEF i
  <2>5. QED
    BY <2>1, <2>2, <2>3, <2>4
<1>3. j \in Int
  BY <1>1
<1> HIDE DEF a, b, i, info, j
<1>4. Built(g1) /\ g1.nodes = g.nodes \cup {a} /\ Sound(g1, A)
  BY <1>1, BuiltNets, NodeBuilt, NodeSound
<1> HIDE DEF g1
<1>5. Built(g2) /\ g2.nodes = g1.nodes \cup {b} /\ Sound(g2, A)
  BY <1>1, <1>4, NodeBuilt, NodeSound
<1> HIDE DEF g2
<1>6. Joinable(g2, i, a, b, info, 0)
  BY <1>1, <1>4, <1>5 DEF Joinable
<1>7. Built(h) /\ h.nodes = g2.nodes /\ Sound(h, A)
  BY <1>2, <1>5, <1>6, EdgeBuilt, EdgeSound DEF KeepsBuilt
<1> HIDE DEF h
<1>8. Joinable(h, j, b, a, info, 0)
  BY <1>1, <1>3, <1>4, <1>5, <1>7 DEF Joinable
<1>9. QED
  BY <1>0, <1>2, <1>7, <1>8, EdgeSound

LEMMA BringSound ==
  ASSUME NEW A, Told(A), NEW g, Built(g), Sound(g, A), NEW links, links \in Seq(Given),
         \A k \in DOMAIN links : /\ LaidBy(links[k].id, links[k]) \in A
                                 /\ ~links[k].both => LaidBy(links[k].id + 1, links[k]) \in A
  PROVE  Sound(Bring(g, links), A)
<1> DEFINE N == Len(links)
<1>1. PICK u : IsBringing(g, links, u)
  BY BringsOneByOne
<1>2. /\ N \in Nat /\ g \in Nets /\ Bring(g, links) = u[N] /\ u[0] = g
      /\ \A k \in 1..N : u[k] = WithGiven(u[k - 1], links[k])
  BY <1>1, BuiltNets DEF IsBringing
<1>3. \A k \in 1..N : /\ links[k] \in Given /\ LaidBy(links[k].id, links[k]) \in A
                      /\ ~links[k].both => LaidBy(links[k].id + 1, links[k]) \in A
  OBVIOUS
<1> HIDE DEF N
<1> DEFINE T == {k \in 0..N : u[k] \in Nets /\ Sound(u[k], A)}
<1>4. 0 \in T
  BY <1>2
<1>5. ASSUME NEW m \in 0..(N - 1), m \in T
      PROVE  m + 1 \in T
  <2>1. m + 1 \in 1..N /\ m + 1 \in 0..N /\ (m + 1) - 1 = m
    BY <1>2
  <2>2. u[m + 1] = WithGiven(u[m], links[m + 1]) /\ u[m] \in Nets /\ Sound(u[m], A)
    BY <1>2, <1>5, <2>1
  <2>3. WithGiven(u[m], links[m + 1]) \in Nets
    BY <1>3, <2>1, <2>2, GivenBuilt
  <2>4. Sound(WithGiven(u[m], links[m + 1]), A)
    BY <1>3, <2>1, <2>2, GivenSound
  <2>5. QED
    BY <2>1, <2>2, <2>3, <2>4
<1>6. 0..N \subseteq T
  <2> HIDE DEF T
  <2>1. QED
    BY <1>2, <1>4, <1>5, UpTo
<1>7. N \in T
  <2> HIDE DEF T
  <2>1. QED
    BY <1>2, <1>6
<1>8. QED
  BY <1>2, <1>7

\* In a sound network no link is shorter than the guesses at its ends differ.
LEMMA SoundFits ==
  ASSUME NEW A, NEW g, Built(g), Sound(g, A), \A n \in Node : Height(n) \in Int,
         \A x \in A : x.info \in Int /\ \A a, b \in x.ends : Height(a) <= x.info + Height(b)
  PROVE  Fits(g, LengthsOf(g), Heights)
<1>1. \A n \in Node : Heights[n] = Height(n) /\ Heights[n] \in Int
  BY DEF Heights
<1>2. ASSUME NEW a \in Node, NEW b \in Linked(g, a, 0) \ {a}
      PROVE  LengthsOf(g)[<<a, b>>] \in Int /\ Height(a) <= LengthsOf(g)[<<a, b>>] + Height(b)
  <2>1. PICK i \in g.lists[a][0] \cap DOMAIN g.edges : b = Across(g.edges[i], a)
    BY DEF Linked
  <2>2. /\ a \in {g.edges[i].from, g.edges[i].to}
        /\ i \in g.lists[g.edges[i].from][0] /\ i \in g.lists[g.edges[i].to][0]
    BY <2>1 DEF Sound, Tied
  <2>3. b \in {g.edges[i].from, g.edges[i].to} /\ b \in Node
    BY <2>1, BuiltNets DEF Across, Built
  <2>4. i \in g.lists[a][0] \cap g.lists[b][0]
    BY <2>1, <2>2, <2>3
  <2> DEFINE j == CHOOSE k \in g.lists[a][0] \cap g.lists[b][0] : TRUE
  <2>5. j \in g.lists[a][0] \cap g.lists[b][0]
    BY <2>4
  <2>6. LengthsOf(g)[<<a, b>>] = g.edges[j].info
    BY <2>3 DEF LengthsOf, Length
  <2> HIDE DEF j
  <2>7. /\ j \in DOMAIN g.edges /\ {a, b} \subseteq {g.edges[j].from, g.edges[j].to}
        /\ LaidBy(j, g.edges[j]) \in A
    BY <2>3, <2>5 DEF Sound, Tied
  <2>8. /\ LaidBy(j, g.edges[j]).info = g.edges[j].info
        /\ LaidBy(j, g.edges[j]).ends = {g.edges[j].from, g.edges[j].to}
    BY DEF LaidBy
  <2>9. g.edges[j].info \in Int /\ Height(a) <= g.edges[j].info + Height(b)
    BY <2>7, <2>8
  <2>10. QED
    BY <2>6, <2>9
<1>3. \A a \in Node : \A b \in Linked(g, a, 0) \ {a} : b \in Node
  BY BuiltNets DEF Built
<1>4. QED
  BY <1>1, <1>2, <1>3 DEF Fits

-------------------------------------------------------------------------------
(* The state of a walk that finds a shortest path. *)

NetsSound == \A v \in Visit : Selects(v, {"a star"}) => Sound(net[v], Laid(plan[v]))

\* What a visit whose heights fit says of a network or of a batch it may bring.
LEMMA GuessedFacts ==
  ASSUME HeightsFit, WTypes, NEW v \in Visit, Selects(v, {"a star"})
  PROVE  /\ v \in DOMAIN plan /\ Told(Laid(plan[v])) /\ Sound(plan[v].net, Laid(plan[v]))
         /\ \A x \in Laid(plan[v]) : x.info \in Int /\ \A a, b \in x.ends : Height(a) <= x.info + Height(b)
         /\ \A b \in plan[v].brings : \A k \in DOMAIN b :
              /\ LaidBy(b[k].id, b[k]) \in Laid(plan[v])
              /\ ~b[k].both => LaidBy(b[k].id + 1, b[k]) \in Laid(plan[v])
<1>1. v \in DOMAIN plan /\ plan \in Plans /\ plan[v].selector = "a star"
  BY DEF Selects, WTypes
<1>2. Guessed(plan[v])
  BY <1>1 DEF HeightsFit
<1>3. \A i \in DOMAIN plan[v].net.edges : LaidBy(i, plan[v].net.edges[i]) \in Laid(plan[v])
  BY DEF Laid
<1>4. ASSUME NEW b \in plan[v].brings, NEW k \in DOMAIN b
      PROVE  /\ LaidBy(b[k].id, b[k]) \in Laid(plan[v])
             /\ ~b[k].both => LaidBy(b[k].id + 1, b[k]) \in Laid(plan[v])
  <2> DEFINE S(c) == {LaidBy(c[j].id, c[j]) : j \in DOMAIN c}
                     \cup {LaidBy(c[j].id + 1, c[j]) : j \in {i \in DOMAIN c : ~c[i].both}}
  <2>1. LaidBy(b[k].id, b[k]) \in S(b) /\ (~b[k].both => LaidBy(b[k].id + 1, b[k]) \in S(b))
    OBVIOUS
  <2>2. UNION {S(c) : c \in plan[v].brings} \subseteq Laid(plan[v])
    BY DEF Laid
  <2> HIDE DEF S
  <2>3. QED
    BY <2>1, <2>2
<1>5. QED
  BY <1>1, <1>2, <1>3, <1>4 DEF Guessed, Told, Sound

LEMMA SoundInit == ASSUME HeightsFit PROVE WInit => NetsSound
<1> SUFFICES ASSUME WInit, NEW v \in Visit, Selects(v, {"a star"})
             PROVE  Sound(net[v], Laid(plan[v]))
  BY DEF NetsSound
<1>1. WTypes
  BY WTypesInit
<1>2. v \in DOMAIN plan /\ Sound(plan[v].net, Laid(plan[v]))
  BY <1>1, GuessedFacts
<1>3. net[v] = plan[v].net
  BY <1>2 DEF WInit
<1>4. QED
  BY <1>2, <1>3

LEMMA SoundStep ==
  ASSUME HeightsFit, WTypes, NetsInv, NetsSound, [WNext]_wvars
  PROVE  NetsSound'
<1>1. ASSUME UNCHANGED <<plan, net>> PROVE NetsSound'
  BY <1>1 DEF NetsSound, Selects
<1>2. UNCHANGED wvars => UNCHANGED <<plan, net>>
  BY DEF wvars, walks
<1>3. ASSUME NEW w \in Visit, LoadBatch(w)
      PROVE  NetsSound'
  <2>1. loader[w] # Nobody /\ plan' = plan
    BY <1>3 DEF LoadBatch, Load, Yield
  <2>2. PICK b \in plan[w].brings : net' = [net EXCEPT ![w] = Bring(@, b)]
    BY <1>3 DEF LoadBatch
  <2>3. b \in Seq(Given)
    BY <2>1, <2>2, PlanAssumption DEF WTypes
  <2>4. \A v \in Visit : net'[v] = IF v = w THEN Bring(net[w], b) ELSE net[v]
    BY <2>2 DEF WTypes
  <2>5. ASSUME Selects(w, {"a star"})
        PROVE  Sound(Bring(net[w], b), Laid(plan[w]))
    <3>1. /\ Told(Laid(plan[w]))
          /\ \A k \in DOMAIN b : /\ LaidBy(b[k].id, b[k]) \in Laid(plan[w])
                                 /\ ~b[k].both => LaidBy(b[k].id + 1, b[k]) \in Laid(plan[w])
      BY <2>2, <2>5, GuessedFacts
    <3>2. Built(net[w]) /\ Sound(net[w], Laid(plan[w]))
      BY <2>5 DEF NetsInv, NetsSound
    <3>3. QED
      BY <2>3, <3>1, <3>2, BringSound
  <2>6. QED
    BY <2>1, <2>4, <2>5 DEF NetsSound, Selects
<1>4. ASSUME NEW v, Stand(v) \/ WalkOn(v) \/ ((LoadEnds(v) \/ Walk(v) \/ OpenWalker(Fresh) \/ Open(v, Fresh))
                                               /\ UNCHANGED <<plan, walks>>)
      PROVE  UNCHANGED <<plan, net>>
  BY <1>4 DEF Stand, WalkOn, LoadEnds, Walk, OpenWalker, Open, walks
<1>5. ASSUME Between PROVE UNCHANGED <<plan, net>>
  BY <1>5 DEF Between, walks
<1>6. QED
  BY <1>1, <1>2, <1>3, <1>4, <1>5, WCases

LEMMA NetFits ==
  ASSUME HeightsFit, WTypes, NetsInv, NetsSound, NEW v \in Visit, Selects(v, {"a star"})
  PROVE  Fits(net[v], LengthsOf(net[v]), Heights)
<1>1. Built(net[v]) /\ Sound(net[v], Laid(plan[v]))
  BY DEF NetsInv, NetsSound
<1>2. \A x \in Laid(plan[v]) : x.info \in Int /\ \A a, b \in x.ends : Height(a) <= x.info + Height(b)
  BY GuessedFacts
<1>3. \A n \in Node : Height(n) \in Int
  BY DEF HeightsFit
<1>4. QED
  BY <1>1, <1>2, <1>3, SoundFits

-------------------------------------------------------------------------------
(* The search of each walk. *)

\* The queue of either kind of walk, until the ranks of the breadth-first one wrap.
Queued(v, V, Q, k) ==
  /\ Ways(net[v], V, Q)
  /\ Selects(v, {"a star"}) => AStarQueue(net[v], V, Q)
  /\ Selects(v, {"breadth first"}) /\ k < OrderMod => BreadthQueue(net[v], V, Q, k)

ShortInv ==
  /\ order \in [Visit -> Nat] /\ DOMAIN path = Visit
  /\ \A v \in Visit : outcome[v] = "open" /\ queue[v] # {} => Queued(v, visited[v], queue[v], order[v])

LEMMA ShortInit == WInit => ShortInv
BY DEF WInit, ShortInv

LEMMA FirstPath ==
  ASSUME NEW v \in Visit, Built(net[v]), net[v].nodes # {}, NEW k \in Nat, NEW Q,
         Q = {[ids |-> <<Lowest(net[v].nodes)>>, g |-> 0, f |-> 0]}
  PROVE  Queued(v, {}, Q, k)
<1> DEFINE g == net[v]
           n == Lowest(g.nodes)
           p == [ids |-> <<n>>, g |-> 0, f |-> 0]
<1>1. n \in Node
  BY LowestIsThere DEF Built
<1>2. p.ids = <<n>> /\ p.g = 0 /\ p.f = 0 /\ Q = {p}
  OBVIOUS
<1> HIDE DEF n
<1>3. p.ids \in Paths /\ Last(p.ids) = n /\ Len(p.ids) = 1 /\ p.ids[1] = n /\ IsInjective(p.ids)
  BY <1>1, <1>2 DEF Paths, Last, IsInjective
<1> HIDE DEF p
<1>4. Ways(g, {}, Q)
  <2>1. 1..(Len(p.ids) - 1) = {} /\ \A q \in Q : q = p
    BY <1>2, <1>3
  <2>2. WayOver(g, {}, p.ids)
    BY <1>3, <2>1 DEF WayOver, n
  <2>3. QED
    BY <2>1, <2>2 DEF Ways
<1>5. AStarQueue(g, {}, Q)
  <2> DEFINE e == [end |-> n, c |-> 0]
  <2>1. ByLength(Q) = {e}
    BY <1>2, <1>3 DEF ByLength
  <2>2. e.end = n /\ e.c = 0
    OBVIOUS
  <2> HIDE DEF e
  <2>3. Frontier(g, LengthsOf(g), {}, ByLength(Q))
    BY <2>1, <2>2 DEF Frontier, n
  <2>4. Summed(LengthsOf(g), p.ids, 0)
    <3> DEFINE s == [i \in 0..0 |-> 0]
    <3>1. s \in [0..0 -> Int] /\ s[0] = 0
      OBVIOUS
    <3> HIDE DEF s
    <3>2. Sums(LengthsOf(g), p.ids, s)
      BY <1>3, <3>1 DEF Sums
    <3>3. Len(p.ids) - 1 = 0
      BY <1>3
    <3>4. QED
      BY <3>1, <3>2, <3>3 DEF Summed
  <2>5. QED
    BY <1>2, <2>3, <2>4 DEF AStarQueue
<1>6. BreadthQueue(g, {}, Q, k)
  <2> DEFINE e == [end |-> n, c |-> 0]
  <2>1. ByEdges(Q) = {e}
    <3>1. Len(p.ids) - 1 = 0
      BY <1>3
    <3>2. QED
      BY <1>2, <1>3, <3>1 DEF ByEdges
  <2>2. e.end = n /\ e.c = 0
    OBVIOUS
  <2> HIDE DEF e
  <2>3. Frontier(g, Ones, {}, {e})
    <3>1. \A q \in {e} : q.c \in Int /\ q.end = Lowest(g.nodes) /\ q.c <= 0
      BY <2>2 DEF n
    <3>2. QED
      BY <3>1 DEF Frontier
  <2>4. \A q \in Q : q.g = q.f /\ q.f \in Int /\ 0 <= q.f /\ q.f <= 0 + k
    BY <1>2
  <2>5. \A q, r \in Q : q.ids = r.ids /\ Len(q.ids) = 1
    BY <1>2, <1>3
  <2>6. \A q, r \in Q : Len(q.ids) <= Len(r.ids) /\ Len(q.ids) <= Len(r.ids) + 1
    BY <2>5
  <2>7. QED
    BY <2>1, <2>3, <2>4, <2>6 DEF BreadthQueue
<1>7. QED
  BY <1>4, <1>5, <1>6 DEF Queued

\* A turn that passes a node takes its path out and puts one in for each new neighbour.
LEMMA PassTakes ==
  ASSUME WTypes, order \in [Visit -> Nat], NEW v \in Visit, Built(net[v]), NEW o \in queue[v], Passes(v, o)
  PROVE  \E more, rank : \E m \in Nat :
           /\ Takes(net[v], visited[v], queue[v], o, queue'[v], more)
           /\ visited'[v] = visited[v] \cup {Last(o.ids)} /\ order'[v] = order[v] + m
           /\ \A n \in New(net[v], visited[v], Last(o.ids)) :
                rank[n] \in 1..m /\ more[n] = Pushed(v, o, n, rank[n])
<1> DEFINE x == Last(o.ids)
           N == New(net[v], visited[v], x)
           nth(n) == Cardinality({m \in N : m <= n})
           rank == [n \in N |-> nth(n)]
           more == [n \in N |-> Pushed(v, o, n, nth(n))]
           m == Cardinality(N)
<1>1. visited'[v] = visited[v] \cup {x}
  BY DEF Passes, WTypes
<1>2. N = Linked(net[v], x, 0) \ visited'[v]
  BY <1>1 DEF New
<1>3. queue'[v] = (queue[v] \ {o}) \cup {Pushed(v, o, n, nth(n)) : n \in N}
  <2>1. queue' = [queue EXCEPT ![v] = (@ \ {o}) \cup
                    {Pushed(v, o, n, Cardinality({j \in Linked(net[v], x, 0) \ visited'[v] : j <= n}))
                       : n \in Linked(net[v], x, 0) \ visited'[v]}]
    BY DEF Passes
  <2>2. QED
    BY <1>2, <2>1 DEF WTypes
<1>4. order'[v] = order[v] + m
  <2>1. order' = [order EXCEPT ![v] = @ + Cardinality(Linked(net[v], x, 0) \ visited'[v])]
    BY DEF Passes
  <2>2. QED
    BY <1>2, <2>1
<1>5. N \subseteq Node
  BY BuiltNets DEF New, Built
<1>6. IsFiniteSet(N) /\ m \in Nat
  BY <1>5, NodeAssumption, FS_Subset, FS_CardinalityType
<1>7. \A n \in N : /\ rank[n] \in 1..m /\ more[n] = Pushed(v, o, n, rank[n])
                   /\ more[n].ids = Append(o.ids, n)
  <2> TAKE n \in N
  <2> DEFINE S == {j \in N : j <= n}
  <2>1. S \subseteq N /\ n \in S
    BY <1>5, NodeAssumption
  <2>2. rank[n] = Cardinality(S)
    OBVIOUS
  <2>3. more[n] = Pushed(v, o, n, rank[n])
    OBVIOUS
  <2>4. more[n].ids = Append(o.ids, n)
    BY <2>3 DEF Pushed
  <2> HIDE DEF S, rank, more, m
  <2>5. IsFiniteSet(S) /\ Cardinality(S) \in Nat /\ Cardinality(S) <= m
    BY <1>6, <2>1, FS_Subset, FS_CardinalityType DEF m
  <2>6. Cardinality(S) # 0
    BY <2>1, <2>5, FS_EmptySet
  <2>7. rank[n] \in 1..m
    BY <1>6, <2>2, <2>5, <2>6
  <2>8. QED
    BY <2>3, <2>4, <2>7
<1>8. {more[n] : n \in N} = {Pushed(v, o, n, nth(n)) : n \in N}
  OBVIOUS
<1> HIDE DEF more, rank, nth
<1>9. Takes(net[v], visited[v], queue[v], o, queue'[v], more)
  BY <1>3, <1>5, <1>7, <1>8 DEF Takes
<1> HIDE DEF m
<1>10. QED
  BY <1>1, <1>4, <1>6, <1>7, <1>9

LEMMA SmallMod == ASSUME NEW a \in Nat, a < OrderMod PROVE a % OrderMod = a
BY OrderAssumption

\* What the heuristics make of a path that is pushed.
IsAStarPath(v, o, n, p) == p.g = o.g + Length(net[v], Last(o.ids), n) /\ p.f = p.g + Height(n)
IsBreadthPath(v, o, k, p) == p.g = o.g + ((order[v] + k) % OrderMod) /\ p.f = p.g + 0

LEMMA RankOfPushed ==
  ASSUME NEW v, NEW o, NEW n, NEW k
  PROVE  /\ Selects(v, {"a star"}) => IsAStarPath(v, o, n, Pushed(v, o, n, k))
         /\ ~Selects(v, {"a star"}) => IsBreadthPath(v, o, k, Pushed(v, o, n, k))
<1> DEFINE d == IF Selects(v, {"a star"}) THEN Length(net[v], Last(o.ids), n)
                ELSE (order[v] + k) % OrderMod
           c == o.g + d
           h == IF Selects(v, {"a star"}) THEN Height(n) ELSE 0
           p == [ids |-> Append(o.ids, n), g |-> c, f |-> c + h]
<1>1. Pushed(v, o, n, k) = p
  BY DEF Pushed
<1>2. p.g = c /\ p.f = c + h
  OBVIOUS
<1>3. Selects(v, {"a star"}) => c = o.g + Length(net[v], Last(o.ids), n) /\ h = Height(n)
  OBVIOUS
<1>4. ~Selects(v, {"a star"}) => c = o.g + ((order[v] + k) % OrderMod) /\ h = 0
  OBVIOUS
<1> HIDE DEF p, c, h
<1>5. QED
  BY <1>1, <1>2, <1>3, <1>4 DEF IsAStarPath, IsBreadthPath

LEMMA PassGoesOn ==
  ASSUME HeightsFit, WTypes, NetsInv, NetsSound, order \in [Visit -> Nat], NEW v \in Visit,
         Queued(v, visited[v], queue[v], order[v]),
         NEW o \in queue[v], IsTop(o, queue[v]), Passes(v, o)
  PROVE  Queued(v, visited'[v], queue'[v], order'[v])
<1> DEFINE g == net[v]
           V == visited[v]
           Q == queue[v]
           R == queue'[v]
           x == Last(o.ids)
<1>1. Built(g) /\ order[v] \in Nat
  BY DEF NetsInv
<1>2. PICK more, rank : \E m \in Nat :
           /\ Takes(g, V, Q, o, R, more)
           /\ visited'[v] = V \cup {x} /\ order'[v] = order[v] + m
           /\ \A n \in New(g, V, x) : rank[n] \in 1..m /\ more[n] = Pushed(v, o, n, rank[n])
  BY <1>1, PassTakes
<1>3. PICK m \in Nat :
           /\ Takes(g, V, Q, o, R, more)
           /\ visited'[v] = V \cup {x} /\ order'[v] = order[v] + m
           /\ \A n \in New(g, V, x) : rank[n] \in 1..m /\ more[n] = Pushed(v, o, n, rank[n])
  BY <1>2
<1>4. Ways(g, V, Q)
  BY DEF Queued
<1> HIDE DEF V, Q, R
<1>5. Ways(g, V \cup {x}, R)
  BY <1>3, <1>4, WaysGoOn
<1>6. ASSUME Selects(v, {"a star"})
      PROVE  AStarQueue(g, V \cup {x}, R)
  <2>1. AStarQueue(g, V, Q) /\ IsTop(o, Q)
    BY <1>6 DEF Queued, V, Q
  <2>2. Fits(g, LengthsOf(g), Heights)
    BY <1>6, NetFits
  <2>3. \A n \in New(g, V, x) : /\ more[n].g = o.g + Length(g, x, n)
                                /\ more[n].f = more[n].g + Height(n)
    <3> TAKE n \in New(g, V, x)
    <3>1. more[n] = Pushed(v, o, n, rank[n])
      BY <1>3
    <3>2. IsAStarPath(v, o, n, Pushed(v, o, n, rank[n]))
      BY <1>6, RankOfPushed
    <3>3. QED
      BY <3>1, <3>2 DEF IsAStarPath
  <2> HIDE DEF g
  <2>4. QED
    BY <1>3, <1>4, <2>1, <2>2, <2>3, AStarGoesOn
<1>7. ASSUME Selects(v, {"breadth first"}), order'[v] < OrderMod
      PROVE  BreadthQueue(g, V \cup {x}, R, order'[v])
  <2> DEFINE k == order[v]
             e == order'[v]
  <2>0. k \in Nat /\ e = k + m /\ e < OrderMod /\ OrderMod \in Nat
    BY <1>1, <1>3, <1>7, OrderAssumption
  <2> HIDE DEF k, e
  <2>1. k < OrderMod
    BY <2>0
  <2>2. BreadthQueue(g, V, Q, k) /\ IsTop(o, Q)
    BY <1>7, <2>1 DEF Queued, V, Q, k
  <2>3. o.g \in Int
    BY <2>2 DEF BreadthQueue, IsTop
  <2>4. \A n \in New(g, V, x) : /\ more[n].g = o.g + (k + rank[n]) /\ more[n].f = more[n].g
                                /\ rank[n] \in 1..m
    <3> TAKE n \in New(g, V, x)
    <3>1. more[n] = Pushed(v, o, n, rank[n]) /\ rank[n] \in 1..m
      BY <1>3
    <3>2. ~Selects(v, {"a star"})
      BY <1>7 DEF Selects
    <3>3. more[n].g = o.g + ((k + rank[n]) % OrderMod) /\ more[n].f = more[n].g + 0
      <4>1. IsBreadthPath(v, o, rank[n], Pushed(v, o, n, rank[n]))
        BY <3>2, RankOfPushed
      <4>2. QED
        BY <3>1, <4>1 DEF IsBreadthPath, k
    <3> DEFINE j == rank[n]
    <3>4. j \in 1..m
      BY <3>1
    <3> HIDE DEF j
    <3>5. k + j \in Nat /\ k + j < OrderMod
      BY <2>0, <3>4
    <3>6. (k + j) % OrderMod = k + j
      BY <3>5, SmallMod
    <3>7. more[n].g = o.g + (k + j) /\ more[n].f = more[n].g + 0
      BY <3>3, <3>6 DEF j
    <3>8. o.g + (k + j) \in Int
      BY <2>3, <3>5
    <3>9. more[n].f = more[n].g
      BY <3>7, <3>8
    <3>10. QED
      BY <3>1, <3>7, <3>9 DEF j
  <2>5. BreadthQueue(g, V \cup {x}, R, k + m)
    <3> HIDE DEF g
    <3>1. QED
      BY <1>1, <1>3, <1>4, <2>0, <2>2, <2>4, BreadthGoesOn
  <2>6. QED
    BY <2>0, <2>5 DEF k, e
<1>8. QED
  BY <1>3, <1>5, <1>6, <1>7 DEF Queued, R

LEMMA ShortStep ==
  ASSUME HeightsFit, IInv, WTypes, NetsInv, NetsSound, Own, SearchInv, ShortInv, [WNext]_wvars
  PROVE  ShortInv'
<1>0. order \in [Visit -> Nat] /\ DOMAIN path = Visit
  BY DEF ShortInv
<1>1. CASE UNCHANGED wvars
  BY <1>1 DEF wvars, nvars, vars, walks, ShortInv, Queued, Selects
<1>2. ASSUME NEW v \in Visit, outcome[v] = "open", queue[v] # {}
      PROVE  active # Nobody /\ active = walker[v] /\ WalkerOn(v) /\ phase = "run" /\ itr # End
             /\ Selects(v, {"a star", "breadth first"})
  BY <1>2 DEF SearchInv, SearchOf, WalkerOn, IInv, IteratorOK, Own
<1>4. ASSUME NEW w \in Visit, LoadBatch(w) \/ (LoadEnds(w) /\ UNCHANGED <<plan, walks>>)
      PROVE  ShortInv'
  <2>1. /\ active = loader[w] /\ active # Nobody /\ LoaderOn(w)
        /\ UNCHANGED <<outcome, queue, order, path>>
    <3>1. CASE LoadBatch(w)
      BY <3>1 DEF LoadBatch, Load, Yield, LoaderOn
    <3>2. CASE LoadEnds(w) /\ UNCHANGED <<plan, walks>>
      BY <3>2 DEF LoadEnds, Return, BackToRun, LoaderOn, walks
    <3>3. QED
      BY <1>4, <3>1, <3>2
  <2>2. \A v \in Visit : outcome[v] = "open" => queue[v] = {}
    BY <1>2, <2>1 DEF Own
  <2>3. QED
    BY <1>0, <2>1, <2>2 DEF ShortInv
<1>5. ASSUME NEW w \in Visit, Selects(w, {"any"}), Walk(w), UNCHANGED <<plan, walks>>
      PROVE  ShortInv'
  <2>1. /\ active = walker[w] /\ active # Nobody /\ WalkerOn(w)
        /\ UNCHANGED <<queue, order, path>>
        /\ \A v \in Visit : v # w => outcome'[v] = outcome[v]
    BY <1>5 DEF Walk, Turn, Yield, Return, BackToRun, WalkerOn, walks, WTypes
  <2>2. outcome[w] = "open" /\ ~Selects(w, {"a star", "breadth first"})
    BY <1>5 DEF Walk, Selects
  <2>3. \A v \in Visit : outcome[v] = "open" => queue[v] = {}
    BY <1>2, <2>1, <2>2 DEF Own
  <2>4. \A v \in Visit : outcome'[v] = "open" => outcome[v] = "open"
    BY <2>1, <2>2
  <2>5. QED
    BY <1>0, <2>1, <2>3, <2>4 DEF ShortInv
<1>6. ASSUME NEW w \in Visit, Stand(w) \/ WalkOn(w)
      PROVE  ShortInv'
  <2>1. /\ UNCHANGED <<plan, net>> /\ outcome[w] = "open" /\ WalkerOn(w)
        /\ active = walker[w] /\ active # Nobody /\ Selects(w, {"a star", "breadth first"})
        /\ order' \in [Visit -> Nat] /\ DOMAIN path' = Visit
        /\ \A v \in Visit : v # w => /\ outcome'[v] = outcome[v] /\ queue'[v] = queue[v]
    <3>1. CASE Stand(w)
      BY <1>0, <3>1 DEF Stand, Walking, WTypes, WalkerOn
    <3>2. CASE WalkOn(w)
      <4>1. PICK o \in queue[w] : Reaches(w, o) \/ Passes(w, o)
        BY <3>2 DEF WalkOn
      <4>2. CASE Reaches(w, o)
        BY <1>0, <3>2, <4>2 DEF WalkOn, Walking, Reaches, WTypes, WalkerOn
      <4>3. CASE Passes(w, o)
        <5>1. /\ UNCHANGED <<plan, net>> /\ outcome[w] = "open" /\ WalkerOn(w)
              /\ active = walker[w] /\ active # Nobody /\ Selects(w, {"a star", "breadth first"})
              /\ \A v \in Visit : v # w => /\ outcome'[v] = outcome[v] /\ queue'[v] = queue[v]
          BY <3>2, <4>3 DEF WalkOn, Walking, Passes, WTypes, WalkerOn
        <5>2. path' = path
          BY <4>3 DEF Passes
        <5>3. PICK m \in Nat : order'[w] = order[w] + m
          BY <1>0, <4>1, <4>3, PassTakes DEF NetsInv
        <5>4. order' = [order EXCEPT ![w] = order'[w]]
          BY <1>0, <4>3 DEF Passes
        <5>5. order[w] + m \in Nat
          BY <1>0, <5>3
        <5>6. order' \in [Visit -> Nat]
          BY <1>0, <5>3, <5>4, <5>5
        <5>7. QED
          BY <1>0, <5>1, <5>2, <5>6
      <4>4. QED
        BY <4>1, <4>2, <4>3
    <3>3. QED
      BY <1>6, <3>1, <3>2
  <2>2. \A v \in Visit : v # w /\ outcome[v] = "open" => queue[v] = {}
    BY <1>2, <2>1 DEF Own
  <2>3. ASSUME outcome'[w] = "open", queue'[w] # {}
        PROVE  Queued(w, visited'[w], queue'[w], order'[w])
    <3>1. Built(net[w]) /\ order[w] \in Nat
      BY <1>0 DEF NetsInv
    <3>2. CASE Stand(w)
      <4>1. queue[w] = {} /\ visited'[w] = {} /\ order'[w] = order[w]
        BY <2>1, <3>2 DEF Stand, SearchInv
      <4>2. net[w].nodes # {} /\ queue'[w] = {[ids |-> <<Lowest(net[w].nodes)>>, g |-> 0, f |-> 0]}
        BY <2>3, <3>2, <4>1 DEF Stand, WTypes
      <4>3. Queued(w, {}, queue'[w], order[w])
        BY <3>1, <4>2, FirstPath
      <4>4. QED
        BY <4>1, <4>3
    <3>3. CASE WalkOn(w)
      <4>1. PICK o \in queue[w] : IsTop(o, queue[w]) /\ (Reaches(w, o) \/ Passes(w, o))
        BY <3>3 DEF WalkOn
      <4>2. outcome'[w] # "reached"
        BY <2>3
      <4>3. Passes(w, o)
        BY <4>1, <4>2 DEF Reaches, WTypes
      <4>4. Queued(w, visited[w], queue[w], order[w])
        BY <2>1, <4>1 DEF ShortInv
      <4>5. QED
        BY <1>0, <4>1, <4>3, <4>4, PassGoesOn
    <3>4. QED
      BY <1>6, <3>2, <3>3
  <2>4. ASSUME outcome'[w] = "open", queue'[w] # {}
        PROVE  Queued(w, visited[w], queue[w], order[w])'
    BY <2>1, <2>3, <2>4 DEF Queued, Selects
  <2>5. ASSUME NEW v \in Visit, outcome'[v] = "open", queue'[v] # {}
        PROVE  v = w
    BY <2>1, <2>2, <2>5
  <2>6. QED
    BY <2>1, <2>4, <2>5 DEF ShortInv
<1>7. ASSUME OpenWalker(Fresh) \/ (\E w \in DOMAIN plan : Open(w, Fresh)), UNCHANGED <<plan, walks>>
      PROVE  ShortInv'
  <2>1. /\ phase = "app" /\ UNCHANGED <<outcome, queue, order, path>>
    BY <1>7 DEF OpenWalker, Open, WTypes, walks
  <2>2. \A v \in Visit : outcome[v] = "open" => queue[v] = {}
    BY <1>2, <2>1
  <2>3. QED
    BY <1>0, <2>1, <2>2 DEF ShortInv
<1>8. ASSUME Between
      PROVE  ShortInv'
  <2>1. UNCHANGED <<outcome, queue, order, path>>
    BY <1>8 DEF Between, walks
  <2>2. \A v \in Visit : outcome[v] = "open" => queue[v] = {}
    BY <1>2, <1>8 DEF Between, StartRun, NextPass, EndRun, Reap, Resume, AtEntry
  <2>3. QED
    BY <1>0, <2>1, <2>2 DEF ShortInv
<1>9. CASE \E w \in Visit : LoadBatch(w) \/ Stand(w) \/ WalkOn(w)
  BY <1>4, <1>6, <1>9
<1>10. CASE \E w \in Visit : LoadEnds(w) /\ UNCHANGED <<plan, walks>>
  BY <1>4, <1>10
<1>11. CASE \E w \in Visit : Selects(w, {"any"}) /\ Walk(w) /\ UNCHANGED <<plan, walks>>
  BY <1>5, <1>11
<1>12. CASE /\ OpenWalker(Fresh) \/ \E w \in DOMAIN plan : Open(w, Fresh)
            /\ UNCHANGED <<plan, walks>>
  BY <1>7, <1>12
<1>13. QED
  BY <1>1, <1>8, <1>9, <1>10, <1>11, <1>12, WCases

\* The path a walk comes back with is a shortest one.
Shortest(v) ==
  LET routes == RoutesTo(net[v], Target)  p == path'[v] IN
  /\ p \in routes
  /\ Selects(v, {"a star"}) => \A r \in routes : Cost(net[v], p) <= Cost(net[v], r)
  /\ Selects(v, {"breadth first"}) /\ order[v] < OrderMod => \A r \in routes : Len(p) <= Len(r)

LEMMA ReachedIsShortest ==
  ASSUME HeightsFit, IInv, WTypes, NetsInv, NetsSound, Own, SearchInv, ShortInv, [WNext]_wvars,
         NEW v \in Visit, outcome[v] = "open", outcome'[v] = "reached",
         Selects(v, {"a star", "breadth first"})
  PROVE  Shortest(v)
<1>1. WalkOn(v)
  <2>1. ASSUME NEW w \in Visit, w # v, Stand(w) \/ WalkOn(w)
        PROVE  outcome'[v] = outcome[v]
    BY <2>1 DEF Stand, WalkOn, Reaches, Passes, WTypes
  <2>2. ASSUME NEW w \in Visit, Selects(w, {"any"}), Walk(w)
        PROVE  outcome'[v] = outcome[v]
    <3>1. w # v
      BY <2>2 DEF Selects
    <3>2. QED
      BY <2>2, <3>1 DEF Walk, Turn, WTypes
  <2>3. ASSUME NEW w, LoadBatch(w) \/ LoadEnds(w) \/ OpenWalker(Fresh) \/ Between \/ Open(w, Fresh)
        PROVE  outcome' = outcome
    BY <2>3 DEF LoadBatch, Load, LoadEnds, OpenWalker, Between, Open
  <2>4. UNCHANGED wvars => outcome' = outcome
    BY DEF wvars, nvars
  <2>5. Stand(v) => outcome'[v] # "reached"
    BY DEF Stand, WTypes
  <2>6. QED
    BY <2>1, <2>2, <2>3, <2>4, <2>5, WCases
<1>2. PICK o \in queue[v] : IsTop(o, queue[v]) /\ (Reaches(v, o) \/ Passes(v, o))
  BY <1>1 DEF WalkOn
<1>3. Last(o.ids) = Target /\ path'[v] = o.ids
  <2>1. ~Passes(v, o)
    BY DEF Passes, WTypes
  <2>2. Reaches(v, o)
    BY <1>2, <2>1
  <2>3. QED
    BY <2>2 DEF Reaches, ShortInv
<1> DEFINE g == net[v]
           V == visited[v]
           Q == queue[v]
<1>4. Built(g) /\ Target \notin V /\ Queued(v, V, Q, order[v])
  BY <1>2 DEF NetsInv, SearchInv, SearchOf, Explored, ShortInv
<1>5. Ways(g, V, Q)
  BY <1>4 DEF Queued
<1>6. path'[v] \in RoutesTo(g, Target)
  <2>1. WayOver(g, V, o.ids)
    BY <1>2, <1>5 DEF Ways
  <2>2. o.ids \in Trips(g)
    BY <2>1, WayIsTrip
  <2>3. QED
    BY <1>3, <2>2 DEF RoutesTo, Trips
<1>7. ASSUME Selects(v, {"a star"}), NEW r \in RoutesTo(g, Target)
      PROVE  Cost(g, path'[v]) <= Cost(g, r)
  <2>1. AStarQueue(g, V, Q)
    BY <1>4, <1>7 DEF Queued
  <2>2. Fits(g, LengthsOf(g), Heights)
    BY <1>7, NetFits
  <2> HIDE DEF g, V, Q
  <2>3. IsTop(o, Q) /\ r \in RoutesTo(g, Target)
    BY <1>2, <1>7 DEF Q
  <2>4. Cost(g, o.ids) <= Cost(g, r)
    BY <1>3, <1>4, <1>5, <2>1, <2>2, <2>3, AStarReaches
  <2>5. QED
    BY <1>3, <2>4
<1>8. ASSUME Selects(v, {"breadth first"}), order[v] < OrderMod, NEW r \in RoutesTo(g, Target)
      PROVE  Len(path'[v]) <= Len(r)
  <2>1. BreadthQueue(g, V, Q, order[v])
    BY <1>4, <1>8 DEF Queued
  <2> HIDE DEF g, V, Q
  <2>2. IsTop(o, Q)
    BY <1>2 DEF Q
  <2>3. Len(o.ids) <= Len(r)
    BY <1>3, <1>4, <1>5, <1>8, <2>1, <2>2, BreadthReaches
  <2>4. QED
    BY <1>3, <2>3
<1>9. QED
  BY <1>6, <1>7, <1>8 DEF Shortest

\* The path a walk comes back with leads from the first node to the target and no
\* other is shorter for A*, none has fewer edges for the breadth-first walk as long
\* as its uint16_t does not overflow, though nodes are marked when they leave the
\* queue and ties are broken either way (AStarWalk.h:42-77, BSFWalk.h:8-13).  For
\* every plan whose edges are no shorter than the guesses at their ends differ.
THEOREM PathsFoundAreShortest == ASSUME HeightsFit PROVE WSpec => PathsAreShortest
<1> DEFINE I == IInv /\ WTypes /\ NetsInv /\ Own /\ FirstTurn /\ SearchInv /\ NetsSound /\ ShortInv
           Found == \A v \in Visit :
             outcome[v] = "open" /\ outcome'[v] = "reached" /\ Selects(v, {"a star", "breadth first"})
               => Shortest(v)
<1>1. WInit => NetsInv /\ Own /\ FirstTurn /\ SearchInv /\ NetsSound /\ ShortInv
  BY NetsInit, OwnInit, SearchInit, SoundInit, ShortInit
<1>2. IInv /\ WTypes /\ (NetsInv /\ Own /\ FirstTurn /\ SearchInv /\ NetsSound /\ ShortInv) /\ [WNext]_wvars
        => (NetsInv /\ Own /\ FirstTurn /\ SearchInv /\ NetsSound /\ ShortInv)'
  BY NetsStep, OwnStep, FirstTurnStep, SearchStep, SoundStep, ShortStep
<1>3. I /\ [WNext]_wvars => [Found]_wvars
  BY ReachedIsShortest
<1>4. WSpec => []I
  BY <1>1, <1>2, WInvariance, PTL DEF WSpec
<1> HIDE DEF I
<1>5. WSpec => [][Found]_wvars
  BY <1>3, <1>4, PTL DEF WSpec
<1>6. QED
  BY <1>5 DEF PathsAreShortest, Shortest
===============================================================================
