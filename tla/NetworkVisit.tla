----------------------------- MODULE NetworkVisit -----------------------------
(***************************************************************************)
(* GVirtualNetwork::visit (include/VirtualNetwork.h:75-91) on Scheduler.   *)
(* A visit adds two coroutines: one loads batches of data until there are  *)
(* none, the other walks the network and, while the walk asks for data     *)
(* that is not there (WR_Preload), waits for its next turn.  _visitFinish  *)
(* of the network tells the walker that nothing more will come.            *)
(***************************************************************************)
EXTENDS Scheduler

CONSTANTS
  Visit,     (* the calls of visit                                          *)
  Net,       (* networks that share the scheduler                           *)
  NetOf,     (* the network of a visit                                      *)
  MaxLoads   (* bound on the batches of one loader                          *)

ASSUME VisitAssumption == NetOf \in [Visit -> Net] /\ MaxLoads \in Nat
ASSUME NoVisitAssumption == Nobody \notin Visit

VARIABLES
  finish,    (* _visitFinish of each network                                *)
  opening,   (* the visit between its two calls of addCoroutine             *)
  loader,    (* the loader coroutine of a visit, Nobody before              *)
  walker,    (* the walker coroutine of a visit, Nobody before              *)
  loaded,    (* batches loaded for a visit                                  *)
  loading,   (* the loader of the visit has not come to its end             *)
  seen,      (* what was loaded at the last call of walk                    *)
  outcome    (* how the walk ended, "open" before                           *)

nvars == <<vars, finish, opening, loader, walker, loaded, loading, seen, outcome>>

NInit ==
  /\ Init
  /\ finish = [n \in Net |-> FALSE] /\ opening = Nobody
  /\ loader = [v \in Visit |-> Nobody] /\ walker = [v \in Visit |-> Nobody]
  /\ loaded = [v \in Visit |-> 0] /\ loading = [v \in Visit |-> TRUE]
  /\ seen = [v \in Visit |-> 0] /\ outcome = [v \in Visit |-> "open"]

\* visit, first addCoroutine.
Open(v, o) ==
  /\ phase = "app" /\ opening = Nobody /\ loader[v] = Nobody
  /\ AddCoroutine(o)
  /\ opening' = v
  /\ loader' = [loader EXCEPT ![v] = o]
  /\ UNCHANGED <<finish, walker, loaded, loading, seen, outcome>>

\* visit, second addCoroutine.
OpenWalker(o) ==
  /\ opening # Nobody
  /\ AddCoroutine(o)
  /\ walker' = [walker EXCEPT ![opening] = o]
  /\ opening' = Nobody
  /\ UNCHANGED <<finish, loader, loaded, loading, seen, outcome>>

\* while (loader.load()) co->yield();
Load(v) ==
  /\ active = loader[v] /\ loading[v] /\ loaded[v] < MaxLoads
  /\ loaded' = [loaded EXCEPT ![v] = @ + 1]
  /\ Yield
  /\ UNCHANGED <<finish, opening, loader, walker, loading, seen, outcome>>

\* Faulty variant: the loader ends without a word.
SilentEnd(n) == UNCHANGED finish

\* Faulty variant: one flag for every network.
FinishedAll(n) == finish' = [m \in Net |-> TRUE]

\* isFinish = true;
Finished(n) == finish' = [finish EXCEPT ![n] = TRUE]

LoadEnds(v) ==
  /\ active = loader[v] /\ loading[v]
  /\ loading' = [loading EXCEPT ![v] = FALSE]
  /\ Finished(NetOf[v])
  /\ Return
  /\ UNCHANGED <<opening, loader, walker, loaded, seen, outcome>>

\* while (walk() & WR_Preload) { if (isFinish) break; co->yield(); }
\* Whether walk asks for more data is the selector's choice.
Turn(v) ==
  /\ seen' = [seen EXCEPT ![v] = loaded[v]]
  /\ \/ outcome' = [outcome EXCEPT ![v] = "reached"] /\ Return
     \/ /\ finish[NetOf[v]]
        /\ outcome' = [outcome EXCEPT ![v] = "no more data"] /\ Return
     \/ ~finish[NetOf[v]] /\ Yield /\ UNCHANGED outcome

Walk(v) ==
  /\ active = walker[v] /\ outcome[v] = "open"
  /\ Turn(v)
  /\ UNCHANGED <<finish, opening, loader, walker, loaded, loading>>

-------------------------------------------------------------------------------
(* A walk that gives up for want of data has walked once more over all the   *)
(* data its loader brought: the flag is read in the turn of that walk, and   *)
(* the turns of the two coroutines do not overlap                            *)
(* (include/VirtualNetwork.h:77-90).                                         *)
GivesUpOnAllData ==
  \A v \in Visit : outcome[v] = "no more data" => ~loading[v] /\ seen[v] = loaded[v]
===============================================================================
