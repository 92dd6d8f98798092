------------------------------- MODULE GraphStore -----------------------------
(***************************************************************************)
(* What a storage engine promises to one session after the other: a graph  *)
(* is a set of entries, a session works on its own view of one graph, and  *)
(* what it did is saved as a whole or not at all when it ends.             *)
(***************************************************************************)
CONSTANTS Graph, Place, Value, Empty, NoGraph

VARIABLES
  stored,   (* the saved entries of each graph: place -> value              *)
  opened,   (* the graph of the session, NoGraph between sessions           *)
  view,     (* the entries as the session sees them                         *)
  reply     (* the last answer: operation, place, result                    *)

Nothing == [p \in {} |-> Empty]
Answer(op, p, res) == [op |-> op, at |-> p, result |-> res]

Init ==
  /\ stored = [g \in Graph |-> Nothing]
  /\ opened = NoGraph /\ view = Nothing
  /\ reply = Answer("none", NoGraph, "ok")

Open(g) ==
  /\ opened = NoGraph
  /\ opened' = g /\ view' = stored[g]
  /\ reply' = Answer("open", g, "ok") /\ UNCHANGED stored

Write(p, v) ==
  /\ opened # NoGraph
  /\ \/ /\ view' = [q \in DOMAIN view \cup {p} |-> IF q = p THEN v ELSE view[q]]
        /\ reply' = Answer("write", p, "ok")
     \/ UNCHANGED view /\ reply' = Answer("write", p, "fail")
  /\ UNCHANGED <<stored, opened>>

\* A write of nothing is no write.
WriteNothing(p) ==
  /\ opened # NoGraph
  /\ reply' = Answer("write nothing", p, "ok")
  /\ UNCHANGED <<stored, opened, view>>

\* An entry with an empty value reads as if it did not exist. What is saved may
\* be out of reach, when a session has opened as many maps as it can.
Read(p) ==
  /\ opened # NoGraph
  /\ \/ reply' = Answer("read", p, IF p \in DOMAIN view /\ view[p] # Empty THEN view[p]
                                   ELSE "absent")
     \/ reply' = Answer("read", p, "error")
  /\ UNCHANGED <<stored, opened, view>>

Delete(p) ==
  /\ opened # NoGraph
  /\ IF p \in DOMAIN view
     THEN \/ /\ view' = [q \in DOMAIN view \ {p} |-> view[q]]
             /\ reply' = Answer("del", p, "ok")
          \/ UNCHANGED view /\ reply' = Answer("del", p, "error")
     ELSE /\ UNCHANGED view
          /\ \E r \in {"fail", "error"} : reply' = Answer("del", p, r)
  /\ UNCHANGED <<stored, opened>>

\* Everything is saved or, in a crash or when the disk fails, nothing is.
End ==
  /\ opened # NoGraph
  /\ \/ /\ stored' = [stored EXCEPT ![opened] = view]
        /\ reply' = Answer("close", opened, "saved")
     \/ UNCHANGED stored /\ reply' = Answer("close", opened, "lost")
  /\ opened' = NoGraph /\ view' = Nothing

Next ==
  \/ \E g \in Graph : Open(g)
  \/ \E p \in Place : (\E v \in Value : Write(p, v)) \/ WriteNothing(p) \/ Read(p) \/ Delete(p)
  \/ End

Spec == Init /\ [][Next]_<<stored, opened, view, reply>>
===============================================================================
