----------------------------- MODULE MCEdgeAnswers ----------------------------
(* Graphs for EdgeAnswers. *)
EXTENDS EdgeAnswers

\* Node 1 has edges in both directions and a loop: its fourth edge changes role.
\* The id of node 300 has the byte 0x2C.
Mixed == {<<1, 2>>, <<2, 1>>, <<3, 1>>, <<1, 1>>, <<300, 1>>}

\* Users who rate movies: every node keeps one role, and one on either side has
\* three edges.
Bipartite == {<<4, 11>>, <<4, 12>>, <<4, 13>>, <<5, 11>>, <<6, 11>>}

AllNodes == 1..6 \cup 11..13 \cup {300}
AllEdges == Mixed \cup Bipartite

\* The bytes 0x2C of an id of at most two bytes; the other bytes are 0.
CommasOf(n) == Cardinality({i \in 0..1 : (n \div 256^i) % 256 = 44})

\* An application stores one of the two graphs.  Of the first it updates edges too;
\* with two objects of it it may do anything, and with three it may make them again.
\* All that matters of the status of an object is whether it is new.
Proper == \A e \in DOMAIN obj : obj[e] # "PropertyChanged"

MCNext ==
  /\ RNext
  /\ \/ DOMAIN obj' \subseteq Bipartite /\ settled' /\ Orderly'
     \/ DOMAIN obj' \subseteq Mixed /\ Orderly' /\ Proper'
     \/ DOMAIN obj' \subseteq Mixed /\ Cardinality(DOMAIN obj') <= 2
     \/ DOMAIN obj' \subseteq {<<1, 2>>, <<2, 1>>, <<3, 1>>} /\ ~early' /\ Proper'

MCSpec == RInit /\ [][MCNext]_rvars

\* The graph of test/storage.cpp:182-196.
TestedNode == 1..4
Tested == {<<1, 2>>, <<1, 3>>, <<2, 3>>, <<2, 4>>}
===============================================================================
