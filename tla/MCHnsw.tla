-------------------------------- MODULE MCHnsw --------------------------------
(****************************************************************************)
(* Instance of Hnsw: the vectors are points of a line, some of them equally *)
(* far from another, so that ties are met.                                  *)
(****************************************************************************)
EXTENDS Hnsw

MCPos == <<0, 1, 2, 4, 5>>

Sqr(x) == x * x

MCDist == [n \in Node |-> [m \in Node |-> Sqr(MCPos[n] - MCPos[m])]]

MCInfo == 0..25 \cup {Null}
===============================================================================
