---------------------------- MODULE MCStatements ----------------------------
(* Two classes of vertices and a class of edges between them; one index.    *)
EXTENDS Statements, TLC

CONSTANTS Person, Movie, Rates, Title

\* Values are only compared for equality.
SymmetricValues == Permutations(Value)

MCRelation == [c \in EClass |-> <<Person, Movie>>]
MCIndexes == << <<Person, Title>> >>
MCDeclared == {[from |-> 11, directed |-> TRUE, to |-> 1],
               [from |-> 11, directed |-> FALSE, to |-> 12],
               [from |-> 1, directed |-> TRUE, to |-> 11]}
=============================================================================
