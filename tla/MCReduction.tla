---------------------------- MODULE MCReduction ----------------------------
(***************************************************************************)
(* Small graphs for module Reduction.                                      *)
(***************************************************************************)
EXTENDS Reduction

CONSTANT MaxEdges

Calls == {"quotient_and_reduce", "transitive_reduction"}

\* Every relation on three members, self edges included.
ThreeMembers == [call : Calls, members : {{0, 1, 2}}, edges : SUBSET ({0, 1, 2} \X {0, 1, 2})]

\* Sparse relations on four members.
FourMembers ==
    LET M == {0, 1, 2, 3}
    IN  [call : Calls, members : {M},
         edges : UNION {kSubset(n, {p \in M \X M : p[1] # p[2]}) : n \in 0 .. MaxEdges}]

\* All but at most one of the edges of the total order on six members, in an order of the
\* members that is not that of their IDs: more than two edges per node.
SixMembers ==
    LET sequence == <<3, 0, 5, 1, 4, 2>>
        chain == {<<sequence[p[1]], sequence[p[2]]>> : p \in {q \in (1 .. 6) \X (1 .. 6) : q[1] < q[2]}}
    IN  [call : {"transitive_reduction"}, members : {0 .. 5},
         edges : {chain} \cup {chain \ {e} : e \in chain}]

MCGraphs ==
    ThreeMembers \cup FourMembers \cup SixMembers
      \cup {[call |-> "quotient_and_reduce", members |-> {}, edges |-> {}]}

=============================================================================
