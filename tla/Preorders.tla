----------------------------- MODULE Preorders -----------------------------
(* Relations as sets of pairs. *)
EXTENDS Naturals, FiniteSets

Compose(P, Q) == {<<p[1][1], p[2][2]>> : p \in {q \in P \X Q : q[1][2] = q[2][1]}}

\* The reflexive-transitive closure of a set of pairs over S.
Preorder(E, S) ==
    LET doubled[n \in Nat] ==
            IF n = 0 THEN E \cup {<<x, x>> : x \in S}
            ELSE LET half == doubled[n - 1] IN Compose(half, half)
    IN  doubled[Cardinality(S)]

=============================================================================
