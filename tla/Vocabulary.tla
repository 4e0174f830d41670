----------------------------- MODULE Vocabulary -----------------------------
(***************************************************************************)
(* The vocabulary that indexing and the inference rules share.             *)
(*                                                                         *)
(* An expression is a tuple that starts with its constructor.  Interning   *)
(* makes structurally equal expressions one row, so an indexed expression  *)
(* IS its structure and expression IDs disappear.  The compiled ontology   *)
(* is the set of the rows of its tables, each row tagged with its table:   *)
(*   <<"expr", x>>                 the expression table                    *)
(*   <<"neg", x>>, <<"pos", x>>    a nonzero occurrence counter of x       *)
(*   <<"property", r>>             an object property of the entity table  *)
(*   <<"subclass", x, y>>, <<"equivalent", x, y>>, <<"disjoint", group>>,  *)
(*   <<"subproperty", chain, r>>, <<"range", r, x>>                        *)
(*   <<"feature", f>>              a nonzero feature counter               *)
(***************************************************************************)
EXTENDS Sequences, FiniteSets

Thing == <<"class", "owl:Thing">>
Nothing == <<"class", "owl:Nothing">>

\* _validate_expressions: the operands of an expression are in the table.
ValidOperands(rows, x) ==
    /\ x[1] = "and" => {<<"expr", x[2][1]>>, <<"expr", x[2][2]>>} \subseteq rows
    /\ x[1] = "some" => <<"expr", x[3]>> \in rows
    /\ x[1] = "or" => \A i \in DOMAIN x[2] : <<"expr", x[2][i]>> \in rows
    /\ x[1] = "not" => x = <<"not", x[2]>> /\ <<"expr", x[2]>> \in rows

\* CompiledOntology.__post_init__, as far as it is about references between the tables:
\* every expression a row mentions is in the expression table, and a chain is a nonempty
\* sequence of object properties.
WellFormed(rows) ==
    /\ IsFiniteSet(rows)
    /\ \A row \in rows :
        /\ row[1] = "expr" => ValidOperands(rows, row[2])
        /\ row[1] \in {"neg", "pos"} => <<"expr", row[2]>> \in rows
        /\ row[1] \in {"subclass", "equivalent"} =>
            {<<"expr", row[2]>>, <<"expr", row[3]>>} \subseteq rows
        /\ row[1] = "range" => <<"expr", row[3]>> \in rows
        /\ row[1] = "disjoint" => \A i \in DOMAIN row[2] : <<"expr", row[2][i]>> \in rows
        /\ row[1] = "disjoint" => IsFiniteSet(DOMAIN row[2])
        /\ row[1] = "subproperty" =>
            row[2] # <<>> /\ row[2] \in Seq({q[2] : q \in {p \in rows : p[1] = "property"}})

=============================================================================
