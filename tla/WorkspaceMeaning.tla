-------------------------- MODULE WorkspaceMeaning --------------------------
(***************************************************************************)
(* What the runs of module Workspace mean: the ontologies are compiled by  *)
(* module Conversion, and the models are those of the axioms as they are   *)
(* written.                                                                *)
(***************************************************************************)
EXTENDS WorkspaceModels, Conversion, Semantics

CONSTANTS
    Names,         \* the class and individual expressions of the ontologies
    Properties,    \* their object properties
    Reference(_)   \* for each ontology, a set of interpretations of both

\* The axioms of o the compiler does not have to ignore.
IndexedIn(o) == {a \in o : AxiomUnsupported(a) = <<>>}

\* The reference interpretations that satisfy every indexed axiom of the ontology, as
\* interpretations of its tables.  That they are models of the tables (ModelsAssumption)
\* says that compilation adds no consequences.
AxiomModels(o) ==
    LET rows == Compiled(o)
        expressions == {row[2] : row \in {q \in rows : q[1] = "expr"}} \cup UNION Requests(o)
        chains == Chains(rows)
    IN  {[domain |-> I.domain,
          ext |-> [x \in expressions |-> Denotes(I, x)],
          rel |-> [h \in chains |-> ChainRelation(I, h)]] :
            I \in {J \in Reference(o) : \A a \in IndexedIn(o) : Satisfies(J, a)}}

\* The consistent contexts of a drained run form a model of the ontology as written, in
\* which each root belongs to itself: what a context does not list is not entailed.
Complete ==
    Quiescent =>
        LET I == Canonical(accepted, Names, Properties, Told(k.rows))
        IN  /\ \A a \in IndexedIn(ont) : Satisfies(I, a)
            /\ \A d \in I.domain : d \in Denotes(I, d)

=============================================================================
