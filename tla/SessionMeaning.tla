--------------------------- MODULE SessionMeaning ---------------------------
(***************************************************************************)
(* What the verdicts and class relations of module Session mean: the       *)
(* ontologies are compiled by module Conversion, and the results are       *)
(* compared with the models of the axioms as they are written.             *)
(***************************************************************************)
EXTENDS Session, Conversion, Semantics

CONSTANTS
    Names,         \* the class and individual expressions of the ontologies
    Properties,    \* their object properties
    Reference(_)   \* for each ontology, a set of interpretations of both

\* The axioms the compiler did not have to ignore.
IndexedAxioms == {x \in ont : AxiomUnsupported(x) = <<>>}

IsModel(I) == \A x \in IndexedAxioms : Satisfies(I, x)

\* The reference interpretations in which every axiom holds.
Models ==
    LET axioms == IndexedAxioms
    IN  {I \in Reference(ont) : \A x \in axioms : Satisfies(I, x)}

\* The verdict is the truth: an inconsistent ontology has no model, and the saturated
\* consistency roots of a consistent one are a model in which every individual exists.
VerdictIsRight ==
    /\ (call = Idle /\ consistency = "inconsistent") => Models = {}
    /\ (call = Idle /\ consistency = "consistent") =>
        LET I == Canonical(Derived(k, ConsistencyRoots), Names, Properties, Told(k.rows))
        IN  /\ IsModel(I)
            /\ \A x \in ConsistencyRoots : x \in Denotes(I, x)

\* A pair of classes is in the reflexive-transitive closure of the class edges exactly if
\* it holds in all models: each pair in it holds in the reference models, and each pair
\* that is not fails in the model the saturated classes form.
TaxonomyIsRight ==
    (call = Idle /\ stage >= CLASSIFIED /\ consistency = "consistent") =>
        LET members == Roots("class")
            order == Preorder(ClassEdges(facts), members)
            I == Canonical(Derived(k, members), Names, Properties, Told(k.rows))
        IN  /\ \A M \in Models : \A e \in order : Denotes(M, e[1]) \subseteq Denotes(M, e[2])
            /\ IsModel(I)
            /\ \A e \in (members \X members) \ order : ~(Denotes(I, e[1]) \subseteq Denotes(I, e[2]))

=============================================================================
