-------------------------- MODULE WorkspaceModels --------------------------
(***************************************************************************)
(* The conclusions of module Workspace against the models of the tables.   *)
(***************************************************************************)
EXTENDS Workspace, TableMeaning

CONSTANT Models(_)   \* for each ontology, a set of models of its tables

\* They are models of the tables, and interpret every root that may be asked for.
ASSUME ModelsAssumption ==
    \A o \in Ontologies : LET rows == Compiled(o)
                          IN  \A I \in Models(o) : ModelOf(I, rows, UNION Requests(o))

\* Without ranges every accepted conclusion, links and propagations included, holds in
\* every model: no rule adds consequences.
Sound ==
    (Quiescent /\ Table(k, "range") = {}) =>
        \A I \in Models(ont) : \A c \in accepted : Holds(I, c)

\* "Isolated engines retain the correct root consequence": the subsumers of a root that
\* was saturated alone, and its inconsistency, hold in every model.
RootConsequenceIsSound ==
    \A d \in DOMAIN cache : \A I \in Models(ont) :
        /\ \A x \in Subsumers(cache[d], d) : I.ext[d] \subseteq I.ext[x]
        /\ Contradictory(cache[d], d) => I.ext[d] = {}

=============================================================================
