------------------------------ MODULE Answers ------------------------------
(***************************************************************************)
(* PythonBackendSession: what the calls of one backend session answer, and *)
(* what they leave in its caches.  A call first brings the session of      *)
(* module Session to the stage it needs, in one step, and then builds or   *)
(* selects its answer: the class and property taxonomies, realization,     *)
(* class queries and entailment queries.  Calls for a stage alone, and     *)
(* those that raise on the way to one, are taken step by step.             *)
(*                                                                         *)
(* A class stands for its entity and its expression, and a node is a set   *)
(* of classes: the numbering of entities, expressions and nodes, and the   *)
(* sorting of results, are left out.  The quotient of a relation and its   *)
(* covering pairs are what module Reduction shows they are.                *)
(***************************************************************************)
EXTENDS SessionMeaning, Completeness

CONSTANTS
    Queries(_),   \* for each ontology, the class queries: <<expression, kind, direct>>
    Entailed(_),  \* for each ontology, the axioms asked about
    Goals(_),     \* bound, for each ontology: the stages a call of its own asks for
    MaxAnswers(_) \* bound, for each ontology: the queries answered by one session

VARIABLES
    taxonomy,          \* _class_taxonomy: <<>>, or the value cached
    propertyTaxonomy,  \* _object_taxonomy
    realized,          \* _realization
    evaluations,       \* ClassQueryEngine._evaluation_cache: query -> evaluation
    results,           \* ClassQueryEngine._result_cache: <<query, kind, direct>> -> result
    decided            \* EntailmentEngine._cache: axiom -> BOOLEAN

caches == <<taxonomy, propertyTaxonomy, realized, evaluations, results, decided>>
session == <<stage, facts, consistency>>

\* The mini-IR of an unsupported query, as a query and as an axiom.
Unindexed == <<"unindexed">>

Extended(f, x, y) == [z \in DOMAIN f \cup {x} |-> IF z = x THEN y ELSE f[z]]

\* One member of a node, node[0] in the code.
Representative(node) == CHOOSE x \in node : TRUE

(***************************************************************************)
(* Taxonomies                                                              *)
(***************************************************************************)

\* _from_relation and quotient_and_reduce.  `above` is what _strict_super_closure finds
\* along the direct edges.
FromRelation(members, edges, top, bottom) ==
    LET order == Preorder(edges, members)
        node(x) == {y \in members : <<x, y>> \in order /\ <<y, x>> \in order}
        above == {<<node(e[1]), node(e[2])>> : e \in order}
        strict == {e \in above : e[1] # e[2]}
    IN  [nodes |-> {node(x) : x \in members},
         above |-> strict,
         direct |-> strict \ Compose(strict, strict),
         top |-> node(top),
         bottom |-> node(bottom)]

\* _collapsed_taxonomy
Collapsed(members) ==
    [nodes |-> {members}, above |-> {}, direct |-> {}, top |-> members, bottom |-> members]

\* build_class_taxonomy, from the facts and the verdict of the session
BuildClassTaxonomy(C, verdict) ==
    IF verdict = "inconsistent" THEN Collapsed(Roots("class"))
    ELSE FromRelation(Roots("class"), ClassEdges(C), Thing, Nothing)

TopProperty == "owl:topObjectProperty"
BottomProperty == "owl:bottomObjectProperty"

\* The edges of build_object_property_taxonomy: the inclusions between single properties.
PropertyEdges ==
    LET members == ObjectProperties(k.rows)
    IN  {<<BottomProperty, r>> : r \in members}
          \cup {<<r, TopProperty>> : r \in members}
          \cup {<<e[1][1], e[2][1]>> : e \in {q \in k.sub : Len(q[1]) = 1 /\ Len(q[2]) = 1}}

\* build_object_property_taxonomy
BuildPropertyTaxonomy(verdict) ==
    IF verdict = "inconsistent" THEN Collapsed(ObjectProperties(k.rows))
    ELSE FromRelation(ObjectProperties(k.rows), PropertyEdges, TopProperty, BottomProperty)

\* _relative_indices and _taxonomy_relatives, not direct: the nodes strictly above, or
\* strictly below, a node
Relatives(T, node, supers) ==
    IF supers THEN {e[2] : e \in {q \in T.above : q[1] = node}}
    ELSE {e[1] : e \in {q \in T.above : q[2] = node}}

\* taxonomy_super_nodes and taxonomy_sub_nodes of a named class or property.  One that the
\* ontology does not have is a fresh entity between bottom and top.
NamedRelatives(T, x, supers, direct) ==
    IF x \notin UNION T.nodes THEN {IF supers THEN T.top ELSE T.bottom}
    ELSE LET node == CHOOSE n \in T.nodes : x \in n
             next == IF supers THEN {e[2] : e \in {q \in T.direct : q[1] = node}}
                     ELSE {e[1] : e \in {q \in T.direct : q[2] = node}}
         IN  IF direct THEN next ELSE Relatives(T, node, supers)

\* taxonomy_equivalent_node
NamedEquivalents(T, x) ==
    IF x \notin UNION T.nodes THEN {x} ELSE CHOOSE n \in T.nodes : x \in n

(***************************************************************************)
(* Realization                                                             *)
(***************************************************************************)

\* _minimal_nodes
MinimalNodes(T, nodes) ==
    {n \in nodes : \A m \in nodes \ {n} : <<m, n>> \notin T.above}

\* Mutant of DirectTypes: a type above another one is kept.
DirectTypesOfAll(C, T, node) ==
    LET subsumers == UNION {Subsumers(ContextOf(C, d), d) : d \in node}
    IN  ({T.top} \cup {n \in T.nodes : n \cap subsumers # {}}) \ {T.bottom}

\* The minimal class nodes among the subsumers of the members of an instance node.
DirectTypes(C, T, node) ==
    LET subsumers == UNION {Subsumers(ContextOf(C, d), d) : d \in node}
        candidates == ({T.top} \cup {n \in T.nodes : n \cap subsumers # {}}) \ {T.bottom}
        direct == MinimalNodes(T, candidates)
    IN  IF direct = {} THEN {T.top} ELSE direct

\* build_realization: individuals that subsume each other are merged, then typed.
BuildRealization(C, verdict, T) ==
    LET individuals == Roots("individual")
        same == {p \in individuals \X individuals :
                    /\ p[2] \in Subsumers(ContextOf(C, p[1]), p[1])
                    /\ p[1] \in Subsumers(ContextOf(C, p[2]), p[2])}
        merged == Preorder(same, individuals)
        nodes == {{y \in individuals : <<x, y>> \in merged} : x \in individuals}
    IN  IF verdict = "inconsistent"
        THEN [nodes |-> {individuals} \ {{}},
              types |-> {<<n, T.top>> : n \in {individuals} \ {{}}}]
        ELSE [nodes |-> nodes,
              types |-> UNION {{<<n, m>> : m \in DirectTypes(C, T, n)} : n \in nodes}]

\* direct_type_indices
TypesOf(R, node) == {e[2] : e \in {q \in R.types : q[1] = node}}

\* types of a named individual; a fresh one is only a thing.
NamedTypes(T, R, x, direct) ==
    IF x \notin UNION R.nodes THEN {T.top}
    ELSE LET next == TypesOf(R, CHOOSE n \in R.nodes : x \in n)
         IN  IF direct THEN next ELSE next \cup UNION {Relatives(T, n, TRUE) : n \in next}

\* instances of a named class
NamedInstances(T, R, x, direct) ==
    LET node == CHOOSE n \in T.nodes : x \in n
        below == IF direct THEN {node} ELSE {node} \cup Relatives(T, node, FALSE)
    IN  {e[1] : e \in {q \in R.types : q[2] \in below}}

(***************************************************************************)
(* Class queries                                                           *)
(***************************************************************************)

\* compile_query_expression: the query is indexed at both polarities.
QueryRows(x) == ExpressionRows(x, DUAL)

\* The canonical mini-IR of a query.
Encoded(x) == IF Unsupported(x) = <<>> THEN Indexed(x) ELSE Unindexed

\* _install_query and _evaluate_query: the rows of the query are added to those of the
\* ontology, whose own features it keeps; nothing is saturated yet.
Evaluation(x) ==
    [root |-> Indexed(x),
     k |-> Saturated(k.rows \cup {row \in QueryRows(x) : row[1] # "feature"}),
     fresh |-> {row[2] : row \in {q \in QueryRows(x) : q[1] = "expr" /\ q[2][1] = "class"}}
                 \ Roots("class"),
     contexts |-> {}]

\* Mutant of EnsureContexts: an evaluation that has contexts is taken to have them all.
EnsureContextsOnce(e, roots) ==
    IF e.contexts # {} THEN e
    ELSE [e EXCEPT !.contexts = ClosureOf(e.k, {Initialization(d) : d \in roots})]

\* _ensure_contexts: the contexts that are missing are saturated in the engine of the
\* evaluation, or, with ranges, each in one of its own.
EnsureContexts(e, roots) ==
    LET missing == {d \in roots : Initialization(d) \notin e.contexts}
    IN  IF missing = {} THEN e
        ELSE IF Table(e.k, "range") # {}
        THEN [e EXCEPT !.contexts = @ \cup UNION {At(Derived(e.k, {d}), d) : d \in missing}]
        ELSE [e EXCEPT !.contexts = ClosureOf(e.k, @ \cup {Initialization(d) : d \in missing})]

\* The subsumers of the query, and whether the context of d has the query as one.
RootSubsumers(e) == Subsumers(e.contexts, e.root)
IsBelowRoot(e, d) == e.root \in Subsumers(e.contexts, d)

\* The taxonomy node of the query: none or one.
EquivalentNodes(e, T) ==
    IF Contradictory(e.contexts, e.root) THEN {T.bottom}
    ELSE {n \in T.nodes : Representative(n) \in RootSubsumers(e) /\ IsBelowRoot(e, Representative(n))}

\* The fresh classes equivalent to the query.
FreshEquivalents(e) == {x \in e.fresh : x \in RootSubsumers(e) /\ IsBelowRoot(e, x)}

\* The contexts the search for an equivalent node needs.
PrepareEquivalents(e, T) ==
    LET rooted == EnsureContexts(e, {e.root})
    IN  EnsureContexts(rooted, RootSubsumers(rooted)
            \cap ({Representative(n) : n \in T.nodes} \cup e.fresh))

\* The nodes above or below the query, fresh classes included.
Candidates(e, T, supers) ==
    LET equivalents == EquivalentNodes(e, T)
        known == CASE equivalents # {} -> UNION {Relatives(T, n, supers) : n \in equivalents}
                   [] equivalents = {} /\ supers ->
                        {T.top} \cup {n \in T.nodes : n \cap RootSubsumers(e) # {}}
                   [] OTHER ->
                        {T.bottom} \cup {n \in T.nodes : IsBelowRoot(e, Representative(n))}
    IN  known \cup {{x} : x \in {y \in e.fresh \ {e.root} :
                        IF supers THEN y \in RootSubsumers(e) ELSE IsBelowRoot(e, y)}}

\* _candidate_subsumes
CandidateSubsumes(e, T, sub, super) ==
    IF sub \in T.nodes /\ super \in T.nodes THEN <<sub, super>> \in T.above
    ELSE \/ sub = T.bottom
         \/ super = T.top
         \/ Contradictory(e.contexts, Representative(sub))
         \/ Representative(super) \in Subsumers(e.contexts, Representative(sub))

\* _direct_candidates
DirectCandidates(e, T, candidates, supers) ==
    {c \in candidates : \A o \in candidates \ {c} :
        ~(IF supers THEN CandidateSubsumes(e, T, o, c) ELSE CandidateSubsumes(e, T, c, o))}

\* The instance nodes of the query: through its taxonomy node if it has one.
SelectInstances(e, T, R, direct) ==
    LET equivalents == EquivalentNodes(e, T)
        matching == IF direct THEN equivalents
                    ELSE equivalents \cup UNION {Relatives(T, n, FALSE) : n \in equivalents}
        members == {n \in R.nodes : IsBelowRoot(e, Representative(n))}
        below == {T.bottom} \cup {m \in UNION {TypesOf(R, n) : n \in members} :
                                    IsBelowRoot(e, Representative(m))}
    IN  CASE equivalents # {} -> {n \in R.nodes : TypesOf(R, n) \cap matching # {}}
          [] equivalents = {} /\ direct -> {n \in members : TypesOf(R, n) \cap below = {}}
          [] OTHER -> members

Nodes(S) == [boolean |-> {}, nodes |-> S]
Boolean(b) == [boolean |-> {b}, nodes |-> {}]

\* The evaluation once every context the answer is read from is saturated.
Prepare(e, T, R, kind, direct) ==
    LET ready == PrepareEquivalents(e, T)
        listed == EnsureContexts(ready, Roots("individual"))
    IN  CASE kind = "SATISFIABLE" -> EnsureContexts(e, {e.root})
          [] kind = "SUBCLASSES" -> EnsureContexts(ready, Roots("class") \cup e.fresh)
          [] kind = "SUPERCLASSES" /\ direct /\ e.fresh # {} ->
                EnsureContexts(ready, {Representative(n) : n \in Candidates(ready, T, TRUE)})
          [] kind = "INSTANCES" /\ EquivalentNodes(ready, T) = {} ->
                IF direct THEN EnsureContexts(listed, {Representative(e2[2]) : e2 \in
                    {q \in R.types : IsBelowRoot(listed, Representative(q[1]))}})
                ELSE listed
          [] OTHER -> ready

\* _select_query, on the contexts Prepare has saturated
SelectQuery(e, T, R, kind, direct) ==
    CASE kind = "SATISFIABLE" -> Boolean(~Contradictory(e.contexts, e.root))
      [] kind = "EQUIVALENT_CLASSES" ->
            IF EquivalentNodes(e, T) # {} THEN Nodes(EquivalentNodes(e, T))
            ELSE Nodes({{Representative(F)} : F \in {FreshEquivalents(e)} \ {{}}})
      [] kind \in {"SUBCLASSES", "SUPERCLASSES"} ->
            LET supers == kind = "SUPERCLASSES"
                candidates == Candidates(e, T, supers)
            IN  Nodes(IF direct THEN DirectCandidates(e, T, candidates, supers) ELSE candidates)
      [] kind = "INSTANCES" -> Nodes(SelectInstances(e, T, R, direct))

\* _unindexed_result
UnindexedResult(T, kind, direct) ==
    CASE kind = "SATISFIABLE" -> Boolean(TRUE)
      [] kind = "SUBCLASSES" /\ direct -> Nodes({T.bottom})
      [] kind = "SUPERCLASSES" /\ direct -> Nodes({T.top})
      [] OTHER -> Nodes({})

\* _inconsistent_result
InconsistentResult(T, R, kind) ==
    CASE kind = "SATISFIABLE" -> Boolean(FALSE)
      [] kind = "EQUIVALENT_CLASSES" -> Nodes({T.top})
      [] kind = "INSTANCES" -> Nodes(R.nodes)
      [] OTHER -> Nodes({})

(***************************************************************************)
(* Entailment queries                                                      *)
(***************************************************************************)

\* Families whose members are nominals rather than class expressions.
NominalFamilies == {"ObjectPropertyAssertion", "DifferentIndividuals", "SameIndividual"}

\* Mutant of Obligations: the ring of equivalences is not closed.
OpenObligations(a) ==
    CASE a[1] \in {"SubClassOf", "ClassAssertion"} -> {<<a[2], a[3]>>}
      [] a[1] = "ObjectPropertyAssertion" -> {<<a[2], <<"some", a[3], a[4]>>>>}
      [] a[1] = "ObjectPropertyDomain" -> {<<<<"some", a[2], Thing>>, a[3]>>}
      [] a[1] \in {"DisjointClasses", "DifferentIndividuals"} ->
            {<<<<"and", <<a[2][p[1]], a[2][p[2]]>>>>, Nothing>> :
                p \in {q \in (DOMAIN a[2]) \X (DOMAIN a[2]) : q[1] < q[2]}}
      [] a[1] \in {"EquivalentClasses", "SameIndividual"} ->
            {<<a[2][i - 1], a[2][i]>> : i \in 2 .. Len(a[2])}
      [] OTHER -> {}

\* convert_entailment_obligations: the <<sub, super>> pairs the axiom comes down to.
Obligations(a) ==
    CASE a[1] \in {"SubClassOf", "ClassAssertion"} -> {<<a[2], a[3]>>}
      [] a[1] = "ObjectPropertyAssertion" -> {<<a[2], <<"some", a[3], a[4]>>>>}
      [] a[1] = "ObjectPropertyDomain" -> {<<<<"some", a[2], Thing>>, a[3]>>}
      [] a[1] \in {"DisjointClasses", "DifferentIndividuals"} ->
            {<<<<"and", <<a[2][p[1]], a[2][p[2]]>>>>, Nothing>> :
                p \in {q \in (DOMAIN a[2]) \X (DOMAIN a[2]) : q[1] < q[2]}}
      [] a[1] \in {"EquivalentClasses", "SameIndividual"} ->
            {<<a[2][IF i = 1 THEN Len(a[2]) ELSE i - 1], a[2][i]>> : i \in DOMAIN a[2]}
      [] OTHER -> {}

\* The rows of an entailment query: what is asked to be below is indexed positively, what
\* it is asked to be below of negatively.
ObligationRows(a) ==
    UNION {ExpressionRows(o[1], POSITIVE) \cup ExpressionRows(o[2], NEGATIVE) : o \in Obligations(a)}
      \cup {<<"feature", "OBJECT_ONE_OF">> : f \in {a[1]} \cap NominalFamilies}

\* compile_entailment_query: axioms of other families, or with an unsupported construct,
\* are not indexed.
EncodedAxiom(a) ==
    IF a[1] \in DOMAIN QUERY_FEATURE_BY_AXIOM \/ AxiomUnsupported(a) # <<>> THEN Unindexed ELSE a

\* EntailmentEngine.entails past its early returns: the ranges of the ontology are left out.
Decide(a) ==
    LET rows == {row \in k.rows : row[1] # "range"}
        overlay == Saturated(rows \cup {row \in ObligationRows(a) : row[1] # "feature"})
        roots == {Indexed(o[1]) : o \in Obligations(a)}
        C == Derived(overlay, roots)
    IN  \A o \in Obligations(a) :
            \/ Contradictory(C, Indexed(o[1]))
            \/ Indexed(o[2]) \in Subsumers(C, Indexed(o[1]))

(***************************************************************************)
(* The calls of a backend session                                          *)
(***************************************************************************)

\* ensure_consistency, ensure_classified and ensure_realized, up to the stage they are for.
Reach(goal) ==
    IF stage >= goal THEN UNCHANGED session
    ELSE /\ stage' = goal
         /\ facts' = ClosureOf(k, Seeded(Promised(goal)))
         /\ consistency' = Verdict(facts')

\* The queries one session has answered, which are bounded.
Given == Cardinality(DOMAIN results) + Cardinality(DOMAIN decided) + Len(propertyTaxonomy)

\* A bound: the caches have nothing in common, nor have the evaluations of different
\* expressions, so one session fills one of the caches, with answers about one expression.
Room(cache) == Given = Cardinality(DOMAIN cache) /\ Given < MaxAnswers(ont)
OneExpression(x) == \A key \in DOMAIN results : key[1] = Encoded(x)

AnswersInit ==
    /\ Init
    /\ taxonomy = <<>>
    /\ propertyTaxonomy = <<>>
    /\ realized = <<>>
    /\ evaluations = <<>>
    /\ results = <<>>
    /\ decided = <<>>

\* No call is being answered.  A bound: some ontologies are not asked at all.
Asking == call = Idle /\ MaxAnswers(ont) > 0

\* is_inconsistent
IsInconsistent ==
    /\ Asking
    /\ stage < CONSISTENCY
    /\ Reach(CONSISTENCY)
    /\ UNCHANGED <<ont, k, call, caches>>

\* class_taxonomy
ClassTaxonomy ==
    /\ Asking
    /\ taxonomy = <<>>
    /\ Reach(CLASSIFIED)
    /\ taxonomy' = <<BuildClassTaxonomy(facts', consistency')>>
    /\ UNCHANGED <<ont, k, call, propertyTaxonomy, realized, evaluations, results, decided>>

\* object_property_taxonomy
ObjectPropertyTaxonomy ==
    /\ Asking
    /\ Room(propertyTaxonomy)
    /\ propertyTaxonomy = <<>>
    /\ Reach(CONSISTENCY)
    /\ propertyTaxonomy' = <<BuildPropertyTaxonomy(consistency')>>
    /\ UNCHANGED <<ont, k, call, taxonomy, realized, evaluations, results, decided>>

\* realization; it calls class_taxonomy first.
Realization ==
    /\ Asking
    /\ realized = <<>>
    /\ taxonomy # <<>>
    /\ Reach(REALIZED)
    /\ realized' = <<BuildRealization(facts', consistency', Head(taxonomy))>>
    /\ UNCHANGED <<ont, k, call, taxonomy, propertyTaxonomy, evaluations, results, decided>>

\* query_class_expression, where the engine has no result for the query yet; it calls
\* class_taxonomy and realization before the first query.
Query(x, kind, direct) ==
    LET T == Head(taxonomy)
        R == Head(realized)
        key == <<Encoded(x), kind, direct>>
        old == IF Indexed(x) \in DOMAIN evaluations THEN evaluations[Indexed(x)] ELSE Evaluation(x)
        e == Prepare(old, T, R, kind, direct)
    IN  /\ Asking
        /\ Room(results)
        /\ OneExpression(x)
        /\ realized # <<>>
        /\ key \notin DOMAIN results
        /\ \/ /\ consistency = "inconsistent"
              /\ results' = Extended(results, key, InconsistentResult(T, R, kind))
              /\ UNCHANGED evaluations
           \/ /\ consistency = "consistent"
              /\ Encoded(x) = Unindexed
              /\ results' = Extended(results, key, UnindexedResult(T, kind, direct))
              /\ UNCHANGED evaluations
           \/ /\ consistency = "consistent"
              /\ Encoded(x) # Unindexed
              /\ evaluations' = Extended(evaluations, Indexed(x), e)
              /\ results' = Extended(results, key, SelectQuery(e, T, R, kind, direct))
        /\ UNCHANGED <<ont, k, call, session, taxonomy, propertyTaxonomy, realized, decided>>

\* entails, where the engine has no decision for the axiom yet
Entails(a) ==
    /\ Asking
    /\ Room(decided)
    /\ EncodedAxiom(a) \notin DOMAIN decided
    /\ \/ /\ EncodedAxiom(a) = Unindexed
          /\ decided' = Extended(decided, Unindexed, FALSE)
          /\ UNCHANGED session
       \/ /\ EncodedAxiom(a) # Unindexed
          /\ Reach(CONSISTENCY)
          /\ decided' = Extended(decided, a, consistency' = "inconsistent" \/ Decide(a))
    /\ UNCHANGED <<ont, k, call, taxonomy, propertyTaxonomy, realized, evaluations, results>>

\* The steps of module Session, for the stages and roots that are asked for by themselves.
\* A bound: nobody asks for them once a query is answered.
AskForStage(goal) == Given = 0 /\ Ensure(goal) /\ UNCHANGED caches
AskForRoots(roots) == Given = 0 /\ SaturateRoots(roots) /\ UNCHANGED caches

AnswersNext ==
    \/ \E goal \in Goals(ont) : AskForStage(goal)
    \/ \E roots \in ExtraRoots(ont) : AskForRoots(roots)
    \/ BuildProperties /\ UNCHANGED caches
    \/ EvaluateConsistency /\ UNCHANGED caches
    \/ Classify /\ UNCHANGED caches
    \/ Realize /\ UNCHANGED caches
    \/ \E roots \in ExtraRoots(ont) : RunExtra(roots) /\ UNCHANGED caches
    \/ Answer /\ UNCHANGED caches
    \/ Raise /\ UNCHANGED caches
    \/ IsInconsistent
    \/ ClassTaxonomy
    \/ ObjectPropertyTaxonomy
    \/ Realization
    \/ \E q \in Queries(ont) : Query(q[1], q[2], q[3])
    \/ \E a \in Entailed(ont) : Entails(a)

AnswersSpec == AnswersInit /\ [][AnswersNext]_<<vars, caches>>

(***************************************************************************)
(* Properties                                                              *)
(***************************************************************************)

\* The least model of a compiled ontology in which these roots are instantiated.
Least(compiled, roots) == Canonical(Derived(compiled, roots), Names, Properties, Told(compiled.rows))

Below(I, x, y) == Denotes(I, x) \subseteq Denotes(I, y)
StrictlyBelow(I, x, y) == Below(I, x, y) /\ ~Below(I, y, x)

\* The nodes of S such that no other node of S is strictly below them, or above them.
Lowest(I, S) ==
    {n \in S : \A m \in S : ~StrictlyBelow(I, Representative(m), Representative(n))}
Highest(I, S) ==
    {n \in S : \A m \in S : ~StrictlyBelow(I, Representative(n), Representative(m))}

OntologyFeatures == {row[2] : row \in Table(k, "feature")}
RowFeatures(rows) == {row[2] : row \in {q \in rows : q[1] = "feature"}}

IsInconsistentNow == consistency = "inconsistent"

\* The issues a query or an entailment query is answered with.
QueryIssues(x) ==
    IssuesFor("CLASS_EXPRESSION_QUERY", OntologyFeatures,
              IF Unsupported(x) = <<>> THEN RowFeatures(QueryRows(x)) ELSE {Head(Unsupported(x))},
              {}, IsInconsistentNow)

EntailmentIssues(a) ==
    IssuesFor("ENTAILMENT_QUERY", OntologyFeatures,
              IF a[1] \in DOMAIN QUERY_FEATURE_BY_AXIOM THEN {QUERY_FEATURE_BY_AXIOM[a[1]]}
              ELSE IF AxiomUnsupported(a) # <<>> THEN {Head(AxiomUnsupported(a))}
              ELSE RowFeatures(ObligationRows(a)),
              {}, IsInconsistentNow)

\* What a realization has to say: who is the same, who is what, and most specifically so.
RealizationHolds(I, T, R) ==
    \A x \in Roots("individual") :
        LET types == {n \in T.nodes : Below(I, x, Representative(n))}
        IN  /\ NamedTypes(T, R, x, FALSE) = types
            /\ NamedTypes(T, R, x, TRUE) = Lowest(I, types)
            /\ \A y \in Roots("individual") :
                 (\E n \in R.nodes : {x, y} \subseteq n) <=> (Below(I, x, y) /\ Below(I, y, x))
            /\ \A c \in Roots("class") :
                 /\ Below(I, x, c) <=> x \in UNION NamedInstances(T, R, c, FALSE)
                 /\ (Lowest(I, types) \cap {NamedEquivalents(T, c)} # {})
                        <=> x \in UNION NamedInstances(T, R, c, TRUE)

\* The realization is exact: two individuals are in one node exactly if they are the same
\* in all models, and the types of a node, direct and inherited, and the instances of a
\* class, are exactly those that hold in the least model, which the others confirm.  Over
\* an inconsistent ontology every individual is of every class.
RealizationIsRight ==
    realized # <<>> =>
        LET T == Head(taxonomy)
            R == Head(realized)
            I == Least(k, Roots("class") \cup Roots("individual"))
        IN  IF IsInconsistentNow
            THEN \A c \in Roots("class") :
                    UNION NamedInstances(T, R, c, FALSE) = Roots("individual")
            ELSE /\ IsModel(I)
                 /\ RealizationHolds(I, T, R)
                 /\ \A M \in Models : \A e \in R.types : \A x \in e[1], c \in e[2] : Below(M, x, c)

\* Everything a result lists is true in M.
ResultHolds(M, x, kind, result) ==
    CASE kind = "SATISFIABLE" -> TRUE \in result.boolean \/ Denotes(M, x) = {}
      [] kind = "EQUIVALENT_CLASSES" ->
            \A c \in UNION result.nodes : Below(M, c, x) /\ Below(M, x, c)
      [] kind = "SUPERCLASSES" -> \A c \in UNION result.nodes : Below(M, x, c)
      [] OTHER -> \A c \in UNION result.nodes : Below(M, c, x)

\* A result lists exactly what is true in I, and, if direct, the closest of it.  What is
\* above or below the query is strictly so: a class that is equivalent to it, of the
\* ontology or fresh, is listed among the equivalent classes only.
ResultIsExact(I, e, kind, direct, result) ==
    LET T == Head(taxonomy)
        x == e.root
        nodes == T.nodes \cup {{c} : c \in e.fresh}
        above == {n \in nodes : StrictlyBelow(I, x, Representative(n))}
        below == {n \in nodes : StrictlyBelow(I, Representative(n), x)}
        members == {n \in Head(realized).nodes : Below(I, Representative(n), x)}
        farther == {n \in members : \E m \in below : Below(I, Representative(n), Representative(m))}
    IN  CASE kind = "SATISFIABLE" -> result = Boolean(Denotes(I, x) # {})
          [] kind = "EQUIVALENT_CLASSES" ->
                UNION result.nodes =
                    {c \in UNION nodes : Below(I, c, x) /\ Below(I, x, c)}
          [] kind = "SUPERCLASSES" -> result.nodes = IF direct THEN Lowest(I, above) ELSE above
          [] kind = "SUBCLASSES" -> result.nodes = IF direct THEN Highest(I, below) ELSE below
          [] kind = "INSTANCES" -> result.nodes = IF direct THEN members \ farther ELSE members

\* Whatever was asked before, everything in a result of a class query is true, and if the
\* result is labelled complete it is all there is: "A result marked complete MUST be sound
\* and complete".  A query that is not indexed is never labelled complete, except over an
\* inconsistent ontology.
QueryIsRight ==
    IF IsInconsistentNow
    THEN \A key \in DOMAIN results : key[2] = "SATISFIABLE" => results[key] = Boolean(FALSE)
    ELSE \A key \in DOMAIN results :
            IF key[1] = Unindexed
            THEN \A q \in Queries(ont) : Encoded(q[1]) = Unindexed => QueryIssues(q[1]) # {}
            ELSE LET e == evaluations[key[1]]
                     I == Least(e.k, Roots("class") \cup Roots("individual") \cup e.fresh \cup {e.root})
                 IN  /\ \A M \in Models : ResultHolds(M, e.root, key[2], results[key])
                     /\ (\E q \in Queries(ont) : Encoded(q[1]) = key[1] /\ QueryIssues(q[1]) = {}) =>
                            /\ IsModel(I)
                            /\ ResultIsExact(I, e, key[2], key[3], results[key])

\* An entailment that is confirmed holds in all models; one that is denied without an issue
\* fails in the least model of the ontology, ranges included.
EntailmentIsRight ==
    \A a \in DOMAIN decided :
        IF a = Unindexed
        THEN \A b \in Entailed(ont) : EncodedAxiom(b) = Unindexed => EntailmentIssues(b) # {}
        ELSE LET I == Least(Saturated(k.rows \cup ObligationRows(a)),
                            {Indexed(o[1]) : o \in Obligations(a)})
             IN  /\ decided[a] => \A M \in Models : Satisfies(M, a)
                 /\ (~decided[a] /\ EntailmentIssues(a) = {}) =>
                        /\ IsModel(I)
                        /\ \E o \in Obligations(a) : ~Below(I, o[1], o[2])

\* A pair of properties in the taxonomy holds in all models, and one that is not, in a
\* taxonomy labelled complete, fails in some model.
PropertyTaxonomyIsRight ==
    (propertyTaxonomy # <<>> /\ ~IsInconsistentNow) =>
        LET T == Head(propertyTaxonomy)
            above(r) == NamedEquivalents(T, r) \cup UNION NamedRelatives(T, r, TRUE, FALSE)
            complete == IssuesFor("OBJECT_PROPERTY_TAXONOMY", OntologyFeatures, {}, {}, FALSE) = {}
        IN  \A r, s \in ObjectProperties(k.rows) :
                IF s \in above(r)
                THEN \A M \in Models : M.rel[r] \subseteq M.rel[s]
                ELSE complete => \E M \in Models : ~(M.rel[r] \subseteq M.rel[s])

=============================================================================
