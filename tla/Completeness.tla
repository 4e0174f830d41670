---------------------------- MODULE Completeness ----------------------------
(***************************************************************************)
(* issues_for: which answers are labelled incomplete, and for which        *)
(* features.  A feature vector is the set of its nonzero positions, an     *)
(* issue the set of the features it names; its task, and the names and     *)
(* polarities that only describe the features, are left out.               *)
(***************************************************************************)

GENERAL_INCOMPLETENESS_FEATURES == {
    "ANONYMOUS_INDIVIDUAL", "ASYMMETRIC_OBJECT_PROPERTY", "BOTTOM_OBJECT_PROPERTY_POSITIVE",
    "DATA_ALL_VALUES_FROM", "DATA_EXACT_CARDINALITY", "DATA_HAS_VALUE",
    "DATA_MAX_CARDINALITY", "DATA_MIN_CARDINALITY", "DATA_PROPERTY",
    "DATA_PROPERTY_ASSERTION", "DATA_PROPERTY_DOMAIN", "DATA_PROPERTY_RANGE",
    "DATA_SOME_VALUES_FROM", "DATATYPE", "DATATYPE_DEFINITION", "DISJOINT_DATA_PROPERTIES",
    "DISJOINT_OBJECT_PROPERTIES", "DISJOINT_UNION", "EQUIVALENT_DATA_PROPERTIES",
    "FUNCTIONAL_DATA_PROPERTY", "FUNCTIONAL_OBJECT_PROPERTY", "HAS_KEY",
    "INVERSE_FUNCTIONAL_OBJECT_PROPERTY", "INVERSE_OBJECT_PROPERTIES",
    "IRREFLEXIVE_OBJECT_PROPERTY", "NEGATIVE_DATA_PROPERTY_ASSERTION",
    "NEGATIVE_OBJECT_PROPERTY_ASSERTION", "OBJECT_ALL_VALUES_FROM",
    "OBJECT_COMPLEMENT_OF_NEGATIVE", "OBJECT_EXACT_CARDINALITY", "OBJECT_HAS_SELF_NEGATIVE",
    "OBJECT_INVERSE_OF", "OBJECT_MAX_CARDINALITY", "OBJECT_MIN_CARDINALITY",
    "OBJECT_ONE_OF", "OBJECT_UNION_OF_POSITIVE", "SUB_DATA_PROPERTY_OF", "SWRL_RULE",
    "SYMMETRIC_OBJECT_PROPERTY", "TOP_OBJECT_PROPERTY_NEGATIVE"}

GENERAL_INCOMPLETENESS_COMBINATIONS == {
    {"OBJECT_PROPERTY_RANGE", "OBJECT_PROPERTY_ASSERTION"},
    {"OBJECT_PROPERTY_RANGE", "OBJECT_HAS_VALUE_POSITIVE"}}

OBJECT_PROPERTY_INCOMPLETENESS_FEATURES ==
    {"OWL_NOTHING_POSITIVE", "DISJOINT_CLASSES", "OBJECT_COMPLEMENT_OF_POSITIVE"}

OBJECT_PROPERTY_INCOMPLETENESS_COMBINATIONS ==
    {{"REFLEXIVE_OBJECT_PROPERTY", "OBJECT_PROPERTY_CHAIN"}}

\* QUERY_FEATURE_BY_AXIOM, for the axioms of module Conversion that have no entailment
\* query.
QUERY_FEATURE_BY_AXIOM ==
    [Declaration |-> "QUERY_DECLARATION_AXIOM",
     DisjointUnion |-> "QUERY_DISJOINT_UNION_AXIOM",
     EquivalentObjectProperties |-> "QUERY_EQUIVALENT_OBJECT_PROPERTIES_AXIOM",
     ObjectPropertyRange |-> "QUERY_OBJECT_PROPERTY_RANGE_AXIOM",
     ReflexiveObjectProperty |-> "QUERY_REFLEXIVE_OBJECT_PROPERTY_AXIOM",
     SubObjectPropertyOf |-> "QUERY_SUB_OBJECT_PROPERTY_OF_AXIOM",
     TransitiveObjectProperty |-> "QUERY_TRANSITIVE_OBJECT_PROPERTY_AXIOM"]

QUERY_INCOMPLETENESS_FEATURES ==
    {QUERY_FEATURE_BY_AXIOM[family] : family \in DOMAIN QUERY_FEATURE_BY_AXIOM}

QueryTasks == {"CLASS_EXPRESSION_QUERY", "ENTAILMENT_QUERY"}

\* The tasks whose collapsed answer over an inconsistent ontology is not qualified.
QuietCollapseTasks ==
    {"CLASS_TAXONOMY", "OBJECT_PROPERTY_TAXONOMY", "REALIZATION", "CLASS_EXPRESSION_QUERY"}

\* _matching_issues
MatchingIssues(features, singles, combinations) ==
    {{f} : f \in features \cap singles} \cup {c \in combinations : c \subseteq features}

\* _general_issues
GeneralIssues(features) ==
    MatchingIssues(features, GENERAL_INCOMPLETENESS_FEATURES, GENERAL_INCOMPLETENESS_COMBINATIONS)

\* _policy_issues
PolicyIssues(policy) == {{f} : f \in policy \cap {"PYELK_IGNORED_IMPORT"}}

\* Mutant of IssuesFor: the ontology and the query are looked at one by one.
IssuesForApart(task, features, query, policy, inconsistent) ==
    PolicyIssues(policy)
      \cup IF inconsistent /\ task \in QuietCollapseTasks THEN {}
           ELSE GeneralIssues(features)
                  \cup (IF task = "OBJECT_PROPERTY_TAXONOMY"
                        THEN MatchingIssues(features, OBJECT_PROPERTY_INCOMPLETENESS_FEATURES, {})
                        ELSE {})

\* issues_for: a query is judged by its own unsupported family and by the features of
\* ontology and query together.
IssuesFor(task, features, query, policy, inconsistent) ==
    PolicyIssues(policy)
      \cup IF inconsistent /\ task \in QuietCollapseTasks THEN {}
           ELSE GeneralIssues(features)
                  \cup (IF task = "OBJECT_PROPERTY_TAXONOMY"
                        THEN MatchingIssues(features, OBJECT_PROPERTY_INCOMPLETENESS_FEATURES,
                                            OBJECT_PROPERTY_INCOMPLETENESS_COMBINATIONS)
                        ELSE {})
                  \cup (IF task \in QueryTasks
                        THEN MatchingIssues(query, QUERY_INCOMPLETENESS_FEATURES, {})
                               \cup GeneralIssues(features \cup query)
                        ELSE {})

=============================================================================
