------------------------------- MODULE MCRules -------------------------------
(***************************************************************************)
(* Families of small ontologies for module Workspace: the subsets, up to a *)
(* size, of a pool of axioms in which every rule of RuleDispatcher fires.  *)
(***************************************************************************)
EXTENDS WorkspaceMeaning

A == <<"class", "A">>
B == <<"class", "B">>
C == <<"class", "C">>
D == <<"class", "D">>
And(x, y) == <<"and", <<x, y>>>>
Some(r, x) == <<"some", r, x>>
SubClassOf(x, y) == <<"SubClassOf", x, y>>

\* The subsets of a pool up to a size.
UpTo(n, pool) == UNION {kSubset(i, pool) : i \in 0 .. n}

(***************************************************************************)
(* Class constructors without links                                        *)
(***************************************************************************)
BooleanPool == {
    SubClassOf(A, B),
    SubClassOf(A, <<"and", <<B, C, D>>>>),
    SubClassOf(And(B, C), D),
    SubClassOf(<<"or", <<B, C>>>>, D),
    SubClassOf(<<"and", <<>>>>, C),
    SubClassOf(D, <<"oneof", <<>>>>),
    SubClassOf(A, <<"not", B>>),
    SubClassOf(C, <<"not", And(A, B)>>),
    <<"EquivalentClasses", <<And(A, B), D>>>>,
    <<"EquivalentClasses", <<And(B, C), <<"or", <<B>>>>>>>>,
    <<"DisjointClasses", <<B, C>>>>,
    <<"DisjointClasses", <<A, C, D>>>>,
    <<"DisjointUnion", C, <<B>>>>,
    SubClassOf(A, <<"and", <<B, <<"unsupported", "OBJECT_INVERSE_OF">>>>>>)}

(***************************************************************************)
(* Existential restrictions, self restrictions and the property hierarchy  *)
(***************************************************************************)
LinkPool == {
    SubClassOf(A, Some("r", B)),
    SubClassOf(A, Some("r", C)),
    SubClassOf(B, Some("s", C)),
    SubClassOf(Some("r", B), C),
    SubClassOf(Some("s", C), B),
    SubClassOf(C, Nothing),
    SubClassOf(A, <<"self", "r">>),
    <<"ObjectPropertyDomain", "s", C>>,
    <<"EquivalentClasses", <<Some("s", Thing), B>>>>,
    <<"SubObjectPropertyOf", <<"r">>, "s">>,
    <<"SubObjectPropertyOf", <<"r", "s">>, "s">>,
    <<"TransitiveObjectProperty", "r">>,
    <<"ReflexiveObjectProperty", "s">>,
    <<"ObjectPropertyRange", "s", C>>,
    <<"ObjectPropertyRange", "r", Some("s", B)>>}

\* Two links to one filler, one of them with a range, and a restriction on the other.
RangePool == {
    SubClassOf(A, Some("r", B)),
    SubClassOf(A, Some("s", B)),
    <<"ObjectPropertyRange", "r", C>>,
    SubClassOf(Some("s", C), D)}

\* A class with two definitions, and a restriction that looks through both.
DefinitionPool == {
    <<"EquivalentClasses", <<B, C>>>>,
    <<"EquivalentClasses", <<B, Some("r", D)>>>>,
    SubClassOf(A, Some("s", C)),
    SubClassOf(Some("s", Some("r", D)), D)}

\* The axioms of the pool without ranges.
RangeFreePool == {a \in LinkPool : a[1] # "ObjectPropertyRange"}

(***************************************************************************)
(* Property chains: nested, overlapping, transitive and redundant ones     *)
(***************************************************************************)
ChainPool == {
    SubClassOf(A, Some("r", Some("s", Some("r", C)))),
    SubClassOf(A, Some("r", Some("r", Some("s", C)))),
    SubClassOf(A, <<"self", "s">>),
    SubClassOf(Some("r", C), B),
    SubClassOf(Some("s", C), B),
    SubClassOf(Some("t", C), B),
    <<"SubObjectPropertyOf", <<"r">>, "s">>,
    <<"SubObjectPropertyOf", <<"r", "s">>, "r">>,
    <<"SubObjectPropertyOf", <<"s", "r">>, "r">>,
    <<"SubObjectPropertyOf", <<"r", "r">>, "s">>,
    <<"SubObjectPropertyOf", <<"r", "s", "r">>, "t">>,
    <<"SubObjectPropertyOf", <<"r", "t">>, "t">>,
    <<"TransitiveObjectProperty", "r">>,
    <<"TransitiveObjectProperty", "s">>,
    <<"EquivalentObjectProperties", <<"s", "t">>>>}

(***************************************************************************)
(* Instances and reference interpretations                                 *)
(***************************************************************************)
MCNames == {A, B, C, D}
MCProperties == {"r", "s", "t"}

MCOntologies == UpTo(4, BooleanPool) \cup UpTo(5, LinkPool) \cup UpTo(5, ChainPool)
RangeOntologies == {RangePool}
DefinitionOntologies == {DefinitionPool}

\* Interpretations of these names and properties over 0, or over 0 and 1, one of each pair
\* that differs by exchanging 0 and 1 in A; their relations have up to `links` pairs,
\* the other names and properties are empty, and the built-in properties fixed.
Over(domain, names, properties, links) ==
    {[domain |-> domain,
      ext |-> [x \in MCNames |-> IF x \in names THEN e[x] ELSE {}],
      rel |-> [r \in MCProperties \cup {"owl:topObjectProperty", "owl:bottomObjectProperty"} |->
                 CASE r \in properties -> R[r]
                   [] r = "owl:topObjectProperty" -> domain \X domain
                   [] OTHER -> {}]] :
        e \in {f \in [names -> SUBSET domain] : f[A] # {1}},
        R \in [properties -> {S \in SUBSET (domain \X domain) : Cardinality(S) <= links}]}

\* Without links every element of an interpretation stands alone.
BooleanReference == Over({0}, {A, B, C, D}, {}, 0)
LinkReference == Over({0, 1}, {A, B, C}, {"r", "s"}, 2)
SparseReference == Over({0, 1}, {A, B, C}, {"r", "s"}, 1)

\* Axioms through which one root can reach the contexts of another.
SharingPool == {
    SubClassOf(A, Some("r", B)),
    SubClassOf(A, Some("r", C)),
    SubClassOf(B, Some("s", C)),
    SubClassOf(Some("r", B), C),
    SubClassOf(Some("s", C), B),
    SubClassOf(C, Nothing),
    <<"SubObjectPropertyOf", <<"r", "s">>, "s">>,
    <<"ObjectPropertyRange", "s", C>>}

Sharing(o) == o \subseteq SharingPool /\ Cardinality(o) <= 3

\* One root, or, for ontologies with shared contexts, two roots at once and a request
\* that overlaps an earlier one.
MCRequests(o) == IF Sharing(o) THEN {{A, B}, {B, C}} ELSE {{A}}

\* Soundness is checked for Boolean ontologies and for the smaller ones with links and
\* without ranges, in fewer interpretations where there are more of them.  A reflexive
\* property has a pair for each element.
MCReference(o) ==
    IF o \subseteq BooleanPool THEN BooleanReference
    ELSE IF ~(o \subseteq RangeFreePool) \/ Cardinality(o) > 3 THEN {}
    ELSE IF Cardinality(o) = 3 /\ <<"ReflexiveObjectProperty", "s">> \notin o THEN SparseReference
    ELSE LinkReference

RangeReference(o) == Over({0, 1}, {A, B, C, D}, {"r", "s"}, 2)
NoReference(o) == {}

=============================================================================
