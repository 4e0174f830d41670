----------------------------- MODULE MCAnswers -----------------------------
(***************************************************************************)
(* Small ontologies and queries for module Answers.                        *)
(***************************************************************************)
EXTENDS Answers

A == <<"class", "A">>
B == <<"class", "B">>
F == <<"class", "F">>
a == <<"individual", "a">>
b == <<"individual", "b">>
And(x, y) == <<"and", <<x, y>>>>
Some(r, x) == <<"some", r, x>>
SubClassOf(x, y) == <<"SubClassOf", x, y>>

UpTo(n, pool) == UNION {kSubset(i, pool) : i \in 0 .. n}

\* Axioms about classes and individuals; none of the ontologies names F.
InstancePool == {
    SubClassOf(A, B),
    SubClassOf(A, Some("r", B)),
    SubClassOf(Some("r", B), B),
    SubClassOf(B, Nothing),
    SubClassOf(Thing, B),
    <<"EquivalentClasses", <<A, Some("r", <<"oneof", <<b>>>>)>>>>,
    <<"DisjointClasses", <<A, B>>>>,
    <<"ClassAssertion", a, A>>,
    <<"ClassAssertion", b, Some("r", A)>>,
    <<"ObjectPropertyAssertion", a, "r", b>>,
    <<"SameIndividual", <<a, b>>>>,
    <<"Declaration", <<"expr", B>>>>}

\* Axioms that make classes, individuals or everything contradictory, for the stages of a
\* session and the calls that raise on their way to them.
StagePool == {
    SubClassOf(A, Some("r", B)),
    SubClassOf(B, Nothing),
    SubClassOf(Thing, B),
    SubClassOf(<<"oneof", <<a, b>>>>, A),
    <<"EquivalentClasses", <<A, Some("r", <<"oneof", <<b>>>>)>>>>,
    <<"DisjointClasses", <<A, B>>>>,
    <<"ClassAssertion", a, A>>,
    <<"ClassAssertion", b, B>>,
    <<"ObjectPropertyAssertion", a, "r", b>>,
    <<"SameIndividual", <<a, b>>>>,
    <<"DifferentIndividuals", <<a, b>>>>,
    <<"SubObjectPropertyOf", <<"owl:topObjectProperty">>, "owl:bottomObjectProperty">>}
Declarations == {<<"Declaration", <<"expr", B>>>>, <<"Declaration", <<"expr", b>>>>}

\* Axioms about properties, with those that make the property taxonomy incomplete.
PropertyPool == {
    SubClassOf(Some("r", Thing), Nothing),
    <<"SubObjectPropertyOf", <<"r">>, "s">>,
    <<"EquivalentObjectProperties", <<"r", "s">>>>,
    <<"SubObjectPropertyOf", <<"s", "r">>, "s">>,
    <<"ReflexiveObjectProperty", "s">>,
    <<"TransitiveObjectProperty", "s">>}

InstanceOntologies == UpTo(2, InstancePool) \cup
    {o \in kSubset(3, InstancePool) : <<"ClassAssertion", a, A>> \in o}
PropertyOntologies == UpTo(3, PropertyPool)
StageOntologies == UpTo(2, StagePool \cup Declarations) \cup kSubset(3, StagePool)
MCOntologies == InstanceOntologies \cup PropertyOntologies \cup StageOntologies


\* The smallest ontologies of both pools have their stages reached by answers and by calls
\* that ask for the stage only.
IsAboutProperties(o) == o # {} /\ o \subseteq PropertyPool
IsStaged(o) == o \subseteq StagePool \cup Declarations
IsAnswered(o) ==
    \/ IsAboutProperties(o)
    \/ o \subseteq InstancePool /\ (Cardinality(o) <= 2 \/ <<"ClassAssertion", a, A>> \in o)
MCGoals(o) ==
    IF IsStaged(o) /\ ~IsAnswered(o) THEN PROPERTIES .. REALIZED
    ELSE IF IsStaged(o) /\ Cardinality(o) = 1 THEN {REALIZED} ELSE {}

\* Roots nobody asked for, for the smaller ontologies.
MCExtraRoots(o) ==
    IF Cardinality(o) <= 2 /\ ~IsAnswered(o) THEN {{}, {A, b}, {Some("r", B)}} ELSE {}

\* A second answer of the same session, over the ontologies of one axiom.
MCMaxAnswers(o) == IF ~IsAnswered(o) THEN 0 ELSE IF Cardinality(o) <= 1 THEN 2 ELSE 1

OneAnswer(o) == 1
Never(o) == {}

MCNames == {A, B, F, a, b}
MCProperties == {"r", "s", "owl:topObjectProperty", "owl:bottomObjectProperty"}

\* <<kind, direct>>
Strict == {"SUBCLASSES", "SUPERCLASSES"} \X BOOLEAN
Selections == Strict \cup ({"SATISFIABLE", "EQUIVALENT_CLASSES"} \X {FALSE}) \cup ({"INSTANCES"} \X BOOLEAN)
Asked(x, selections) == {<<x, s[1], s[2]>> : s \in selections}

\* Where B is Thing, And(F, B) is equivalent to the fresh class F, and what is strictly
\* above and below it is left to FreshQueries.
FreshIsEquivalent(o) == SubClassOf(Thing, B) \in o
MCQueries(o) ==
    IF IsAboutProperties(o) \/ ~IsAnswered(o) THEN {}
    ELSE Asked(And(F, B), IF FreshIsEquivalent(o) THEN Selections \ Strict ELSE Selections)
           \cup UNION {Asked(x, Selections) :
                x \in {B, F, Some("r", A), <<"or", <<A, B>>>>, <<"unsupported", "OBJECT_INVERSE_OF">>}}

MCEntailed(o) ==
    IF ~IsAnswered(o) THEN {}
    ELSE IF IsAboutProperties(o) THEN {<<"ReflexiveObjectProperty", "s">>}
    ELSE {SubClassOf(A, Some("r", B)),
          <<"EquivalentClasses", <<A, And(A, B), B>>>>,
          <<"DisjointClasses", <<A, B>>>>,
          <<"SameIndividual", <<a, b>>>>,
          <<"ObjectPropertyAssertion", b, "r", a>>,
          <<"ObjectPropertyDomain", "r", A>>}

Predefined(R, domain) ==
    [r \in MCProperties |->
        CASE r = "owl:topObjectProperty" -> domain \X domain
          [] r = "owl:bottomObjectProperty" -> {}
          [] OTHER -> R[r]]

\* Interpretations over two elements, with an individual at each and few r-links.
InstanceReference ==
    LET domain == {0, 1}
        ext == {e \in [MCNames -> SUBSET domain] :
                    e[a] = {0} /\ Cardinality(e[b]) = 1 /\ e[F] \in {{0}, {1}}}
    IN  {[domain |-> domain, ext |-> e, rel |-> Predefined([r |-> R, s |-> {}], domain)] :
            e \in ext, R \in {{}, {<<0, 0>>}, {<<0, 1>>}, {<<1, 0>>}, {<<0, 1>>, <<1, 1>>}}}

\* Interpretations of two properties over two elements.
PropertyReference ==
    LET domain == {0, 1}
    IN  {[domain |-> domain, ext |-> [x \in MCNames |-> {}], rel |-> Predefined(R, domain)] :
            R \in [{"r", "s"} -> SUBSET (domain \X domain)]}

\* Interpretations of the ontologies that nothing is asked about.
StageReference ==
    LET domain == {0, 1}
        ext == {e \in [MCNames -> SUBSET domain] :
                    e[a] = {0} /\ Cardinality(e[b]) = 1 /\ e[F] = {}}
        sparse == {R \in SUBSET (domain \X domain) : Cardinality(R) <= 2}
    IN  {[domain |-> domain, ext |-> e, rel |-> Predefined([r |-> R, s |-> {}], domain)] :
            e \in ext, R \in sparse}

MCReference(o) ==
    IF IsAboutProperties(o) THEN PropertyReference
    ELSE IF IsStaged(o) /\ ~IsAnswered(o) THEN StageReference ELSE InstanceReference

\* A range that reaches the filler of an existential.
RangePool == {
    SubClassOf(A, Some("r", B)),
    <<"ObjectPropertyRange", "r", B>>,
    <<"ObjectPropertyRange", "r", F>>}

RangeOntologies == UpTo(2, RangePool)
RangeEntailed(o) == {SubClassOf(A, Some("r", F))}
NoQueries(o) == {}

\* A fresh class that is equivalent to the query that mentions it.
FreshOntologies == {{SubClassOf(Thing, B)}, {SubClassOf(Thing, B), <<"ClassAssertion", a, A>>}}
FreshQueries(o) == Asked(And(F, B), Strict)
NoEntailments(o) == {}

=============================================================================
