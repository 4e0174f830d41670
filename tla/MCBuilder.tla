----------------------------- MODULE MCBuilder -----------------------------
(***************************************************************************)
(* Small views for modules Builder and Transfer: the subsets, up to a      *)
(* size, of a pool in which axioms share expressions, repeat each other    *)
(* with annotations, hold an unsupported construct behind supported ones,  *)
(* or hit a limit: alone, together, or with a query on top.                *)
(***************************************************************************)
EXTENDS Transfer

A == <<"class", "A">>
B == <<"class", "B">>
F == <<"class", "F">>
a == <<"individual", "a">>
b == <<"individual", "b">>
And(x, y) == <<"and", <<x, y>>>>
Some(r, x) == <<"some", r, x>>
SubClassOf(x, y) == <<"SubClassOf", x, y>>
Inversed == <<"unsupported", "OBJECT_INVERSE_OF">>
Plain(axiom) == [axiom |-> axiom, note |-> ""]
Noted(axiom, note) == [axiom |-> axiom, note |-> note]

Pool == {
    Plain(SubClassOf(B, Some("r", And(B, A)))),
    Plain(SubClassOf(Some("r", A), <<"not", B>>)),
    Plain(SubClassOf(And(B, A), <<"or", <<A, Some("s", B)>>>>)),
    Plain(SubClassOf(And(A, Some("s", B)), And(B, Inversed))),
    Plain(<<"EquivalentClasses", <<Some("r", Thing), B, A>>>>),
    Noted(<<"EquivalentClasses", <<Some("r", Thing), B, A>>>>, "x"),
    Noted(<<"DisjointClasses", <<B, A>>>>, "x"),
    Noted(<<"DisjointClasses", <<B, A>>>>, "y"),
    Plain(<<"DisjointUnion", A, <<Some("s", A), B, Nothing>>>>),
    Plain(<<"DisjointUnion", B, <<<<"oneof", <<b>>>>>>>>),
    Plain(<<"ClassAssertion", a, <<"oneof", <<a, b>>>>>>),
    Plain(<<"SameIndividual", <<b, a>>>>),
    Plain(<<"DifferentIndividuals", <<a, b>>>>),
    Plain(<<"ObjectPropertyAssertion", b, "s", a>>),
    Plain(<<"SubObjectPropertyOf", <<"s", "r">>, "s">>),
    Plain(<<"EquivalentObjectProperties", <<"s", "r">>>>),
    Plain(<<"ObjectPropertyDomain", "s", B>>),
    Plain(<<"ObjectPropertyRange", "owl:topObjectProperty", And(A, A)>>),
    Plain(<<"ReflexiveObjectProperty", "s">>),
    Plain(<<"TransitiveObjectProperty", "r">>),
    Plain(<<"Declaration", <<"expr", B>>>>),
    Plain(<<"Declaration", <<"property", "s">>>>),
    Plain(<<"unsupported", "SYMMETRIC_OBJECT_PROPERTY">>),
    Plain(SubClassOf(A, <<"and", <<A, B, A, B, A>>>>)),
    Plain(<<"SubObjectPropertyOf", <<"s", "s", "s", "s">>, "r">>),
    Plain(SubClassOf(Some("s", Some("s", Some("s", Some("s", A)))), Inversed))}

\* Three of those that share the most.
Core == {m \in Pool : m.axiom[1] \in {"EquivalentClasses", "DisjointClasses", "SubClassOf",
                                   "DisjointUnion", "ClassAssertion", "ObjectPropertyDomain"}}

\* More axioms with one unsupported construct than its feature can count.
Inverses == {Plain(SubClassOf(x, Inversed)) : x \in {A, B, Thing, Some("r", A)}}

MCOntologies == {{}, Inverses} \cup {{m, n} : m, n \in Pool} \cup {{l, m, n} : l, m, n \in Core}

\* Some of the views have a rule, and one has more than the feature can count.
MCRules(o) ==
    CASE o = {Plain(<<"Declaration", <<"property", "s">>>>)} -> 4
      [] Plain(<<"ReflexiveObjectProperty", "s">>) \in o -> 1
      [] OTHER -> 0

MCEntityOrder ==
    <<A, B, F, Nothing, Thing, a, b, Property("owl:bottomObjectProperty"),
      Property("owl:topObjectProperty"), Property("r"), Property("s")>>

MCQueries == {And(F, B), Some("s", Some("r", A)), <<"not", <<"oneof", <<>>>>>>, <<"hasvalue", "r", b>>, Inversed}
MCModes == {"ignore", "error"}

\* One byte for a name, two for a name of the OWL vocabulary.
MCIri(e) ==
    CASE e[2] \in {"A", "a"} -> <<1>>
      [] e[2] \in {"B", "b"} -> <<2>>
      [] e[2] = "F" -> <<3>>
      [] e[2] = "owl:Nothing" -> <<4, 1>>
      [] e[2] = "owl:Thing" -> <<4, 2>>
      [] e[2] = "owl:bottomObjectProperty" -> <<4, 1>>
      [] e[2] = "owl:topObjectProperty" -> <<4, 2>>
      [] e[2] = "r" -> <<5>>
      [] e[2] = "s" -> <<6>>

MCPredefinedRecords == {EntityRecord(e) : e \in PredefinedEntities}

\* The features these views have.
MCFeatureOrder ==
    <<"BOTTOM_OBJECT_PROPERTY_POSITIVE", "DIFFERENT_INDIVIDUALS", "DISJOINT_CLASSES", "DISJOINT_UNION",
      "OBJECT_COMPLEMENT_OF_NEGATIVE", "OBJECT_COMPLEMENT_OF_POSITIVE", "OBJECT_HAS_SELF_NEGATIVE",
      "OBJECT_HAS_VALUE_POSITIVE", "OBJECT_INVERSE_OF", "OBJECT_ONE_OF", "OBJECT_PROPERTY_ASSERTION",
      "OBJECT_PROPERTY_CHAIN", "OBJECT_PROPERTY_RANGE", "OBJECT_UNION_OF_POSITIVE", "OWL_NOTHING_POSITIVE",
      "REFLEXIVE_OBJECT_PROPERTY", "SWRL_RULE", "SYMMETRIC_OBJECT_PROPERTY", "TOP_OBJECT_PROPERTY_NEGATIVE">>
MCFeatureLength == Len(MCFeatureOrder)
MCFingerprint == <<8, 9>>

MCEntailments == {<<And(F, B), Some("s", A)>>}

\* A view without axioms, and one with a row in most tables.
MCFragile ==
    {<<{}, "error">>, <<{Plain(<<"DisjointUnion", A, <<Some("s", A), B, Nothing>>>>)}, "ignore">>}
MCJunk == {0, NotUtf8, Reserved}

=============================================================================
