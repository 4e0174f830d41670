----------------------------- MODULE Conversion -----------------------------
(***************************************************************************)
(* Indexing: how OWL axioms become the tables of a CompiledOntology.       *)
(*                                                                         *)
(* Module Vocabulary says what expressions and rows are.                   *)
(***************************************************************************)
EXTENDS Naturals, Sequences, SequencesExt, Vocabulary

\* IndexPolarity is a bit mask: a polarity is the set of its bits.
NEGATIVE == {"neg"}
POSITIVE == {"pos"}
DUAL == {"neg", "pos"}

\* IndexPolarity.complementary: a mask with both bits, or none, is left alone.
Complementary(polarity) ==
    CASE polarity = NEGATIVE -> POSITIVE
      [] polarity = POSITIVE -> NEGATIVE
      [] OTHER -> polarity

(***************************************************************************)
(* Class expressions.  Source constructors: class, individual, and, or,    *)
(* oneof, not, some, hasvalue, self, and "unsupported" for every construct *)
(* whose conversion raises UnsupportedConstruct(feature).                  *)
(***************************************************************************)

Operands(x) ==
    CASE x[1] \in {"and", "or", "oneof"} -> x[2]
      [] x[1] = "not" -> <<x[2]>>
      [] x[1] \in {"some", "hasvalue"} -> <<x[3]>>
      [] OTHER -> <<>>

OperandPolarity(x, polarity) ==
    IF x[1] = "not" THEN Complementary(polarity) ELSE polarity

\* n-ary intersections are interned as left-associated binary ones.
Conjunction(xs) == FoldLeft(LAMBDA left, x : <<"and", <<left, x>>>>, xs[1], Tail(xs))

\* _finish: the row a source expression ends up as, given those of its operands.
Finish(x, kids) ==
    CASE x[1] = "and" -> IF kids = <<>> THEN Thing ELSE Conjunction(kids)
      [] x[1] \in {"or", "oneof"} /\ kids = <<>> -> Nothing
      [] x[1] \in {"or", "oneof"} /\ Len(kids) = 1 -> kids[1]
      [] x[1] \in {"or", "oneof"} /\ Len(kids) > 1 -> <<"or", kids>>
      [] x[1] = "not" -> <<"not", kids[1]>>
      [] x[1] \in {"some", "hasvalue"} -> <<"some", x[2], kids[1]>>
      [] OTHER -> x

RECURSIVE Indexed(_)
Indexed(x) == Finish(x, [i \in DOMAIN Operands(x) |-> Indexed(Operands(x)[i])])

\* Every expression interned on the way to the result, operands excluded.
Interned(x, kids) ==
    CASE x[1] = "and" /\ Len(kids) > 0 ->
            {Conjunction(SubSeq(kids, 1, n)) : n \in 2 .. Len(kids)}
      [] x[1] \in {"or", "oneof"} /\ Len(kids) = 1 -> {}
      [] OTHER -> {Finish(x, kids)}

\* The features recorded while x is converted, operands excluded.
Features(x, y, polarity) ==
    {f[1] : f \in {g \in {
        <<"OBJECT_ONE_OF", x[1] = "oneof" /\ x[2] # <<>>>>,
        <<"OBJECT_HAS_SELF_NEGATIVE", x[1] = "self" /\ "neg" \in polarity>>,
        <<"OBJECT_UNION_OF_POSITIVE",
            x[1] \in {"or", "oneof"} /\ Len(Operands(x)) > 1 /\ "pos" \in polarity>>,
        <<"OBJECT_COMPLEMENT_OF_NEGATIVE", x[1] = "not" /\ "neg" \in polarity>>,
        <<"OBJECT_COMPLEMENT_OF_POSITIVE", x[1] = "not" /\ "pos" \in polarity>>,
        <<"OBJECT_HAS_VALUE_POSITIVE",
            y[1] = "some" /\ y[3][1] = "individual" /\ "pos" \in polarity>>,
        <<"OWL_NOTHING_POSITIVE", y = Nothing /\ "pos" \in polarity>>} : g[2]}}

\* Rows for the property of a restriction.
PropertyRows(r, polarity) ==
    {<<"property", r>>}
      \cup {<<"feature", "BOTTOM_OBJECT_PROPERTY_POSITIVE">> : b \in
                {q \in polarity : q = "pos" /\ r = "owl:bottomObjectProperty"}}
      \cup {<<"feature", "TOP_OBJECT_PROPERTY_NEGATIVE">> : b \in
                {q \in polarity : q = "neg" /\ r = "owl:topObjectProperty"}}

\* intern_expression: the row and one occurrence per bit of the polarity.
InternRows(x, polarity) == {<<"expr", x>>} \cup {<<sign, x>> : sign \in polarity}

\* ExpressionConverter.convert: every row converting x at this polarity adds.
RECURSIVE ExpressionRows(_, _)
ExpressionRows(x, polarity) ==
    LET kids == [i \in DOMAIN Operands(x) |-> Indexed(Operands(x)[i])]
    IN  UNION {ExpressionRows(Operands(x)[i], OperandPolarity(x, polarity)) : i \in DOMAIN kids}
          \cup UNION {InternRows(y, polarity) : y \in Interned(x, kids)}
          \cup {<<"feature", f>> : f \in Features(x, Finish(x, kids), polarity)}
          \cup IF x[1] \in {"some", "hasvalue", "self"} THEN PropertyRows(x[2], polarity) ELSE {}

\* The features of the unsupported constructs of x, in the order they are visited.
RECURSIVE Unsupported(_)
Unsupported(x) ==
    IF x[1] = "unsupported" THEN <<x[2]>>
    ELSE FoldLeft(LAMBDA found, y : found \o Unsupported(y), <<>>, Operands(x))

(***************************************************************************)
(* Axioms                                                                  *)
(***************************************************************************)

\* _equivalent_classes: the first member is the hub, but a named class defines a
\* complex hub and not the other way round.
EquivalentRows(members) ==
    LET xs == [i \in DOMAIN members |-> Indexed(members[i])]
        row(i) == IF xs[1][1] # "class" /\ xs[i][1] = "class"
                  THEN <<"equivalent", xs[i], xs[1]>>
                  ELSE <<"equivalent", xs[1], xs[i]>>
    IN  UNION {ExpressionRows(members[i], DUAL) : i \in DOMAIN members}
          \cup {row(i) : i \in 2 .. Len(members)}

\* _disjoint: at most two members become conjunctions below owl:Nothing, more keep
\* their positions in one group.
DisjointRows(members) ==
    LET xs == [i \in DOMAIN members |-> Indexed(members[i])]
        pairs == {p \in (DOMAIN members) \X (DOMAIN members) : p[1] < p[2]}
        both(p) == <<"and", <<xs[p[1]], xs[p[2]]>>>>
    IN  UNION {ExpressionRows(members[i], NEGATIVE) : i \in DOMAIN members}
          \cup IF Len(members) > 2 THEN {<<"disjoint", xs>>}
               ELSE ExpressionRows(Nothing, POSITIVE)
                      \cup UNION {InternRows(both(p), NEGATIVE) : p \in pairs}
                      \cup {<<"subclass", both(p), Nothing>> : p \in pairs}

\* _disjoint_union
DisjointUnionRows(defined, members) ==
    DisjointRows(members) \cup
      CASE Len(members) = 0 ->
            ExpressionRows(defined, POSITIVE) \cup ExpressionRows(Nothing, POSITIVE)
              \cup {<<"equivalent", defined, Nothing>>}
        [] Len(members) = 1 ->
            ExpressionRows(defined, DUAL) \cup ExpressionRows(members[1], DUAL)
              \cup {<<"equivalent", defined, Indexed(members[1])>>}
        [] OTHER ->
            ExpressionRows(defined, POSITIVE) \cup {<<"feature", "DISJOINT_UNION">>}
              \cup {<<"subclass", Indexed(members[i]), defined>> : i \in DOMAIN members}

\* _same_individual
SameIndividualRows(members) ==
    UNION {ExpressionRows(members[i], DUAL) : i \in DOMAIN members}
      \cup {<<"subclass", members[1], members[i]>> : i \in 2 .. Len(members)}
      \cup {<<"subclass", members[i], members[1]>> : i \in 2 .. Len(members)}

\* SubClassOf and ClassAssertion
SubClassRows(sub, super) ==
    ExpressionRows(sub, NEGATIVE) \cup ExpressionRows(super, POSITIVE)
      \cup {<<"subclass", Indexed(sub), Indexed(super)>>}

\* SubObjectPropertyOf: a chain of n properties counts n - 1 chain features.
SubPropertyRows(chain, super) ==
    UNION {PropertyRows(chain[i], NEGATIVE) : i \in DOMAIN chain}
      \cup PropertyRows(super, POSITIVE)
      \cup {<<"subproperty", chain, super>>}
      \cup IF Len(chain) > 1 THEN {<<"feature", "OBJECT_PROPERTY_CHAIN">>} ELSE {}

\* _equivalent_object_properties
EquivalentPropertyRows(members) ==
    UNION {PropertyRows(members[i], DUAL) : i \in DOMAIN members}
      \cup {<<"subproperty", <<members[1]>>, members[i]>> : i \in 2 .. Len(members)}
      \cup {<<"subproperty", <<members[i]>>, members[1]>> : i \in 2 .. Len(members)}

\* AxiomConverter.convert on a supported axiom: every row the axiom adds.
AxiomRows(a) ==
    CASE a[1] \in {"SubClassOf", "ClassAssertion"} -> SubClassRows(a[2], a[3])
      [] a[1] = "Declaration" -> {a[2]}
      [] a[1] = "EquivalentClasses" -> EquivalentRows(a[2])
      [] a[1] = "DisjointClasses" ->
            DisjointRows(a[2]) \cup {<<"feature", "DISJOINT_CLASSES">>}
      [] a[1] = "DifferentIndividuals" ->
            DisjointRows(a[2]) \cup {<<"feature", "DIFFERENT_INDIVIDUALS">>}
      [] a[1] = "DisjointUnion" -> DisjointUnionRows(a[2], a[3])
      [] a[1] = "SameIndividual" -> SameIndividualRows(a[2])
      [] a[1] = "ObjectPropertyAssertion" ->
            SubClassRows(a[2], <<"hasvalue", a[3], a[4]>>)
              \cup {<<"feature", "OBJECT_PROPERTY_ASSERTION">>}
      [] a[1] = "EquivalentObjectProperties" -> EquivalentPropertyRows(a[2])
      [] a[1] = "SubObjectPropertyOf" -> SubPropertyRows(a[2], a[3])
      [] a[1] = "ObjectPropertyDomain" -> SubClassRows(<<"some", a[2], Thing>>, a[3])
      [] a[1] = "ObjectPropertyRange" ->
            PropertyRows(a[2], NEGATIVE) \cup ExpressionRows(a[3], POSITIVE)
              \cup {<<"range", a[2], Indexed(a[3])>>, <<"feature", "OBJECT_PROPERTY_RANGE">>}
      [] a[1] = "ReflexiveObjectProperty" ->
            SubClassRows(Thing, <<"self", a[2]>>)
              \cup {<<"feature", "REFLEXIVE_OBJECT_PROPERTY">>}
      [] a[1] = "TransitiveObjectProperty" ->
            PropertyRows(a[2], DUAL)
              \cup {<<"subproperty", <<a[2], a[2]>>, a[2]>>,
                    <<"feature", "OBJECT_PROPERTY_CHAIN">>}

\* The class expressions of an axiom, in the order the converter visits them.
AxiomExpressions(a) ==
    CASE a[1] \in {"SubClassOf", "ClassAssertion"} -> <<a[2], a[3]>>
      [] a[1] \in {"EquivalentClasses", "DisjointClasses", "SameIndividual",
                   "DifferentIndividuals"} -> a[2]
      [] a[1] = "DisjointUnion" -> a[3]
      [] a[1] = "ObjectPropertyAssertion" -> <<a[2], a[4]>>
      [] a[1] \in {"ObjectPropertyDomain", "ObjectPropertyRange"} -> <<a[3]>>
      [] a[1] = "unsupported" -> <<a>>
      [] OTHER -> <<>>

AxiomUnsupported(a) ==
    FoldLeft(LAMBDA found, x : found \o Unsupported(x), <<>>, AxiomExpressions(a))

\* One transaction of the compiler loop: an axiom holding an unsupported construct is
\* rolled back and leaves only the feature that stopped it.
CompileAxiom(a) ==
    IF AxiomUnsupported(a) = <<>> THEN AxiomRows(a)
    ELSE {<<"feature", Head(AxiomUnsupported(a))>>}

\* OntologyBuilder.__init__ and freeze: the predefined entities are always there.
PredefinedRows ==
    {<<"expr", Thing>>, <<"expr", Nothing>>,
     <<"property", "owl:topObjectProperty">>, <<"property", "owl:bottomObjectProperty">>}

\* compile_ontology
Compile(axioms) == PredefinedRows \cup UNION {CompileAxiom(a) : a \in axioms}

=============================================================================
