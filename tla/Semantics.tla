------------------------------ MODULE Semantics ------------------------------
(***************************************************************************)
(* The meaning of ontologies, independent of how pyELK reasons: the direct *)
(* semantics of OWL restricted to the constructs module Conversion indexes.*)
(* It is the reference the rules are checked against.                      *)
(*                                                                         *)
(* An interpretation is a record [domain, ext, rel]: ext maps class and    *)
(* individual expressions to sets of elements, rel maps properties to sets *)
(* of pairs.  An individual is interpreted like a class, the reading under *)
(* which a context root stands for it.                                     *)
(***************************************************************************)
EXTENDS Naturals, Sequences, FiniteSets, Preorders

\* The relation of a property chain.
RECURSIVE ChainRelation(_, _)
ChainRelation(I, chain) ==
    IF Len(chain) = 1 THEN I.rel[chain[1]]
    ELSE Compose(I.rel[chain[1]], ChainRelation(I, Tail(chain)))

\* The elements an expression denotes.
RECURSIVE Denotes(_, _)
Denotes(I, x) ==
    CASE x = <<"class", "owl:Thing">> -> I.domain
      [] x = <<"class", "owl:Nothing">> -> {}
      [] x[1] \in {"class", "individual"} /\ x \notin {<<"class", "owl:Thing">>, <<"class", "owl:Nothing">>} ->
            I.ext[x]
      [] x[1] = "and" -> {e \in I.domain : \A i \in DOMAIN x[2] : e \in Denotes(I, x[2][i])}
      [] x[1] \in {"or", "oneof"} -> UNION {Denotes(I, x[2][i]) : i \in DOMAIN x[2]}
      [] x[1] = "not" -> I.domain \ Denotes(I, x[2])
      [] x[1] \in {"some", "hasvalue"} ->
            LET filler == Denotes(I, x[3])
            IN  {p[1] : p \in {q \in I.rel[x[2]] : q[2] \in filler}}
      [] x[1] = "self" -> {e \in I.domain : <<e, e>> \in I.rel[x[2]]}

\* Members at different positions share no element.
PairwiseDisjoint(I, members) ==
    \A i, j \in DOMAIN members : i < j => Denotes(I, members[i]) \cap Denotes(I, members[j]) = {}

\* I is a model of the axiom.
Satisfies(I, a) ==
    CASE a[1] \in {"SubClassOf", "ClassAssertion"} -> Denotes(I, a[2]) \subseteq Denotes(I, a[3])
      [] a[1] \in {"EquivalentClasses", "SameIndividual"} ->
            \A i \in DOMAIN a[2] : Denotes(I, a[2][i]) = Denotes(I, a[2][1])
      [] a[1] \in {"DisjointClasses", "DifferentIndividuals"} -> PairwiseDisjoint(I, a[2])
      [] a[1] = "DisjointUnion" ->
            /\ PairwiseDisjoint(I, a[3])
            /\ Denotes(I, a[2]) = Denotes(I, <<"or", a[3]>>)
      [] a[1] = "ObjectPropertyAssertion" ->
            Denotes(I, a[2]) \subseteq Denotes(I, <<"hasvalue", a[3], a[4]>>)
      [] a[1] = "EquivalentObjectProperties" ->
            \A i \in DOMAIN a[2] : I.rel[a[2][i]] = I.rel[a[2][1]]
      [] a[1] = "SubObjectPropertyOf" -> ChainRelation(I, a[2]) \subseteq I.rel[a[3]]
      [] a[1] = "TransitiveObjectProperty" ->
            ChainRelation(I, <<a[2], a[2]>>) \subseteq I.rel[a[2]]
      [] a[1] = "ReflexiveObjectProperty" -> \A e \in I.domain : <<e, e>> \in I.rel[a[2]]
      [] a[1] = "ObjectPropertyDomain" -> \A p \in I.rel[a[2]] : p[1] \in Denotes(I, a[3])
      [] a[1] = "ObjectPropertyRange" -> \A p \in I.rel[a[2]] : p[2] \in Denotes(I, a[3])
      [] OTHER -> TRUE

\* Every interpretation of the names over a domain.
Interpretations(domain, names, properties) ==
    [domain : {domain},
     ext : [names -> SUBSET domain],
     rel : [properties -> SUBSET (domain \X domain)]]

(***************************************************************************)
(* The canonical interpretation of a saturated set C of conclusions: the   *)
(* consistent contexts are the elements, their composed subsumers say what *)
(* they belong to, and links are the backward links closed under `told`,   *)
(* the property inclusions.  Where it is a model, whatever the context of  *)
(* a class does not list is not entailed.                                  *)
(***************************************************************************)
CanonicalDomain(C) == {d \in {c[2] : c \in C} : <<"bot", d>> \notin C}

CanonicalBase(C, properties) ==
    LET E == CanonicalDomain(C)
    IN  [r \in properties |->
            {<<c[4], c[2]>> : c \in {q \in C : q[1] = "bwd" /\ q[3] = r /\ q[2] \in E /\ q[4] \in E}}]

RECURSIVE CloseUnderTold(_, _)
CloseUnderTold(I, told) ==
    LET next == [r \in DOMAIN I.rel |->
                    I.rel[r] \cup UNION {ChainRelation(I, t[1]) : t \in {u \in told : u[2] = r}}]
    IN  IF next = I.rel THEN I ELSE CloseUnderTold([I EXCEPT !.rel = next], told)

Canonical(C, names, properties, told) ==
    CloseUnderTold([domain |-> CanonicalDomain(C),
                    ext |-> [x \in names |-> {d \in CanonicalDomain(C) : <<"com", d, x>> \in C}],
                    rel |-> CanonicalBase(C, properties)],
                   told)

=============================================================================
