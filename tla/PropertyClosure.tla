--------------------------- MODULE PropertyClosure ---------------------------
(***************************************************************************)
(* Property saturation: the closure of told property inclusions over the   *)
(* chain universe, the inherited ranges, and the composition tables the    *)
(* link rules look premises up in.  A chain is the sequence of its         *)
(* properties, so chain IDs and their structural interning disappear.      *)
(* `rows` is a compiled ontology, as in module Conversion.                 *)
(***************************************************************************)
EXTENDS Naturals, Sequences, FiniteSets

ObjectProperties(rows) == {row[2] : row \in {q \in rows : q[1] = "property"}}

\* <<chain, super property>>
Told(rows) == {<<row[2], row[3]>> : row \in {q \in rows : q[1] = "subproperty"}}

ChainSuffixes(chain) == {SubSeq(chain, i, Len(chain)) : i \in DOMAIN chain}

\* _build_chain_universe: every property, every compiled chain and its suffixes.
Chains(rows) ==
    {<<r>> : r \in ObjectProperties(rows)} \cup UNION {ChainSuffixes(t[1]) : t \in Told(rows)}

\* One round of the agenda: SubPropertyChainExpandedSubObjectPropertyOf.
Expand(told, sub) ==
    sub \cup {<<p[1][1], p[2][2]>> : p \in {q \in told \X sub : <<q[1][2]>> = q[2][1]}}

\* The agenda run to the end: <<sub chain, super chain>>.
SubChainClosure(rows) ==
    LET told == Told(rows)
        start == {<<c, c>> : c \in Chains(rows)} \cup {<<t[1], <<t[2]>>>> : t \in told}
        round[n \in Nat] == IF n = 0 THEN start ELSE Expand(told, round[n - 1])
    IN  round[Cardinality(told)]

\* sub_properties of the chain c, given the closure sub
NamedSubs(sub, c) == {p[1][1] : p \in {q \in sub : q[2] = c /\ Len(q[1]) = 1}}

\* _inherit_ranges: <<property, range expression>>
InheritedRanges(rows, sub) ==
    UNION {{<<r, row[3]>> : r \in NamedSubs(sub, <<row[2]>>)} :
           row \in {q \in rows : q[1] = "range"}}

\* <<left property, right chain, result chain>>: every way to compose a link of the
\* left property with a link of the right chain into a complex chain.  The right chain
\* of a transitive property is never the property's own chain.
CandidateCompositions(rows, sub) ==
    UNION {{<<p[1], p[2][1], result>> :
            p \in {q \in NamedSubs(sub, <<result[1]>>) \X sub :
                      /\ q[2][2] = Tail(result)
                      /\ ~(Tail(result) = <<result[1]>> /\ q[2][1] = result)}} :
           result \in {c \in Chains(rows) : Len(c) > 1}}

\* Mutant of LeftSubcomposable: the shared left factor is not required.
LeftSubcomposableUnshared(sub, s) ==
    UNION {NamedSubs(sub, <<s>>) \X NamedSubs(sub, Tail(q[1])) :
           q \in {p \in sub : p[2] = <<s>> /\ Len(p[1]) > 1}}

\* left_subcomposable: <<left, right>> such that composing both gives again a
\* subproperty of s.
LeftSubcomposable(sub, s) ==
    UNION {(NamedSubs(sub, <<s>>) \cap NamedSubs(sub, <<q[1][1]>>)) \X NamedSubs(sub, Tail(q[1])) :
           q \in {p \in sub : p[2] = <<s>> /\ Len(p[1]) > 1}}

\* A composition is redundant when its left link can first be composed with the first
\* step of the right chain, and the rest of the right chain still fits.
IsRedundant(sub, composition) ==
    LET right == composition[2]
        result == composition[3]
    IN  /\ Len(right) > 1
        /\ <<Tail(right), Tail(result)>> \in sub
        /\ <<composition[1], right[1]>> \in LeftSubcomposable(sub, result[1])

\* saturate_properties: what RuleDispatcher sees of the property view.
Saturated(rows) ==
    LET sub == SubChainClosure(rows)
        all == CandidateCompositions(rows, sub)
        redundant == {c \in all : IsRedundant(sub, c)}
    IN  [rows |-> rows,
         sub |-> sub,
         ranges |-> InheritedRanges(rows, sub),
         compositions |-> all \ redundant,
         redundant |-> redundant]

=============================================================================
