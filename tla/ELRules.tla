------------------------------- MODULE ELRules -------------------------------
(***************************************************************************)
(* RuleDispatcher: the inference rules of class saturation.                *)
(*                                                                         *)
(* k is a saturated property view over a compiled ontology (Saturated of   *)
(* module PropertyClosure).  S is the set of conclusions the context of    *)
(* the premise stores, the premise included.  A conclusion is a tuple      *)
(*   <<"init", d>>            ContextInitialization                        *)
(*   <<"sub", d, r>>          SubContextInitialization                     *)
(*   <<"dec", d, x>>          SubClassInclusionDecomposed                  *)
(*   <<"com", d, x>>          SubClassInclusionComposed                    *)
(*   <<"fwd", d, chain, t>>   ForwardLink                                  *)
(*   <<"bwd", d, r, s>>       BackwardLink: s has an r-link to d           *)
(*   <<"prop", d, r, x>>      Propagation of the existential x             *)
(*   <<"dis", d, group, i>>   DisjointSubsumer                             *)
(*   <<"bot", d>>             ClassInconsistency                           *)
(* whose second entry is the destination that owns it.                     *)
(***************************************************************************)
EXTENDS Vocabulary, PropertyClosure

Destination(c) == c[2]
Initialization(d) == <<"init", d>>

\* The rows of one table of the compiled ontology.
Table(k, name) == {row \in k.rows : row[1] = name}

Negative(k, x) == <<"neg", x>> \in k.rows
Positive(k, x) == <<"pos", x>> \in k.rows

\* The expressions of one constructor with a negative occurrence.
NegativeExpressions(k, tag) == {row[2] : row \in {q \in Table(k, "neg") : q[2][1] = tag}}

\* _on_context_initialization
OnContextInit(k, S, p) ==
    {<<"dec", p[2], p[2]>>} \cup {<<"com", p[2], x>> : x \in {y \in {Thing} : Negative(k, y)}}

\* Existentials a filler x carries to the sources of relation r.
Carried(k, r, x) ==
    {e \in NegativeExpressions(k, "some") : e[3] = x /\ <<<<r>>, <<e[2]>>>> \in k.sub}

\* Mutant of OnSubContext: propagation waits for a filler that arrives later.
OnSubContextNothing(k, S, p) == {}

\* _on_subcontext_initialization
OnSubContext(k, S, p) ==
    UNION {{<<"prop", p[2], p[3], e>> : e \in Carried(k, p[3], c[3])} :
           c \in {q \in S : q[1] = "com"}}

\* Whether links of this chain can be the right half of a composition.
IsRightFactor(k, chain) == \E c \in k.compositions : c[2] = chain

\* The two halves of a link by relation r to the target.
Links(k, d, r, target) ==
    {<<"bwd", target, r, d>>}
      \cup {<<"fwd", d, <<r>>, target>> : c \in {q \in {r} : IsRightFactor(k, <<q>>)}}

\* The expression-specific part of _on_decomposed_subsumer; only positive occurrences.
Decomposition(k, S, d, x) ==
    CASE x[1] = "and" -> {<<"dec", d, x[2][1]>>, <<"dec", d, x[2][2]>>}
      [] x[1] = "some" -> Links(k, d, x[2], x[3])
      [] x[1] = "self" ->
            Links(k, d, x[2], d)
              \cup {<<"dec", d, q[2]>> : q \in {range \in k.ranges : range[1] = x[2]}}
      [] x[1] = "not" -> {<<"bot", d>> : c \in {q \in S : q = <<"com", d, x[2]>>}}
      [] x = Nothing -> {<<"bot", d>>}
      [] OTHER -> {}

\* _on_decomposed_subsumer
OnDecomposed(k, S, p) ==
    LET d == p[2]
        x == p[3]
    IN  {<<"com", d, x>>}
          \cup {<<"dec", d, row[3]>> :
                row \in {q \in Table(k, "equivalent") : q[2] = x /\ x[1] = "class"}}
          \cup IF Positive(k, x) THEN Decomposition(k, S, d, x) ELSE {}

\* Mutant of ComposedConjunctions: only the second conjunct looks for its partner.
ComposedFromSecond(k, S, d, x) ==
    {<<"com", d, y>> : y \in {z \in NegativeExpressions(k, "and") :
                                z[2][2] = x /\ <<"com", d, z[2][1]>> \in S}}

\* Whichever conjunct arrives last composes the conjunction.
ComposedConjunctions(k, S, d, x) ==
    {<<"com", d, y>> : y \in {z \in NegativeExpressions(k, "and") :
        \/ z[2][1] = x /\ <<"com", d, z[2][2]>> \in S
        \/ z[2][2] = x /\ <<"com", d, z[2][1]>> \in S}}

\* What subclass and equivalence rows expand a composed subsumer to.  A named class
\* defined by x is only composed; its other definitions are not expanded.
Expansions(k, d, x) ==
    {<<"dec", d, row[3]>> : row \in {q \in Table(k, "subclass") : q[2] = x}}
      \cup {<<"com", d, row[2]>> :
            row \in {q \in Table(k, "equivalent") : q[3] = x /\ q[2][1] = "class"}}
      \cup {<<"dec", d, row[2]>> :
            row \in {q \in Table(k, "equivalent") : q[3] = x /\ q[2][1] # "class"}}
      \cup {<<"dec", d, row[3]>> :
            row \in {q \in Table(k, "equivalent") : q[2] = x /\ x[1] # "class"}}

\* Contradictions and disjointness positions a composed subsumer triggers.
Clashes(k, S, d, x) ==
    {<<"bot", d>> : c \in {q \in S : q = <<"dec", d, <<"not", x>>>> /\ Positive(k, <<"not", x>>)}}
      \cup UNION {{<<"dis", d, row[2], i>> : i \in {j \in DOMAIN row[2] : row[2][j] = x}} :
                  row \in Table(k, "disjoint")}

\* The disjunctions that have x as a disjunct.
ComposedDisjunctions(k, d, x) ==
    {<<"com", d, y>> : y \in {z \in NegativeExpressions(k, "or") :
                                 \E i \in DOMAIN z[2] : z[2][i] = x}}

\* What a filler carries along the relations its context is already linked by.
Propagations(k, S, d, x) ==
    UNION {{<<"prop", d, c[3], e>> : e \in Carried(k, c[3], x)} :
           c \in {q \in S : q[1] = "sub"}}

\* _on_composed_subsumer
OnComposed(k, S, p) ==
    LET d == p[2]
        x == p[3]
    IN  Expansions(k, d, x)
          \cup ComposedConjunctions(k, S, d, x)
          \cup ComposedDisjunctions(k, d, x)
          \cup Propagations(k, S, d, x)
          \cup Clashes(k, S, d, x)

\* Links by the properties told to include the complex chain.
ToldSuperLinks(k, chain, source, target) ==
    {<<"bwd", target, row[3], source>> :
        row \in {q \in Table(k, "subproperty") : q[2] = chain}}

\* _chain_is_extendable: the result chain takes part in a further composition.
IsExtendable(k, chain) == \E c \in k.compositions \cup k.redundant : c[2] = chain

\* _produce_link_composition: an extendable result stays a forward link.
LinkComposition(k, bwd, fwd, result) ==
    IF IsExtendable(k, result) THEN {<<"fwd", bwd[4], result, fwd[4]>>}
    ELSE ToldSuperLinks(k, result, bwd[4], fwd[4])

\* Every non-redundant composition of a backward with a forward link of one context.
Compositions(k, bwd, fwd) ==
    UNION {LinkComposition(k, bwd, fwd, c[3]) :
           c \in {q \in k.compositions : q[1] = bwd[3] /\ q[2] = fwd[3]}}

\* _on_forward_link
OnForward(k, S, p) ==
    (IF Len(p[3]) > 1 THEN ToldSuperLinks(k, p[3], p[2], p[4]) ELSE {})
      \cup UNION {Compositions(k, c, p) : c \in {q \in S : q[1] = "bwd"}}

\* _on_backward_link.  The context of the target is shared by all its sources, so the
\* range of the relation becomes a subsumer of the target itself.
OnBackward(k, S, p) ==
    {<<"sub", p[2], p[3]>>}
      \cup {<<"com", p[4], c[4]>> : c \in {q \in S : q[1] = "prop" /\ q[3] = p[3]}}
      \cup {<<"bot", p[4]>> : c \in {q \in S : q[1] = "bot"}}
      \cup {<<"dec", p[2], q[2]>> : q \in {range \in k.ranges : range[1] = p[3]}}
      \cup UNION {Compositions(k, p, c) : c \in {q \in S : q[1] = "fwd"}}

\* Mutant of OnPropagation: the relation of the backward link is not compared.
OnPropagationAny(k, S, p) ==
    {<<"com", c[4], p[4]>> : c \in {q \in S : q[1] = "bwd"}}

\* _on_propagation
OnPropagation(k, S, p) ==
    {<<"com", c[4], p[4]>> : c \in {q \in S : q[1] = "bwd" /\ q[3] = p[3]}}

\* _on_disjoint_subsumer
OnDisjoint(k, S, p) ==
    {<<"bot", p[2]>> : c \in {q \in S : q[1] = "dis" /\ q[3] = p[3] /\ q[4] # p[4]}}

\* _on_class_inconsistency
OnInconsistency(k, S, p) == {<<"bot", c[4]>> : c \in {q \in S : q[1] = "bwd"}}

\* RuleDispatcher.dispatch
DispatchRule(k, S, p) ==
    CASE p[1] = "init" -> OnContextInit(k, S, p)
      [] p[1] = "sub" -> OnSubContext(k, S, p)
      [] p[1] = "dec" -> OnDecomposed(k, S, p)
      [] p[1] = "com" -> OnComposed(k, S, p)
      [] p[1] = "fwd" -> OnForward(k, S, p)
      [] p[1] = "bwd" -> OnBackward(k, S, p)
      [] p[1] = "prop" -> OnPropagation(k, S, p)
      [] p[1] = "dis" -> OnDisjoint(k, S, p)
      [] p[1] = "bot" -> OnInconsistency(k, S, p)

=============================================================================
