----------------------------- MODULE RuleProofs -----------------------------
(***************************************************************************)
(* What the scheduler may rely on about the rules of RuleDispatcher, for   *)
(* every compiled ontology.                                                *)
(***************************************************************************)
EXTENDS TableMeaning, Foundations, FiniteSetTheorems

\* k is the property view of validated tables.
Prepared(k) == WellFormed(k.rows) /\ k = Saturated(k.rows)

\* The expressions contexts are about.
Named(k, roots) == Expressions(k) \cup roots

(***************************************************************************)
(* The universe of conclusions                                             *)
(***************************************************************************)

\* Every conclusion is a tuple of one of these forms.
LEMMA Shape ==
  ASSUME NEW k, NEW roots, NEW c \in Conclusions(k, roots)
  PROVE  /\ c[2] \in Named(k, roots)
         /\ \/ c[1] \in {"init", "bot"} /\ c = <<c[1], c[2]>>
            \/ c[1] = "sub" /\ c = <<c[1], c[2], c[3]>> /\ c[3] \in Relations(k)
            \/ c[1] \in {"dec", "com"} /\ c = <<c[1], c[2], c[3]>> /\ c[3] \in Named(k, roots)
            \/ c[1] = "fwd" /\ c = <<c[1], c[2], c[3], c[4]>>
                 /\ c[3] \in LinkChains(k) /\ c[4] \in Named(k, roots)
            \/ c[1] \in {"bwd", "prop"} /\ c = <<c[1], c[2], c[3], c[4]>>
                 /\ c[3] \in Relations(k) /\ c[4] \in Named(k, roots)
            \/ c[1] = "dis" /\ c = <<c[1], c[2], c[3], c[4]>>
                 /\ c[3] \in Groups(k) /\ c[4] \in Positions(k)
BY DEF Conclusions, Named

\* And every tuple of one of these forms is a conclusion.
LEMMA Formed ==
  ASSUME NEW k, NEW roots
  PROVE  /\ \A d \in Named(k, roots) :
                /\ <<"init", d>> \in Conclusions(k, roots)
                /\ <<"bot", d>> \in Conclusions(k, roots)
         /\ \A d \in Named(k, roots), r \in Relations(k) : <<"sub", d, r>> \in Conclusions(k, roots)
         /\ \A d, x \in Named(k, roots) :
                /\ <<"dec", d, x>> \in Conclusions(k, roots)
                /\ <<"com", d, x>> \in Conclusions(k, roots)
         /\ \A d, x \in Named(k, roots), h \in LinkChains(k) :
                <<"fwd", d, h, x>> \in Conclusions(k, roots)
         /\ \A d, x \in Named(k, roots), r \in Relations(k) :
                /\ <<"bwd", d, r, x>> \in Conclusions(k, roots)
                /\ <<"prop", d, r, x>> \in Conclusions(k, roots)
         /\ \A d \in Named(k, roots), g \in Groups(k), i \in Positions(k) :
                <<"dis", d, g, i>> \in Conclusions(k, roots)
BY DEF Conclusions, Named

(***************************************************************************)
(* What validation guarantees of the tables a rule looks into              *)
(***************************************************************************)
LEMMA IsExpression ==
  ASSUME NEW k, NEW x, <<"expr", x>> \in k.rows
  PROVE  x \in Expressions(k)
BY DEF Table, Expressions

\* The tables of a validated ontology refer only to expressions of its expression table.
LEMMA PreparedTables ==
  ASSUME NEW k, Prepared(k)
  PROVE  /\ \A row \in Table(k, "subclass") \cup Table(k, "equivalent") :
                row[2] \in Expressions(k) /\ row[3] \in Expressions(k)
         /\ \A x : Negative(k, x) \/ Positive(k, x) => x \in Expressions(k)
         /\ \A tag : \A x \in NegativeExpressions(k, tag) : x \in Expressions(k) /\ x[1] = tag
         /\ \A x \in Expressions(k) :
                /\ x[1] = "and" => x[2][1] \in Expressions(k) /\ x[2][2] \in Expressions(k)
                /\ x[1] = "some" => x[3] \in Expressions(k)
                /\ x[1] = "not" => x = <<"not", x[2]>> /\ x[2] \in Expressions(k)
                /\ x[1] \in {"some", "self"} => x[2] \in Relations(k)
         /\ \A row \in Table(k, "subproperty") : row[3] \in Relations(k)
<1> USE DEF Prepared, WellFormed, Table, Expressions
<1>1. \A x : <<"expr", x>> \in k.rows => x \in Expressions(k)
  BY IsExpression
<1>2. \A x \in Expressions(k) : ValidOperands(k.rows, x)
  OBVIOUS
<1>3. QED
  BY <1>1, <1>2 DEF Negative, Positive, NegativeExpressions, ValidOperands, Relations

\* The chains and ranges of the property view come from the tables.
LEMMA PreparedView ==
  ASSUME NEW k, Prepared(k)
  PROVE  /\ \A c \in k.compositions : c[3] \in LinkChains(k)
         /\ \A q \in k.ranges : q[2] \in Expressions(k)
         /\ Table(k, "range") = {} => k.ranges = {}
<1>1. /\ k.compositions = Saturated(k.rows).compositions
      /\ k.ranges = Saturated(k.rows).ranges
  BY DEF Prepared
<1>2. ASSUME NEW rows
      PROVE  /\ \A c \in Saturated(rows).compositions : c[3] \in Chains(rows)
             /\ \A q \in Saturated(rows).ranges : \E row \in rows : row[1] = "range" /\ q[2] = row[3]
  <2>1. \A sub : \A c \in CandidateCompositions(rows, sub) : c[3] \in Chains(rows)
    <3> SUFFICES ASSUME NEW sub, NEW c \in CandidateCompositions(rows, sub)
                 PROVE  c[3] \in Chains(rows)
      OBVIOUS
    <3>1. PICK result \in {h \in Chains(rows) : Len(h) > 1} :
            c \in {<<p[1], p[2][1], result>> :
                    p \in {q \in NamedSubs(sub, <<result[1]>>) \X sub :
                              /\ q[2][2] = Tail(result)
                              /\ ~(Tail(result) = <<result[1]>> /\ q[2][1] = result)}}
      BY DEF CandidateCompositions
    <3>2. PICK p : c = <<p[1], p[2][1], result>>
      BY <3>1
    <3> QED BY <3>1, <3>2
  <2>2. \A sub : \A q \in InheritedRanges(rows, sub) : \E row \in rows : row[1] = "range" /\ q[2] = row[3]
    <3> SUFFICES ASSUME NEW sub, NEW q \in InheritedRanges(rows, sub)
                 PROVE  \E row \in rows : row[1] = "range" /\ q[2] = row[3]
      OBVIOUS
    <3>1. PICK row \in {t \in rows : t[1] = "range"} :
            q \in {<<r, row[3]>> : r \in NamedSubs(sub, <<row[2]>>)}
      BY DEF InheritedRanges
    <3> QED BY <3>1
  <2>3. QED
    BY <2>1, <2>2 DEF Saturated
<1>4. \A row \in k.rows : row[1] = "range" => row[3] \in Expressions(k)
  BY IsExpression DEF Prepared, WellFormed
<1>5. QED
  BY <1>1, <1>2, <1>4 DEF LinkChains, Table

(***************************************************************************)
(* Routing: the products of a conclusion are conclusions about the same    *)
(* roots and the expressions of the ontology                               *)
(***************************************************************************)
LEMMA LinksFormed ==
  ASSUME NEW k, NEW roots, NEW d \in Named(k, roots), NEW r \in Relations(k),
         NEW t \in Named(k, roots)
  PROVE  Links(k, d, r, t) \subseteq Conclusions(k, roots)
<1>1. <<r>> \in LinkChains(k)
  BY DEF LinkChains
<1>2. /\ <<"bwd", t, r, d>> \in Conclusions(k, roots)
      /\ <<"fwd", d, <<r>>, t>> \in Conclusions(k, roots)
  BY <1>1, Formed
<1>3. QED
  BY <1>2 DEF Links

\* Composed links are conclusions about known contexts and chains.
LEMMA CompositionsFormed ==
  ASSUME NEW k, Prepared(k), NEW roots,
         NEW b \in Conclusions(k, roots), b[1] = "bwd",
         NEW f \in Conclusions(k, roots), f[1] = "fwd"
  PROVE  Compositions(k, b, f) \subseteq Conclusions(k, roots)
<1> SUFFICES ASSUME NEW q \in k.compositions
             PROVE  LinkComposition(k, b, f, q[3]) \subseteq Conclusions(k, roots)
  BY DEF Compositions
<1>1. b[4] \in Named(k, roots) /\ f[4] \in Named(k, roots)
  BY Shape
<1>2. q[3] \in LinkChains(k)
  BY PreparedView
<1>3. \A row \in Table(k, "subproperty") : row[3] \in Relations(k)
  BY PreparedTables
<1>4. ToldSuperLinks(k, q[3], b[4], f[4]) \subseteq Conclusions(k, roots)
  <2>1. \A row \in Table(k, "subproperty") : <<"bwd", f[4], row[3], b[4]>> \in Conclusions(k, roots)
    BY <1>1, <1>3, Formed
  <2>2. QED
    BY <2>1 DEF ToldSuperLinks
<1>5. QED
  BY <1>1, <1>2, <1>4, Formed DEF LinkComposition

\* What an expression is decomposed into is a conclusion about known contexts.
LEMMA DecompositionFormed ==
  ASSUME NEW k, Prepared(k), NEW roots, NEW S, NEW d \in Named(k, roots),
         NEW x \in Expressions(k)
  PROVE  Decomposition(k, S, d, x) \subseteq Conclusions(k, roots)
<1> DEFINE U == Conclusions(k, roots)
<1>0. Expressions(k) \subseteq Named(k, roots)
  BY DEF Named
<1>1. CASE x[1] = "and"
  <2>1. x[2][1] \in Named(k, roots) /\ x[2][2] \in Named(k, roots)
    BY <1>0, <1>1, PreparedTables
  <2>2. QED
    BY ZenonT(60), <1>1, <2>1, Formed DEF Decomposition, Nothing
<1>2. CASE x[1] = "some"
  <2>1. x[3] \in Named(k, roots) /\ x[2] \in Relations(k)
    BY <1>0, <1>2, PreparedTables
  <2>2. Links(k, d, x[2], x[3]) \subseteq U
    BY <2>1, LinksFormed
  <2>3. QED
    BY <1>2, <2>2 DEF Decomposition, Nothing
<1>3. CASE x[1] = "self"
  <2>1. x[2] \in Relations(k)
    BY <1>3, PreparedTables
  <2>2. Links(k, d, x[2], d) \subseteq U
    BY <2>1, LinksFormed
  <2>3. \A q \in k.ranges : <<"dec", d, q[2]>> \in U
    BY <1>0, PreparedView, Formed
  <2>4. QED
    BY <1>3, <2>2, <2>3 DEF Decomposition, Nothing
<1>4. CASE x[1] \notin {"and", "some", "self"}
  BY ZenonT(60), <1>4, Formed DEF Decomposition, Nothing
<1>5. QED
  BY <1>1, <1>2, <1>3, <1>4

\* Dispatching a conclusion in a context of conclusions produces conclusions: what
\* Calculus assumes of Dispatch and its universe.
LEMMA DispatchFormed ==
  ASSUME NEW k, Prepared(k), NEW roots,
         NEW S \in SUBSET Conclusions(k, roots), NEW p \in Conclusions(k, roots)
  PROVE  DispatchRule(k, S, p) \subseteq Conclusions(k, roots)
<1> DEFINE U == Conclusions(k, roots)
           E == Named(k, roots)
<1>0. /\ Expressions(k) \subseteq E /\ p[2] \in E
      /\ \A tag : NegativeExpressions(k, tag) \subseteq E
  BY Shape, PreparedTables DEF Named
<1>f. /\ \A d \in E : <<"init", d>> \in U /\ <<"bot", d>> \in U
      /\ \A d \in E, r \in Relations(k) : <<"sub", d, r>> \in U
      /\ \A d, x \in E : <<"dec", d, x>> \in U /\ <<"com", d, x>> \in U
      /\ \A d, x \in E, r \in Relations(k) : <<"bwd", d, r, x>> \in U /\ <<"prop", d, r, x>> \in U
      /\ \A d \in E, g \in Groups(k), i \in Positions(k) : <<"dis", d, g, i>> \in U
  BY Formed
<1> HIDE DEF U, E
<1>1. CASE p[1] = "init"
  <2>1. Negative(k, Thing) => Thing \in E
    BY <1>0, PreparedTables
  <2>2. OnContextInit(k, S, p) \subseteq U
    BY <1>0, <2>1, <1>f DEF OnContextInit
  <2>3. QED
    BY <1>1, <2>2 DEF DispatchRule, U
<1>2. CASE p[1] = "sub"
  <2>1. p[3] \in Relations(k)
    BY <1>2, Shape
  <2>2. \A x : Carried(k, p[3], x) \subseteq E
    BY <1>0 DEF Carried
  <2>3. OnSubContext(k, S, p) \subseteq U
    <3>1. \A x : {<<"prop", p[2], p[3], e>> : e \in Carried(k, p[3], x)} \subseteq U
      BY <1>0, <2>1, <2>2, <1>f
    <3>2. QED
      BY <3>1 DEF OnSubContext
  <2>4. QED
    BY <1>2, <2>3 DEF DispatchRule, U
<1>3. CASE p[1] = "dec"
  <2>1. p[3] \in E
    BY <1>3, Shape DEF E
  <2>2. \A row \in Table(k, "equivalent") : row[3] \in E
    BY <1>0, PreparedTables
  <2>3. Positive(k, p[3]) => Decomposition(k, S, p[2], p[3]) \subseteq U
    BY <1>0, PreparedTables, DecompositionFormed DEF U, E
  <2>4. OnDecomposed(k, S, p) \subseteq U
    BY <1>0, <2>1, <2>2, <2>3, <1>f DEF OnDecomposed
  <2>5. QED
    BY <1>3, <2>4 DEF DispatchRule, U
<1>4. CASE p[1] = "com"
  <2>1. Expansions(k, p[2], p[3]) \subseteq U
    <3>1. \A row \in Table(k, "subclass") \cup Table(k, "equivalent") : row[2] \in E /\ row[3] \in E
      BY <1>0, PreparedTables
    <3>2. QED
      BY ZenonT(60), <1>0, <3>1, <1>f DEF Expansions
  <2>2. ComposedConjunctions(k, S, p[2], p[3]) \subseteq U
    BY <1>0, <1>f DEF ComposedConjunctions
  <2>3. {<<"com", p[2], y>> : y \in {z \in NegativeExpressions(k, "or") :
                                      \E i \in DOMAIN z[2] : z[2][i] = p[3]}} \subseteq U
    BY <1>0, <1>f
  <2>4. ASSUME NEW c \in S, c[1] = "sub"
        PROVE  {<<"prop", p[2], c[3], e>> : e \in Carried(k, c[3], p[3])} \subseteq U
    <3>1. c[3] \in Relations(k)
      BY <2>4, Shape
    <3>2. Carried(k, c[3], p[3]) \subseteq E
      BY <1>0 DEF Carried
    <3>3. QED
      BY <1>0, <3>1, <3>2, <1>f
  <2>5. Clashes(k, S, p[2], p[3]) \subseteq U
    <3>1. ASSUME NEW row \in Table(k, "disjoint"), NEW i \in DOMAIN row[2]
          PROVE  <<"dis", p[2], row[2], i>> \in U
      <4>1. row[2] \in Groups(k) /\ i \in Positions(k)
        BY DEF Groups, Positions
      <4>2. QED
        BY <1>0, <4>1, <1>f
    <3>2. <<"bot", p[2]>> \in U
      BY <1>0, <1>f
    <3>3. QED
      BY <3>1, <3>2 DEF Clashes
  <2>6. OnComposed(k, S, p) \subseteq U
    <3>1. Propagations(k, S, p[2], p[3]) \subseteq U
      BY <2>4 DEF Propagations
    <3>2. ComposedDisjunctions(k, p[2], p[3]) \subseteq U
      BY <2>3 DEF ComposedDisjunctions
    <3>3. QED
      BY <2>1, <2>2, <2>5, <3>1, <3>2 DEF OnComposed
  <2>7. QED
    BY <1>4, <2>6 DEF DispatchRule, U
<1>5. CASE p[1] = "fwd"
  <2>1. p[4] \in E
    BY <1>5, Shape DEF E
  <2>2. ToldSuperLinks(k, p[3], p[2], p[4]) \subseteq U
    <3>1. \A row \in Table(k, "subproperty") : <<"bwd", p[4], row[3], p[2]>> \in U
      BY <1>0, <2>1, PreparedTables, <1>f
    <3>2. QED
      BY <3>1 DEF ToldSuperLinks
  <2>3. \A c \in S : c[1] = "bwd" => Compositions(k, c, p) \subseteq U
    BY <1>5, CompositionsFormed DEF U
  <2>4. OnForward(k, S, p) \subseteq U
    BY <2>2, <2>3 DEF OnForward
  <2>5. QED
    BY <1>5, <2>4 DEF DispatchRule, U
<1>6. CASE p[1] = "bwd"
  <2>1. p[4] \in E /\ p[3] \in Relations(k)
    BY <1>6, Shape DEF E
  <2>2. \A c \in S : c[1] = "fwd" => Compositions(k, p, c) \subseteq U
    BY <1>6, CompositionsFormed DEF U
  <2>3. \A c \in S : c[1] = "prop" => c[4] \in E
    BY Shape DEF E
  <2>4. \A q \in k.ranges : q[2] \in E
    BY <1>0, PreparedView
  <2>5. OnBackward(k, S, p) \subseteq U
    BY <1>0, <2>1, <2>2, <2>3, <2>4, <1>f DEF OnBackward
  <2>6. QED
    BY <1>6, <2>5 DEF DispatchRule, U
<1>7. CASE p[1] = "prop"
  <2>1. p[4] \in E /\ \A c \in S : c[1] = "bwd" => c[4] \in E
    BY <1>7, Shape DEF E
  <2>2. OnPropagation(k, S, p) \subseteq U
    BY <2>1, <1>f DEF OnPropagation
  <2>3. QED
    BY <1>7, <2>2 DEF DispatchRule, U
<1>8. CASE p[1] = "dis"
  BY <1>0, <1>8, <1>f DEF DispatchRule, OnDisjoint, U
<1>9. CASE p[1] = "bot"
  <2>1. \A c \in S : c[1] = "bwd" => c[4] \in E
    BY Shape DEF E
  <2>2. OnInconsistency(k, S, p) \subseteq U
    BY <2>1, <1>f DEF OnInconsistency
  <2>3. QED
    BY <1>9, <2>2 DEF DispatchRule, U
<1>10. QED
  BY <1>1, <1>2, <1>3, <1>4, <1>5, <1>6, <1>7, <1>8, <1>9, Shape DEF U

(***************************************************************************)
(* A rule has one premise, or two of the same context                      *)
(***************************************************************************)
Tags == {"init", "sub", "dec", "com", "fwd", "bwd", "prop", "dis", "bot"}

\* Every conclusion is of one of the nine kinds that dispatch tells apart.
LEMMA HasTag ==
  ASSUME NEW k, NEW roots, NEW c \in Conclusions(k, roots)
  PROVE  c[1] \in Tags
BY Shape DEF Tags

\* The rules are monotone in what the context stores: no rule asks for an absence.
LEMMA DispatchMonotone ==
  ASSUME NEW k, NEW S, NEW T \in SUBSET S, NEW p, p[1] \in Tags
  PROVE  DispatchRule(k, T, p) \subseteq DispatchRule(k, S, p)
<1> DEFINE d == p[2]
           x == p[3]
<1>1. CASE p[1] = "init"
  BY <1>1 DEF DispatchRule, OnContextInit
<1>2. CASE p[1] = "sub"
  <2>1. OnSubContext(k, T, p) \subseteq OnSubContext(k, S, p)
    BY DEF OnSubContext
  <2>2. QED
    BY <1>2, <2>1 DEF DispatchRule
<1>3. CASE p[1] = "dec"
  <2>1. Decomposition(k, T, d, x) \subseteq Decomposition(k, S, d, x)
    BY DEF Decomposition
  <2>2. OnDecomposed(k, T, p) \subseteq OnDecomposed(k, S, p)
    BY <2>1 DEF OnDecomposed
  <2>3. QED
    BY <1>3, <2>2 DEF DispatchRule
<1>4. CASE p[1] = "com"
  <2>1. ComposedConjunctions(k, T, d, x) \subseteq ComposedConjunctions(k, S, d, x)
    BY DEF ComposedConjunctions
  <2>2. Propagations(k, T, d, x) \subseteq Propagations(k, S, d, x)
    BY DEF Propagations
  <2>3. Clashes(k, T, d, x) \subseteq Clashes(k, S, d, x)
    BY DEF Clashes
  <2>4. OnComposed(k, T, p) \subseteq OnComposed(k, S, p)
    BY <2>1, <2>2, <2>3 DEF OnComposed
  <2>5. QED
    BY <1>4, <2>4 DEF DispatchRule
<1>5. CASE p[1] = "fwd"
  <2>1. OnForward(k, T, p) \subseteq OnForward(k, S, p)
    BY DEF OnForward
  <2>2. QED
    BY <1>5, <2>1 DEF DispatchRule
<1>6. CASE p[1] = "bwd"
  <2>1. OnBackward(k, T, p) \subseteq OnBackward(k, S, p)
    BY DEF OnBackward
  <2>2. QED
    BY <1>6, <2>1 DEF DispatchRule
<1>7. CASE p[1] = "prop"
  BY <1>7 DEF DispatchRule, OnPropagation
<1>8. CASE p[1] = "dis"
  BY <1>8 DEF DispatchRule, OnDisjoint
<1>9. CASE p[1] = "bot"
  BY <1>9 DEF DispatchRule, OnInconsistency
<1>10. QED
  BY <1>1, <1>2, <1>3, <1>4, <1>5, <1>6, <1>7, <1>8, <1>9 DEF Tags

\* A product has at most one premise besides the dispatched one.
LEMMA TwoPremises ==
  ASSUME NEW k, NEW S, NEW p, p[1] \in Tags, NEW c \in DispatchRule(k, S, p)
  PROVE  c \in DispatchRule(k, {}, p) \/ \E s \in S : c \in DispatchRule(k, {s}, p)
<1> DEFINE d == p[2]
           x == p[3]
<1> SUFFICES ASSUME c \notin DispatchRule(k, {}, p)
             PROVE  \E s \in S : c \in DispatchRule(k, {s}, p)
  OBVIOUS
<1>1. CASE p[1] = "init"
  BY <1>1 DEF DispatchRule, OnContextInit
<1>2. CASE p[1] = "sub"
  <2>1. c \in OnSubContext(k, S, p)
    BY <1>2 DEF DispatchRule
  <2>2. PICK s \in S : s[1] = "com" /\ c \in {<<"prop", p[2], p[3], e>> : e \in Carried(k, p[3], s[3])}
    BY <2>1 DEF OnSubContext
  <2>3. c \in OnSubContext(k, {s}, p)
    BY <2>2 DEF OnSubContext
  <2>4. QED
    BY <1>2, <2>3 DEF DispatchRule
<1>3. CASE p[1] = "dec"
  <2>1. c \in OnDecomposed(k, S, p) /\ c \notin OnDecomposed(k, {}, p)
    BY <1>3 DEF DispatchRule
  <2>2. Positive(k, x) /\ c \in Decomposition(k, S, d, x) /\ c \notin Decomposition(k, {}, d, x)
    BY <2>1 DEF OnDecomposed
  <2>3. \E s \in S : c \in Decomposition(k, {s}, d, x)
    BY <2>2 DEF Decomposition
  <2>4. \E s \in S : c \in OnDecomposed(k, {s}, p)
    BY <2>2, <2>3 DEF OnDecomposed
  <2>5. QED
    BY <1>3, <2>4 DEF DispatchRule
<1>4. CASE p[1] = "com"
  <2>1. c \in OnComposed(k, S, p) /\ c \notin OnComposed(k, {}, p)
    BY <1>4 DEF DispatchRule
  <2>2. CASE c \in ComposedConjunctions(k, S, d, x)
    <3>1. \E s \in S : c \in ComposedConjunctions(k, {s}, d, x)
      BY <2>2 DEF ComposedConjunctions
    <3>2. QED
      BY <1>4, <3>1 DEF DispatchRule, OnComposed
  <2>3. CASE c \in Propagations(k, S, d, x)
    <3>1. PICK s \in S : s[1] = "sub" /\ c \in {<<"prop", d, s[3], e>> : e \in Carried(k, s[3], x)}
      BY <2>3 DEF Propagations
    <3>2. c \in Propagations(k, {s}, d, x)
      BY <3>1 DEF Propagations
    <3>3. QED
      BY <1>4, <3>2 DEF DispatchRule, OnComposed
  <2>4. CASE c \in Clashes(k, S, d, x) /\ c \notin Clashes(k, {}, d, x)
    <3>1. \E s \in S : c \in Clashes(k, {s}, d, x)
      BY <2>4 DEF Clashes
    <3>2. QED
      BY <1>4, <3>1 DEF DispatchRule, OnComposed
  <2>5. QED
    BY <2>1, <2>2, <2>3, <2>4 DEF OnComposed
<1>5. CASE p[1] = "fwd"
  <2>1. c \in OnForward(k, S, p) /\ c \notin OnForward(k, {}, p)
    BY <1>5 DEF DispatchRule
  <2>2. PICK s \in S : s[1] = "bwd" /\ c \in Compositions(k, s, p)
    BY <2>1 DEF OnForward
  <2>3. c \in OnForward(k, {s}, p)
    BY <2>2 DEF OnForward
  <2>4. QED
    BY <1>5, <2>3 DEF DispatchRule
<1>6. CASE p[1] = "bwd"
  <2>1. c \in OnBackward(k, S, p) /\ c \notin OnBackward(k, {}, p)
    BY <1>6 DEF DispatchRule
  <2>2. PICK s \in S : \/ s[1] = "prop" /\ s[3] = p[3] /\ c = <<"com", p[4], s[4]>>
                       \/ s[1] = "bot" /\ c = <<"bot", p[4]>>
                       \/ s[1] = "fwd" /\ c \in Compositions(k, p, s)
    BY <2>1 DEF OnBackward
  <2>3. c \in OnBackward(k, {s}, p)
    BY <2>2 DEF OnBackward
  <2>4. QED
    BY <1>6, <2>3 DEF DispatchRule
<1>7. CASE p[1] = "prop"
  BY <1>7 DEF DispatchRule, OnPropagation
<1>8. CASE p[1] = "dis"
  BY <1>8 DEF DispatchRule, OnDisjoint
<1>9. CASE p[1] = "bot"
  BY <1>9 DEF DispatchRule, OnInconsistency
<1>10. QED
  BY <1>1, <1>2, <1>3, <1>4, <1>5, <1>6, <1>7, <1>8, <1>9 DEF Tags

\* "Rules with multiple premises must be complete regardless of which premise arrives
\* last": what p derives only since q joined its context, q derives as well.
LEMMA LastPremise ==
  ASSUME NEW k, Prepared(k), NEW roots, NEW S, NEW p \in S, p \in Conclusions(k, roots),
         NEW q \in Conclusions(k, roots), p[2] = q[2]
  PROVE  DispatchRule(k, S \cup {q}, p)
            \subseteq DispatchRule(k, S, p) \cup DispatchRule(k, S \cup {q}, q)
<1> DEFINE Q == S \cup {q}
           d == p[2]
           x == p[3]
<1> SUFFICES ASSUME NEW c \in DispatchRule(k, Q, p), c \notin DispatchRule(k, S, p)
             PROVE  c \in DispatchRule(k, Q, q)
  OBVIOUS
<1>0. p \in Q /\ q \in Q /\ q[2] = d
  OBVIOUS
<1>1. CASE p[1] = "init"
  BY <1>1 DEF DispatchRule, OnContextInit
<1>2. CASE p[1] = "sub"
  <2>1. c \in OnSubContext(k, Q, p) /\ c \notin OnSubContext(k, S, p)
    BY <1>2 DEF DispatchRule
  <2>2. q[1] = "com" /\ c \in {<<"prop", d, x, e>> : e \in Carried(k, x, q[3])}
    BY <2>1 DEF OnSubContext
  <2>3. c \in Propagations(k, Q, d, q[3])
    BY <1>0, <1>2, <2>2 DEF Propagations
  <2>4. QED
    BY <1>0, <2>2, <2>3 DEF DispatchRule, OnComposed
<1>3. CASE p[1] = "dec"
  <2>1. c \in OnDecomposed(k, Q, p) /\ c \notin OnDecomposed(k, S, p)
    BY <1>3 DEF DispatchRule
  <2>2. Positive(k, x) /\ c \in Decomposition(k, Q, d, x) /\ c \notin Decomposition(k, S, d, x)
    BY <2>1 DEF OnDecomposed
  <2>3. x[1] = "not" /\ q = <<"com", d, x[2]>> /\ c = <<"bot", d>>
    BY <2>2 DEF Decomposition
  <2>4. p = <<"dec", d, x>> /\ x = <<"not", x[2]>>
    BY <1>3, <2>2, <2>3, Shape, PreparedTables
  <2>5. q[1] = "com" /\ q[2] = d /\ q[3] = x[2]
    BY <2>3
  <2>6. c \in Clashes(k, Q, d, q[3])
    BY <1>0, <2>2, <2>3, <2>4, <2>5 DEF Clashes
  <2>7. c \in OnComposed(k, Q, q)
    BY <2>5, <2>6 DEF OnComposed
  <2>8. QED
    BY <2>5, <2>7 DEF DispatchRule
<1>4. CASE p[1] = "com"
  <2>0. p = <<"com", d, x>>
    BY <1>4, Shape
  <2>1. c \in OnComposed(k, Q, p) /\ c \notin OnComposed(k, S, p)
    BY <1>4 DEF DispatchRule
  <2>2. CASE c \in ComposedConjunctions(k, Q, d, x) /\ c \notin ComposedConjunctions(k, S, d, x)
    <3>1. PICK z \in NegativeExpressions(k, "and") :
            /\ c = <<"com", d, z>>
            /\ \/ z[2][1] = x /\ <<"com", d, z[2][2]>> = q
               \/ z[2][2] = x /\ <<"com", d, z[2][1]>> = q
      BY <2>2 DEF ComposedConjunctions
    <3>2. q[1] = "com" /\ q[2] = d /\ <<"com", d, x>> \in Q
      BY <1>0, <2>0, <3>1
    <3>3. \/ z[2][2] = q[3] /\ <<"com", d, z[2][1]>> \in Q
          \/ z[2][1] = q[3] /\ <<"com", d, z[2][2]>> \in Q
      BY <3>1, <3>2
    <3>4. c \in ComposedConjunctions(k, Q, d, q[3])
      BY <3>1, <3>3 DEF ComposedConjunctions
    <3>5. c \in OnComposed(k, Q, q)
      BY <3>2, <3>4 DEF OnComposed
    <3>6. QED
      BY <3>2, <3>5 DEF DispatchRule
  <2>3. CASE c \in Propagations(k, Q, d, x) /\ c \notin Propagations(k, S, d, x)
    <3>1. q[1] = "sub" /\ c \in {<<"prop", d, q[3], e>> : e \in Carried(k, q[3], x)}
      BY <2>3 DEF Propagations
    <3>2. QED
      BY <1>0, <1>4, <3>1 DEF DispatchRule, OnSubContext
  <2>4. CASE c \in Clashes(k, Q, d, x) /\ c \notin Clashes(k, S, d, x)
    <3>1. q = <<"dec", d, <<"not", x>>>> /\ Positive(k, <<"not", x>>) /\ c = <<"bot", d>>
      BY <2>4 DEF Clashes
    <3>2. c \in Decomposition(k, Q, d, q[3])
      BY <1>0, <2>0, <3>1 DEF Decomposition
    <3>3. QED
      BY <3>1, <3>2 DEF DispatchRule, OnDecomposed
  <2>5. QED
    BY <2>1, <2>2, <2>3, <2>4 DEF OnComposed
<1>5. CASE p[1] = "fwd"
  <2>1. c \in OnForward(k, Q, p) /\ c \notin OnForward(k, S, p)
    BY <1>5 DEF DispatchRule
  <2>2. q[1] = "bwd" /\ c \in Compositions(k, q, p)
    BY <2>1 DEF OnForward
  <2>3. QED
    BY <1>0, <1>5, <2>2 DEF DispatchRule, OnBackward
<1>6. CASE p[1] = "bwd"
  <2>1. c \in OnBackward(k, Q, p) /\ c \notin OnBackward(k, S, p)
    BY <1>6 DEF DispatchRule
  <2>2. \/ q[1] = "prop" /\ q[3] = x /\ c = <<"com", p[4], q[4]>>
        \/ q[1] = "bot" /\ c = <<"bot", p[4]>>
        \/ q[1] = "fwd" /\ c \in Compositions(k, p, q)
    BY <2>1 DEF OnBackward
  <2>3. QED
    BY <1>0, <1>6, <2>2 DEF DispatchRule, OnPropagation, OnInconsistency, OnForward
<1>7. CASE p[1] = "prop"
  <2>1. q[1] = "bwd" /\ q[3] = x /\ c = <<"com", q[4], p[4]>>
    BY <1>7 DEF DispatchRule, OnPropagation
  <2>2. QED
    BY <1>0, <1>7, <2>1 DEF DispatchRule, OnBackward
<1>8. CASE p[1] = "dis"
  <2>1. q[1] = "dis" /\ q[3] = p[3] /\ q[4] # p[4] /\ c = <<"bot", d>>
    BY <1>8 DEF DispatchRule, OnDisjoint
  <2>2. QED
    BY <1>0, <1>8, <2>1 DEF DispatchRule, OnDisjoint
<1>9. CASE p[1] = "bot"
  <2>1. q[1] = "bwd" /\ c = <<"bot", q[4]>>
    BY <1>9 DEF DispatchRule, OnInconsistency
  <2>2. QED
    BY <1>0, <1>9, <2>1 DEF DispatchRule, OnBackward
<1>10. QED
  BY <1>1, <1>2, <1>3, <1>4, <1>5, <1>6, <1>7, <1>8, <1>9, HasTag DEF Tags

(***************************************************************************)
(* The universe is finite                                                  *)
(***************************************************************************)

\* The image of a finite set under a function is finite.
LEMMA FiniteImage ==
  ASSUME NEW S, IsFiniteSet(S), NEW f, DOMAIN f = S
  PROVE  IsFiniteSet({f[x] : x \in S})
<1> DEFINE T == {f[x] : x \in S}
           g == [x \in S |-> f[x]]
<1>1. g \in Surjection(S, T)
  BY DEF Surjection
<1>2. QED
  BY <1>1, FS_Surjection

\* The entries at a position of finitely many tuples are finitely many.
LEMMA FiniteEntries ==
  ASSUME NEW S, IsFiniteSet(S), NEW i
  PROVE  IsFiniteSet({s[i] : s \in S})
<1> DEFINE f == [s \in S |-> s[i]]
<1>1. IsFiniteSet({f[s] : s \in S})
  BY FiniteImage
<1>2. {f[s] : s \in S} = {s[i] : s \in S}
  OBVIOUS
<1>3. QED
  BY <1>1, <1>2

\* Finitely many triples.
LEMMA FiniteTriples ==
  ASSUME NEW A, IsFiniteSet(A), NEW B, IsFiniteSet(B), NEW C, IsFiniteSet(C)
  PROVE  IsFiniteSet(A \X B \X C)
<1> DEFINE D == (A \X B) \X C
           f == [q \in D |-> <<q[1][1], q[1][2], q[2]>>]
<1>1. IsFiniteSet(D)
  <2>1. IsFiniteSet(A \X B)
    BY FS_Product
  <2>2. QED
    BY <2>1, FS_Product
<1>2. IsFiniteSet({f[q] : q \in D})
  <2> HIDE DEF D
  <2>1. DOMAIN f = D
    OBVIOUS
  <2> HIDE DEF f
  <2>2. QED
    BY <1>1, <2>1, FiniteImage
<1>3. A \X B \X C \subseteq {f[q] : q \in D}
  <2> SUFFICES ASSUME NEW a \in A, NEW b \in B, NEW c \in C
               PROVE  <<a, b, c>> \in {f[q] : q \in D}
    OBVIOUS
  <2>1. <<<<a, b>>, c>> \in D /\ f[<<<<a, b>>, c>>] = <<a, b, c>>
    OBVIOUS
  <2>2. QED
    BY <2>1
<1>4. QED
  BY <1>2, <1>3, FS_Subset

\* Finitely many quadruples.
LEMMA FiniteQuadruples ==
  ASSUME NEW A, IsFiniteSet(A), NEW B, IsFiniteSet(B), NEW C, IsFiniteSet(C),
         NEW D, IsFiniteSet(D)
  PROVE  IsFiniteSet(A \X B \X C \X D)
<1> DEFINE T == (A \X B \X C) \X D
           f == [q \in T |-> <<q[1][1], q[1][2], q[1][3], q[2]>>]
<1>1. IsFiniteSet(T)
  <2>1. IsFiniteSet(A \X B \X C)
    BY FiniteTriples
  <2>2. QED
    BY <2>1, FS_Product
<1>2. IsFiniteSet({f[q] : q \in T})
  <2> HIDE DEF T
  <2>1. DOMAIN f = T
    OBVIOUS
  <2> HIDE DEF f
  <2>2. QED
    BY <1>1, <2>1, FiniteImage
<1>3. A \X B \X C \X D \subseteq {f[q] : q \in T}
  <2> SUFFICES ASSUME NEW a \in A, NEW b \in B, NEW c \in C, NEW d \in D
               PROVE  <<a, b, c, d>> \in {f[q] : q \in T}
    OBVIOUS
  <2>1. <<<<a, b, c>>, d>> \in T /\ f[<<<<a, b, c>>, d>>] = <<a, b, c, d>>
    OBVIOUS
  <2>2. QED
    BY <2>1
<1>4. QED
  BY <1>2, <1>3, FS_Subset

\* A table of the compiled ontology is finite.
LEMMA FiniteTable ==
  ASSUME NEW k, Prepared(k), NEW name
  PROVE  IsFiniteSet(Table(k, name))
BY FS_Subset DEF Prepared, WellFormed, Table

\* So are the expressions, properties, chains and disjoint groups conclusions are about.
LEMMA FiniteVocabulary ==
  ASSUME NEW k, Prepared(k)
  PROVE  /\ IsFiniteSet(Expressions(k)) /\ IsFiniteSet(Relations(k))
         /\ IsFiniteSet(LinkChains(k)) /\ IsFiniteSet(Groups(k)) /\ IsFiniteSet(Positions(k))
<1>1. IsFiniteSet(Expressions(k))
  BY FiniteTable, FiniteEntries DEF Expressions
<1>2. IsFiniteSet(Relations(k))
  <2>1. IsFiniteSet({x[2] : x \in {y \in Expressions(k) : y[1] \in {"some", "self"}}})
    <3>1. IsFiniteSet({y \in Expressions(k) : y[1] \in {"some", "self"}})
      BY <1>1, FS_Subset
    <3>2. QED
      BY <3>1, FiniteEntries
  <2>2. IsFiniteSet({row[3] : row \in Table(k, "subproperty")})
    BY FiniteTable, FiniteEntries
  <2>3. QED
    BY <2>1, <2>2, FS_Union DEF Relations
<1>3. IsFiniteSet(Groups(k))
  BY FiniteTable, FiniteEntries DEF Groups
<1>4. IsFiniteSet(Positions(k))
  <2> DEFINE f == [g \in Groups(k) |-> DOMAIN g]
  <2>1. IsFiniteSet({f[g] : g \in Groups(k)})
    BY <1>3, FiniteImage
  <2>2. \A g \in Groups(k) : IsFiniteSet(f[g])
    BY DEF Groups, Table, Prepared, WellFormed
  <2>3. \A T \in {f[g] : g \in Groups(k)} : IsFiniteSet(T)
    BY <2>2
  <2>4. IsFiniteSet(UNION {f[g] : g \in Groups(k)})
    BY <2>1, <2>3, FS_UNION
  <2>5. Positions(k) = UNION {f[g] : g \in Groups(k)}
    BY DEF Positions
  <2>6. QED
    BY <2>4, <2>5
<1>5. IsFiniteSet({<<r>> : r \in Relations(k)})
  <2> DEFINE f == [r \in Relations(k) |-> <<r>>]
  <2>1. IsFiniteSet({f[r] : r \in Relations(k)})
    BY <1>2, FiniteImage
  <2>2. {f[r] : r \in Relations(k)} = {<<r>> : r \in Relations(k)}
    OBVIOUS
  <2>3. QED
    BY <2>1, <2>2
<1>6. IsFiniteSet(Chains(k.rows))
  <2>0. IsFiniteSet(k.rows)
    BY DEF Prepared, WellFormed
  <2>1. IsFiniteSet({<<r>> : r \in ObjectProperties(k.rows)})
    <3> DEFINE P == ObjectProperties(k.rows)
               f == [r \in P |-> <<r>>]
    <3>1. IsFiniteSet({q \in k.rows : q[1] = "property"})
      BY <2>0, FS_Subset
    <3>2. IsFiniteSet(P)
      BY <3>1, FiniteEntries DEF ObjectProperties
    <3> HIDE DEF P
    <3>3. IsFiniteSet({f[r] : r \in P})
      BY <3>2, FiniteImage
    <3>4. {f[r] : r \in P} = {<<r>> : r \in P}
      OBVIOUS
    <3>5. QED
      BY <3>3, <3>4 DEF P
  <2>2. IsFiniteSet(UNION {ChainSuffixes(t[1]) : t \in Told(k.rows)})
    <3> DEFINE Rows == {q \in k.rows : q[1] = "subproperty"}
               f == [q \in Rows |-> ChainSuffixes(q[2])]
    <3>1. IsFiniteSet(Rows)
      BY <2>0, FS_Subset
    <3>2. IsFiniteSet({f[q] : q \in Rows})
      BY <3>1, FiniteImage
    <3>3. ASSUME NEW q \in Rows
          PROVE  IsFiniteSet(ChainSuffixes(q[2]))
      <4> DEFINE h == q[2]
                 g == [i \in DOMAIN h |-> SubSeq(h, i, Len(h))]
      <4>1. IsFiniteSet(DOMAIN h)
        <5>1. PICK P : h \in Seq(P)
          BY DEF Prepared, WellFormed
        <5> HIDE DEF h
        <5>2. DOMAIN h = 1 .. Len(h) /\ Len(h) \in Nat
          BY <5>1
        <5>3. QED
          BY <5>2, FS_Interval
      <4> HIDE DEF h
      <4>2. IsFiniteSet({g[i] : i \in DOMAIN h})
        BY <4>1, FiniteImage
      <4>3. {g[i] : i \in DOMAIN h} = {SubSeq(h, i, Len(h)) : i \in DOMAIN h}
        OBVIOUS
      <4>4. QED
        BY <4>2, <4>3 DEF ChainSuffixes, h
    <3>4. \A T \in {f[q] : q \in Rows} : IsFiniteSet(T)
      BY <3>3
    <3>5. IsFiniteSet(UNION {f[q] : q \in Rows})
      BY <3>2, <3>4, FS_UNION
    <3>6. UNION {ChainSuffixes(t[1]) : t \in Told(k.rows)} \subseteq UNION {f[q] : q \in Rows}
      <4> SUFFICES ASSUME NEW t \in Told(k.rows)
                   PROVE  ChainSuffixes(t[1]) \in {f[q] : q \in Rows}
        OBVIOUS
      <4>1. PICK q \in Rows : t = <<q[2], q[3]>>
        BY DEF Told
      <4>2. QED
        BY <4>1
    <3>7. QED
      BY <3>5, <3>6, FS_Subset
  <2>3. QED
    BY <2>1, <2>2, FS_Union DEF Chains
<1>7. QED
  BY <1>1, <1>2, <1>3, <1>4, <1>5, <1>6, FS_Union DEF LinkChains

\* Only finitely many conclusions can be drawn about finitely many roots.
LEMMA FiniteConclusions ==
  ASSUME NEW k, Prepared(k), NEW roots, IsFiniteSet(roots)
  PROVE  IsFiniteSet(Conclusions(k, roots))
<1> DEFINE E == Expressions(k) \cup roots
           R == Relations(k)
           H == LinkChains(k)
           G == Groups(k)
           P == Positions(k)
<1>1. IsFiniteSet(E) /\ IsFiniteSet(R) /\ IsFiniteSet(H) /\ IsFiniteSet(G) /\ IsFiniteSet(P)
  BY FiniteVocabulary, FS_Union
<1>2. /\ IsFiniteSet({"init", "bot"}) /\ IsFiniteSet({"sub"}) /\ IsFiniteSet({"dec", "com"})
      /\ IsFiniteSet({"fwd"}) /\ IsFiniteSet({"bwd", "prop"}) /\ IsFiniteSet({"dis"})
  <2>1. ASSUME NEW a, NEW b
        PROVE  IsFiniteSet({a, b})
    <3>1. IsFiniteSet({a} \cup {b})
      BY FS_Singleton, FS_AddElement
    <3>2. {a, b} = {a} \cup {b}
      OBVIOUS
    <3>3. QED
      BY <3>1, <3>2
  <2>2. QED
    BY <2>1, FS_Singleton
<1>3. Conclusions(k, roots) =
          ({"init", "bot"} \X E) \cup ({"sub"} \X E \X R) \cup ({"dec", "com"} \X E \X E)
            \cup ({"fwd"} \X E \X H \X E) \cup ({"bwd", "prop"} \X E \X R \X E)
            \cup ({"dis"} \X E \X G \X P)
  BY DEF Conclusions
<1> HIDE DEF E, R, H, G, P
<1>4. /\ IsFiniteSet({"init", "bot"} \X E)
      /\ IsFiniteSet({"sub"} \X E \X R)
      /\ IsFiniteSet({"dec", "com"} \X E \X E)
      /\ IsFiniteSet({"fwd"} \X E \X H \X E)
      /\ IsFiniteSet({"bwd", "prop"} \X E \X R \X E)
      /\ IsFiniteSet({"dis"} \X E \X G \X P)
  BY <1>1, <1>2, FS_Product, FiniteTriples, FiniteQuadruples
<1>5. IsFiniteSet(({"init", "bot"} \X E) \cup ({"sub"} \X E \X R))
  BY <1>4, FS_Union
<1>6. IsFiniteSet(({"init", "bot"} \X E) \cup ({"sub"} \X E \X R) \cup ({"dec", "com"} \X E \X E))
  BY <1>4, <1>5, FS_Union
<1>7. IsFiniteSet(({"init", "bot"} \X E) \cup ({"sub"} \X E \X R) \cup ({"dec", "com"} \X E \X E)
                    \cup ({"fwd"} \X E \X H \X E))
  BY <1>4, <1>6, FS_Union
<1>8. IsFiniteSet(({"init", "bot"} \X E) \cup ({"sub"} \X E \X R) \cup ({"dec", "com"} \X E \X E)
                    \cup ({"fwd"} \X E \X H \X E) \cup ({"bwd", "prop"} \X E \X R \X E))
  BY <1>4, <1>7, FS_Union
<1>9. IsFiniteSet(({"init", "bot"} \X E) \cup ({"sub"} \X E \X R) \cup ({"dec", "com"} \X E \X E)
                    \cup ({"fwd"} \X E \X H \X E) \cup ({"bwd", "prop"} \X E \X R \X E)
                    \cup ({"dis"} \X E \X G \X P))
  BY <1>4, <1>8, FS_Union
<1>10. QED
  BY <1>3, <1>9, Zenon

(***************************************************************************)
(* Rounds and the closure                                                  *)
(***************************************************************************)

\* What the scheduler assumes of the rules in module Calculus holds of RuleDispatcher,
\* whatever the compiled ontology: products are conclusions of a known context, dispatch is
\* monotone, and no rule depends on which of its premises arrives last.
THEOREM RulesMeetTheScheduler ==
  ASSUME NEW k, Prepared(k), NEW roots
  PROVE  /\ \A c \in Conclusions(k, roots) : Destination(c) \in Named(k, roots)
         /\ \A d \in Named(k, roots) :
                Initialization(d) \in Conclusions(k, roots) /\ Destination(Initialization(d)) = d
         /\ \A S \in SUBSET Conclusions(k, roots) : \A p \in Conclusions(k, roots) :
                /\ DispatchRule(k, S, p) \subseteq Conclusions(k, roots)
                /\ \A T \in SUBSET S : DispatchRule(k, T, p) \subseteq DispatchRule(k, S, p)
         /\ \A S \in SUBSET Conclusions(k, roots) : \A p \in S, q \in Conclusions(k, roots) :
                Destination(p) = Destination(q) =>
                    DispatchRule(k, S \cup {q}, p)
                        \subseteq DispatchRule(k, S, p) \cup DispatchRule(k, S \cup {q}, q)
<1>1. \A c \in Conclusions(k, roots) : Destination(c) \in Named(k, roots)
  BY Shape DEF Destination
<1>2. \A d \in Named(k, roots) :
        Initialization(d) \in Conclusions(k, roots) /\ Destination(Initialization(d)) = d
  BY Formed DEF Initialization, Destination
<1>3. ASSUME NEW S \in SUBSET Conclusions(k, roots), NEW p \in Conclusions(k, roots)
      PROVE  /\ DispatchRule(k, S, p) \subseteq Conclusions(k, roots)
             /\ \A T \in SUBSET S : DispatchRule(k, T, p) \subseteq DispatchRule(k, S, p)
  BY DispatchFormed, DispatchMonotone, HasTag
<1>4. ASSUME NEW S \in SUBSET Conclusions(k, roots), NEW p \in S, NEW q \in Conclusions(k, roots),
             Destination(p) = Destination(q)
      PROVE  DispatchRule(k, S \cup {q}, p)
                \subseteq DispatchRule(k, S, p) \cup DispatchRule(k, S \cup {q}, q)
  BY <1>4, LastPremise DEF Destination
<1>5. QED
  BY <1>1, <1>2, <1>3, <1>4

\* A round of dispatches stays within the conclusions about the same roots.
LEMMA RoundFormed ==
  ASSUME NEW k, Prepared(k), NEW roots, NEW C \in SUBSET Conclusions(k, roots)
  PROVE  Round(k, C) \in SUBSET Conclusions(k, roots)
<1>1. ASSUME NEW p \in C
      PROVE  /\ DispatchRule(k, At(C, Destination(p)), p) \subseteq Conclusions(k, roots)
             /\ Initialization(Destination(p)) \in Conclusions(k, roots)
  <2>1. At(C, Destination(p)) \in SUBSET Conclusions(k, roots)
    BY DEF At
  <2>2. QED
    BY <2>1, RulesMeetTheScheduler
<1>2. QED
  BY <1>1 DEF Round

\* Only the conclusions of the smaller set need to be well-formed.
LEMMA RoundMonotone ==
  ASSUME NEW k, NEW roots, NEW D, NEW C \in SUBSET D, C \subseteq Conclusions(k, roots)
  PROVE  Round(k, C) \subseteq Round(k, D)
<1>1. ASSUME NEW p \in C
      PROVE  DispatchRule(k, At(C, Destination(p)), p)
                \subseteq DispatchRule(k, At(D, Destination(p)), p)
  <2>1. At(C, Destination(p)) \in SUBSET At(D, Destination(p))
    BY DEF At
  <2>2. QED
    BY <2>1, DispatchMonotone, HasTag
<1>2. QED
  BY <1>1 DEF Round

\* C is a fixed point of the rules in which every addressed context is initialised.
Closed(k, C) == Round(k, C) \subseteq C

\* A set is closed when dispatching its members adds nothing.
LEMMA ClosedMeans ==
  ASSUME NEW k, NEW C
  PROVE  /\ Closed(k, C) <=> Round(k, C) = C
         /\ Closed(k, C) <=> \A p \in C :
                /\ Initialization(Destination(p)) \in C
                /\ DispatchRule(k, At(C, Destination(p)), p) \subseteq C
BY DEF Closed, Round

\* A nonempty family of subsets of a finite set has a minimal member.
LEMMA MinimalMember ==
  ASSUME NEW U, IsFiniteSet(U), NEW F \in SUBSET SUBSET U, F # {}
  PROVE  \E X \in F : \A Y \in F : Y \subseteq X => Y = X
<1> DEFINE R == StrictSubsetOrdering(U)
<1>1. IsWellFoundedOn(R, SUBSET U)
  <2>1. IsWellFoundedOn(R, FiniteSubsetsOf(U))
    BY FS_StrictSubsetOrderingWellFounded
  <2>2. QED
    BY <2>1, FS_FiniteSubsetsOfFinite
<1>2. PICK X \in F : \A Y \in F : ~ (<<Y, X>> \in R)
  <2> HIDE DEF R
  <2>1. QED
    BY <1>1, WFMin
<1>3. QED
  BY <1>2 DEF StrictSubsetOrdering

\* And a maximal one.
LEMMA MaximalMember ==
  ASSUME NEW U, IsFiniteSet(U), NEW F \in SUBSET SUBSET U, F # {}
  PROVE  \E X \in F : \A Y \in F : X \subseteq Y => Y = X
<1> DEFINE G == {U \ X : X \in F}
<1>1. G \in SUBSET SUBSET U /\ G # {}
  <2>1. PICK X : X \in F
    OBVIOUS
  <2>2. U \ X \in G
    BY <2>1
  <2>3. G \in SUBSET SUBSET U
    OBVIOUS
  <2> HIDE DEF G
  <2>4. QED
    BY <2>2, <2>3
<1>2. \E Z \in G : \A Y \in G : Y \subseteq Z => Y = Z
  <2> HIDE DEF G
  <2>1. QED
    BY <1>1, MinimalMember
<1>3. PICK X \in F : \A Y \in G : Y \subseteq U \ X => Y = U \ X
  BY ZenonT(60), <1>2
<1>4. ASSUME NEW Y \in F, X \subseteq Y
      PROVE  Y = X
  <2>1. U \ Y \in G /\ U \ Y \subseteq U \ X
    BY <1>4
  <2>2. U \ Y = U \ X
    BY <1>3, <2>1
  <2>3. QED
    BY <2>2
<1>5. QED
  BY <1>4

\* The least closed superset of C among the conclusions about these roots.
Least(k, roots, C) ==
    {c \in Conclusions(k, roots) :
        \A X \in SUBSET Conclusions(k, roots) : C \subseteq X /\ Closed(k, X) => c \in X}

\* A closed set is the least closed set around itself.
LEMMA LeastOfClosed ==
  ASSUME NEW k, NEW roots, NEW C \in SUBSET Conclusions(k, roots), Closed(k, C)
  PROVE  Least(k, roots, C) = C
BY DEF Least

\* A round does not change the least closed set.
LEMMA LeastOfRound ==
  ASSUME NEW k, NEW roots, NEW C \in SUBSET Conclusions(k, roots)
  PROVE  Least(k, roots, Round(k, C)) = Least(k, roots, C)
<1>1. ASSUME NEW X \in SUBSET Conclusions(k, roots), Closed(k, X)
      PROVE  C \subseteq X <=> Round(k, C) \subseteq X
  <2>1. C \subseteq X => Round(k, C) \subseteq Round(k, X)
    BY RoundMonotone
  <2>2. C \subseteq Round(k, C)
    BY DEF Round
  <2>3. QED
    BY <1>1, <2>1, <2>2 DEF Closed
<1>2. QED
  BY <1>1 DEF Least

\* The least closed set around C holds C and is closed: the rules are monotone.
LEMMA LeastIsClosed ==
  ASSUME NEW k, Prepared(k), NEW roots, NEW C \in SUBSET Conclusions(k, roots)
  PROVE  /\ C \subseteq Least(k, roots, C)
         /\ Closed(k, Least(k, roots, C))
<1> DEFINE L == Least(k, roots, C)
           U == Conclusions(k, roots)
<1>1. L \in SUBSET U /\ C \subseteq L
  BY DEF Least
<1>2. Round(k, L) \subseteq U
  BY <1>1, RoundFormed
<1>3. ASSUME NEW X \in SUBSET U, C \subseteq X, Closed(k, X)
      PROVE  Round(k, L) \subseteq X
  <2>1. L \subseteq X
    BY <1>3 DEF Least
  <2>2. Round(k, L) \subseteq Round(k, X)
    BY <1>1, <2>1, RoundMonotone
  <2>3. QED
    BY <1>3, <2>2 DEF Closed
<1>4. \A c \in Round(k, L) : c \in L
  BY <1>2, <1>3 DEF Least
<1>5. QED
  BY <1>1, <1>4 DEF Closed

\* The rounds of the recursive function end in the least closed superset.
LEMMA RoundsReachLeast ==
  ASSUME NEW k, Prepared(k), NEW roots, IsFiniteSet(roots), NEW close,
         close = [D \in SUBSET Conclusions(k, roots) |->
                    IF Round(k, D) = D THEN D ELSE close[Round(k, D)]],
         NEW C \in SUBSET Conclusions(k, roots)
  PROVE  close[C] = Least(k, roots, C)
<1> DEFINE U == Conclusions(k, roots)
           F == {D \in SUBSET U : close[D] # Least(k, roots, D)}
<1> SUFFICES ASSUME F # {}
             PROVE  FALSE
  OBVIOUS
<1>1. PICK D \in F : \A Y \in F : D \subseteq Y => Y = D
  <2>1. IsFiniteSet(U)
    BY FiniteConclusions
  <2>2. F \in SUBSET SUBSET U
    OBVIOUS
  <2> HIDE DEF F, U
  <2>3. QED
    BY <2>1, <2>2, MaximalMember
<1>2. D \in SUBSET U /\ close[D] # Least(k, roots, D)
  OBVIOUS
<1>3. close[D] = IF Round(k, D) = D THEN D ELSE close[Round(k, D)]
  BY <1>2
<1>4. CASE Round(k, D) = D
  BY <1>2, <1>3, <1>4, LeastOfClosed DEF Closed
<1>5. CASE Round(k, D) # D
  <2>1. D \subseteq Round(k, D) /\ Round(k, D) \in SUBSET U
    BY <1>2, RoundFormed DEF Round
  <2>2. close[Round(k, D)] = Least(k, roots, Round(k, D))
    BY <1>1, <1>5, <2>1
  <2>3. QED
    BY <1>2, <1>3, <1>5, <2>2, LeastOfRound
<1>6. QED
  BY <1>4, <1>5

\* The rounds of ClosureOf end, since each but the last adds one of finitely many
\* conclusions, and end in the least closed set.
LEMMA ClosureDefined ==
  ASSUME NEW k, Prepared(k), NEW C, IsFiniteSet({Destination(c) : c \in C}),
         C \subseteq Conclusions(k, {Destination(c) : c \in C})
  PROVE  ClosureOf(k, C) = Least(k, {Destination(c) : c \in C}, C)
<1> DEFINE roots == {Destination(c) : c \in C}
           U == Conclusions(k, roots)
           Equation(f) == f = [D \in SUBSET U |-> IF Round(k, D) = D THEN D ELSE f[Round(k, D)]]
           close == CHOOSE f : Equation(f)
           least == [D \in SUBSET U |-> Least(k, roots, D)]
<1>1. ClosureOf(k, C) = close[C]
  BY DEF ClosureOf
<1>2. Equation(least)
  <2>1. ASSUME NEW D \in SUBSET U
        PROVE  least[D] = IF Round(k, D) = D THEN D ELSE least[Round(k, D)]
    <3>1. Round(k, D) \in SUBSET U
      BY RoundFormed
    <3>2. least[D] = Least(k, roots, D) /\ least[Round(k, D)] = Least(k, roots, D)
      BY <3>1, LeastOfRound
    <3>3. Round(k, D) = D => Least(k, roots, D) = D
      BY LeastOfClosed DEF Closed
    <3>4. QED
      BY <3>2, <3>3
  <2> HIDE DEF U, roots
  <2>2. QED
    BY <2>1
<1> HIDE DEF Equation, least
<1>3. Equation(close)
  BY <1>2
<1>4. close[C] = Least(k, roots, C)
  <2> HIDE DEF close
  <2>1. close = [D \in SUBSET U |-> IF Round(k, D) = D THEN D ELSE close[Round(k, D)]]
    BY <1>3 DEF Equation
  <2> HIDE DEF roots
  <2>2. IsFiniteSet(roots) /\ C \in SUBSET Conclusions(k, roots)
    BY DEF roots
  <2>3. QED
    BY <2>1, <2>2, RoundsReachLeast
<1>5. QED
  BY <1>1, <1>4

\* What the layers above call saturation is well defined for every validated ontology: the
\* rounds of ClosureOf end, in the least set that holds C and is closed under the rules.
THEOREM ClosureIsLeast ==
  ASSUME NEW k, Prepared(k), NEW C, IsFiniteSet({Destination(c) : c \in C}),
         C \subseteq Conclusions(k, {Destination(c) : c \in C})
  PROVE  /\ ClosureOf(k, C) \subseteq Conclusions(k, {Destination(c) : c \in C})
         /\ C \subseteq ClosureOf(k, C)
         /\ Closed(k, ClosureOf(k, C))
         /\ \A X : C \subseteq X /\ Closed(k, X) => ClosureOf(k, C) \subseteq X
<1> DEFINE roots == {Destination(c) : c \in C}
           U == Conclusions(k, roots)
           L == Least(k, roots, C)
<1>1. ClosureOf(k, C) = L
  BY ClosureDefined
<1>2. C \subseteq L /\ Closed(k, L)
  BY LeastIsClosed
<1>3. L \subseteq U
  BY DEF Least
<1>4. ASSUME NEW X, C \subseteq X, Closed(k, X)
      PROVE  L \subseteq X
  <2>1. X \cap U \in SUBSET U /\ X \cap U \in SUBSET X /\ C \subseteq X \cap U
    BY <1>4
  <2>2. Round(k, X \cap U) \subseteq U
    BY <2>1, RoundFormed
  <2>3. Round(k, X \cap U) \subseteq X
    BY <1>4, <2>1, RoundMonotone DEF Closed
  <2>4. Closed(k, X \cap U)
    BY <2>2, <2>3 DEF Closed
  <2>5. QED
    BY <2>1, <2>4 DEF Least
<1>5. QED
  BY <1>1, <1>2, <1>3, <1>4

\* Saturating finitely many roots together: the least closed set with their contexts.
LEMMA DerivedIsLeast ==
  ASSUME NEW k, Prepared(k), NEW roots, IsFiniteSet(roots)
  PROVE  /\ Derived(k, roots) \subseteq Conclusions(k, roots)
         /\ \A d \in roots : Initialization(d) \in Derived(k, roots)
         /\ Closed(k, Derived(k, roots))
         /\ \A X : (\A d \in roots : Initialization(d) \in X) /\ Closed(k, X)
                      => Derived(k, roots) \subseteq X
<1> DEFINE C == {Initialization(d) : d \in roots}
<1>1. {Destination(c) : c \in C} = roots
  <2>1. \A d \in roots : Destination(Initialization(d)) = d
    BY DEF Destination, Initialization
  <2>2. QED
    BY <2>1
<1>2. C \subseteq Conclusions(k, roots)
  <2>1. roots \subseteq Named(k, roots)
    BY DEF Named
  <2>2. QED
    BY <2>1, Formed DEF Initialization
<1> HIDE DEF C
<1>3. /\ ClosureOf(k, C) \subseteq Conclusions(k, roots)
      /\ C \subseteq ClosureOf(k, C)
      /\ Closed(k, ClosureOf(k, C))
      /\ \A X : C \subseteq X /\ Closed(k, X) => ClosureOf(k, C) \subseteq X
  BY <1>1, <1>2, ClosureIsLeast
<1>4. Derived(k, roots) = ClosureOf(k, C)
  BY DEF Derived, C
<1>5. QED
  BY <1>3, <1>4 DEF C

\* Saturating more roots together derives no less about one of them.
LEMMA DerivedGrows ==
  ASSUME NEW k, Prepared(k), NEW roots, IsFiniteSet(roots), NEW d \in roots
  PROVE  Derived(k, {d}) \subseteq Derived(k, roots)
BY DerivedIsLeast, FS_Singleton

(***************************************************************************)
(* Without ranges, saturating other roots in the same engine adds nothing  *)
(* to what a root derives on its own                                       *)
(***************************************************************************)

\* c does not reach into the contexts of L with news.  Backward links and propagations are
\* stored with the target: a foreign source may link to a context of L, and what is
\* propagated to it stays there.
Local(L, c) ==
    LET own == {Destination(q) : q \in L}
    IN  /\ c[1] \in {"dec", "com", "bot", "dis", "fwd"} /\ c[2] \in own => c \in L
        /\ c[1] = "bwd" /\ c[4] \in own => c \in L
        /\ c[1] = "prop" /\ <<"sub", c[2], c[3]>> \in L => c \in L

\* A composed link starts in the context the backward link of the composition started in.
LEMMA ComposedLinks ==
  ASSUME NEW k, NEW b, NEW f, NEW c \in Compositions(k, b, f)
  PROVE  \/ c[1] = "fwd" /\ c[2] = b[4]
         \/ c[1] = "bwd" /\ c[4] = b[4]
BY DEF Compositions, LinkComposition, ToldSuperLinks

\* Where the products of a premise about one context go.
LEMMA ProductsOfDecomposed ==
  ASSUME NEW k, NEW S, NEW p, NEW c \in OnDecomposed(k, S, p)
  PROVE  \/ c[1] \in {"dec", "com", "bot", "fwd"} /\ c[2] = p[2]
         \/ c[1] = "bwd" /\ c[4] = p[2]
<1>1. ASSUME NEW r, NEW t, NEW q \in Links(k, p[2], r, t)
      PROVE  \/ q[1] = "fwd" /\ q[2] = p[2]
             \/ q[1] = "bwd" /\ q[4] = p[2]
  <2>1. q = <<"bwd", t, r, p[2]>> \/ q = <<"fwd", p[2], <<r>>, t>>
    BY DEF Links
  <2>2. QED
    BY <2>1
<1>2. ASSUME c \in Decomposition(k, S, p[2], p[3])
      PROVE  \/ c[1] \in {"dec", "com", "bot", "fwd"} /\ c[2] = p[2]
             \/ c[1] = "bwd" /\ c[4] = p[2]
  <2> DEFINE x == p[3]
  <2>1. CASE x[1] = "some"
    <3>1. c \in Links(k, p[2], x[2], x[3])
      BY <1>2, <2>1 DEF Decomposition, Nothing
    <3>2. QED
      BY <1>1, <3>1
  <2>2. CASE x[1] = "self"
    <3>1. \/ c \in Links(k, p[2], x[2], p[2])
          \/ c[1] = "dec" /\ c[2] = p[2]
      BY <1>2, <2>2 DEF Decomposition, Nothing
    <3>2. QED
      BY <1>1, <3>1
  <2>3. CASE x[1] \notin {"some", "self"}
    BY <1>2, <2>3 DEF Decomposition
  <2>4. QED
    BY <2>1, <2>2, <2>3
<1>3. QED
  BY <1>2 DEF OnDecomposed

\* The same for a composed subsumer: only propagations are about a link.
LEMMA ProductsOfComposed ==
  ASSUME NEW k, NEW S, NEW p, NEW c \in OnComposed(k, S, p)
  PROVE  \/ c[1] \in {"dec", "com", "bot", "dis"} /\ c[2] = p[2]
         \/ c \in Propagations(k, S, p[2], p[3])
<1> DEFINE d == p[2]
           x == p[3]
           Here(q) == q[1] \in {"dec", "com", "bot", "dis"} /\ q[2] = d
<1>1. \A q \in Expansions(k, d, x) : Here(q)
  BY DEF Expansions
<1>2. /\ \A q \in ComposedConjunctions(k, S, d, x) : Here(q)
      /\ \A q \in ComposedDisjunctions(k, d, x) : Here(q)
  <2>1. \A y : Here(<<"com", d, y>>)
    OBVIOUS
  <2> HIDE DEF Here
  <2>2. QED
    BY <2>1 DEF ComposedConjunctions, ComposedDisjunctions
<1>3. \A q \in Clashes(k, S, d, x) : Here(q)
  BY DEF Clashes
<1>4. QED
  BY <1>1, <1>2, <1>3 DEF OnComposed

\* Without ranges, the conclusions that bring no news into the contexts of a closed L are
\* closed under the rules.
LEMMA LocalIsClosed ==
  ASSUME NEW k, Prepared(k), Table(k, "range") = {}, NEW roots, NEW L \in SUBSET Conclusions(k, roots),
         Closed(k, L)
  PROVE  Closed(k, {c \in Conclusions(k, roots) : Local(L, c)})
<1> DEFINE U == Conclusions(k, roots)
           own == {Destination(q) : q \in L}
           Y == {c \in U : Local(L, c)}
<1>1. \A c \in U :
        Local(L, c) <=>
          /\ c[1] \in {"dec", "com", "bot", "dis", "fwd"} /\ c[2] \in own => c \in L
          /\ c[1] = "bwd" /\ c[4] \in own => c \in L
          /\ c[1] = "prop" /\ <<"sub", c[2], c[3]>> \in L => c \in L
  BY DEF Local
<1>2. ASSUME NEW p \in L
      PROVE  /\ p[2] \in own /\ Initialization(p[2]) \in L
             /\ DispatchRule(k, {}, p) \subseteq L
             /\ \A s \in L : s[2] = p[2] => DispatchRule(k, {s}, p) \subseteq L
  <2>1. DispatchRule(k, At(L, p[2]), p) \subseteq L /\ Initialization(p[2]) \in L
    BY ClosedMeans DEF Destination
  <2>2. {} \in SUBSET At(L, p[2]) /\ \A s \in L : s[2] = p[2] => {s} \in SUBSET At(L, p[2])
    BY DEF At, Destination
  <2>3. QED
    BY <2>1, <2>2, DispatchMonotone, HasTag DEF Destination
<1>3. \A t \in own : Initialization(t) \in L
  BY <1>2 DEF Destination
<1>4. k.ranges = {}
  BY PreparedView
<1> SUFFICES ASSUME NEW p \in Y
             PROVE  /\ Initialization(p[2]) \in Y
                    /\ DispatchRule(k, At(Y, p[2]), p) \subseteq Y
  BY ClosedMeans DEF Destination
<1>5. p \in U /\ Local(L, p) /\ p[1] \in Tags
  BY HasTag
<1>6. Initialization(p[2]) \in Y
  <2>1. Initialization(p[2]) \in U
    BY RulesMeetTheScheduler DEF Destination
  <2>2. QED
    BY <2>1 DEF Local, Initialization
<1>7. DispatchRule(k, At(Y, p[2]), p) \subseteq U
  <2>1. At(Y, p[2]) \in SUBSET U
    BY DEF At
  <2>2. QED
    BY <2>1, DispatchFormed
<1> SUFFICES ASSUME NEW c \in DispatchRule(k, At(Y, p[2]), p)
             PROVE  Local(L, c)
  BY <1>6, <1>7
<1>8. PICK S : /\ c \in DispatchRule(k, S, p)
               /\ \/ S = {}
                  \/ c \notin DispatchRule(k, {}, p) /\ \E s \in At(Y, p[2]) : S = {s}
  BY <1>5, TwoPremises
<1>9. \A s \in S : s \in U /\ s[2] = p[2] /\ Local(L, s)
  BY <1>8 DEF At, Destination
<1>10. ASSUME p \in L, \A s \in S : s \in L
       PROVE  c \in L
  BY <1>2, <1>8, <1>9, <1>10
<1>11. ASSUME p[2] \in own, p[1] \in {"init", "dec", "com", "bot", "dis", "fwd"},
              \A s \in S : s[1] \in {"dec", "com", "bot", "dis", "fwd"}
       PROVE  c \in L
  <2>1. p \in L
    <3>1. p[1] = "init" => p = Initialization(p[2])
      BY <1>5, Shape DEF Initialization
    <3>2. QED
      BY <1>1, <1>3, <1>5, <1>11, <3>1
  <2>2. \A s \in S : s \in L
    BY <1>1, <1>9, <1>11
  <2>3. QED
    BY <1>10, <2>1, <2>2
<1>12. c \in U
  BY <1>7
<1>13. ASSUME NEW b \in L, NEW f, b[1] = "bwd", f[1] = "fwd", f \in U, Local(L, f), f[2] = b[2]
       PROVE  f \in L
  BY <1>1, <1>2, <1>13
<1> HIDE DEF Y, own, U
<1>14. CASE p[1] = "init"
  <2>1. c[1] \in {"dec", "com"} /\ c[2] = p[2] /\ S = {}
    BY <1>8, <1>14 DEF DispatchRule, OnContextInit
  <2>2. QED
    BY <1>1, <1>11, <1>12, <1>14, <2>1
<1>15. CASE p[1] = "sub"
  <2>1. p = <<"sub", p[2], p[3]>>
    BY <1>5, <1>15, Shape DEF U
  <2>2. c[1] = "prop" /\ c[2] = p[2] /\ c[3] = p[3] /\ \A s \in S : s[1] = "com"
    BY <1>8, <1>15 DEF DispatchRule, OnSubContext
  <2>3. ASSUME p \in L
        PROVE  c \in L
    <3>1. \A s \in S : s \in L
      BY <1>1, <1>2, <1>9, <2>2, <2>3
    <3>2. QED
      BY <1>10, <2>3, <3>1
  <2>4. QED
    BY <1>1, <1>12, <2>1, <2>2, <2>3
<1>16. CASE p[1] = "dec"
  <2>1. c \in OnDecomposed(k, S, p) /\ (S # {} => c \notin OnDecomposed(k, {}, p))
    BY <1>8, <1>16 DEF DispatchRule
  <2>2. \A s \in S : s[1] = "com"
    <3>1. \A s \in S : c \in Decomposition(k, {s}, p[2], p[3]) /\ c \notin Decomposition(k, {}, p[2], p[3])
      BY <1>8, <2>1 DEF OnDecomposed
    <3>2. QED
      BY <3>1 DEF Decomposition
  <2>3. \/ c[1] \in {"dec", "com", "bot", "fwd"} /\ c[2] = p[2]
        \/ c[1] = "bwd" /\ c[4] = p[2]
    BY <2>1, ProductsOfDecomposed
  <2>4. QED
    BY <1>1, <1>11, <1>12, <1>16, <2>2, <2>3
<1>17. CASE p[1] = "com"
  <2>1. c \in OnComposed(k, S, p) /\ (S # {} => c \notin OnComposed(k, {}, p))
    BY <1>8, <1>17 DEF DispatchRule
  <2>2. CASE c \in Propagations(k, S, p[2], p[3])
    <3>1. PICK s \in S : s[1] = "sub" /\ c[1] = "prop" /\ c[2] = p[2] /\ c[3] = s[3]
      BY <2>2 DEF Propagations
    <3>2. s = <<"sub", p[2], s[3]>> /\ S = {s}
      BY <1>8, <1>9, <3>1, Shape DEF U
    <3>3. ASSUME s \in L
          PROVE  c \in L
      <4>1. p[2] \in own
        BY <1>2, <1>9, <3>3
      <4>2. p \in L
        BY <1>1, <1>5, <1>17, <4>1
      <4>3. QED
        BY <1>10, <3>2, <3>3, <4>2
    <3>4. QED
      BY <1>1, <1>12, <3>1, <3>2, <3>3
  <2>3. CASE c \notin Propagations(k, S, p[2], p[3])
    <3>1. c[1] \in {"dec", "com", "bot", "dis"} /\ c[2] = p[2]
      BY <2>1, <2>3, ProductsOfComposed
    <3>2. \A s \in S : s[1] \in {"com", "dec"}
      <4>1. ASSUME NEW s \in S, s[1] \notin {"com", "dec"}
            PROVE  FALSE
        <5>1. S = {s} /\ c \notin OnComposed(k, {}, p)
          BY <1>8, <2>1
        <5>2. ComposedConjunctions(k, {s}, p[2], p[3]) \subseteq ComposedConjunctions(k, {}, p[2], p[3])
          BY <4>1 DEF ComposedConjunctions
        <5>3. Clashes(k, {s}, p[2], p[3]) \subseteq Clashes(k, {}, p[2], p[3])
          BY <4>1 DEF Clashes
        <5>4. QED
          BY <2>1, <2>3, <5>1, <5>2, <5>3 DEF OnComposed
      <4>2. QED
        BY <4>1
    <3>3. QED
      BY <1>1, <1>11, <1>12, <1>17, <3>1, <3>2
  <2>4. QED
    BY <2>2, <2>3
<1>18. CASE p[1] = "fwd"
  <2>1. c \in OnForward(k, S, p)
    BY <1>8, <1>18 DEF DispatchRule
  <2>2. CASE S = {}
    <3>1. c[1] = "bwd" /\ c[4] = p[2]
      BY <2>1, <2>2 DEF OnForward, ToldSuperLinks
    <3>2. QED
      BY <1>1, <1>11, <1>12, <1>18, <2>2, <3>1
  <2>3. CASE S # {}
    <3>1. PICK s \in S : S = {s}
      BY <1>8, <2>3
    <3>2. c \notin OnForward(k, {}, p)
      BY <1>8, <1>18, <2>3 DEF DispatchRule
    <3>3. s[1] = "bwd" /\ c \in Compositions(k, s, p)
      BY <2>1, <3>1, <3>2 DEF OnForward
    <3>4. \/ c[1] = "fwd" /\ c[2] = s[4]
          \/ c[1] = "bwd" /\ c[4] = s[4]
      BY <3>3, ComposedLinks
    <3>5. ASSUME s[4] \in own
          PROVE  c \in L
      <4>1. s \in L
        BY <1>1, <1>9, <3>3, <3>5
      <4>2. p \in L
        BY <1>5, <1>9, <1>13, <1>18, <3>3, <4>1
      <4>3. QED
        BY <1>10, <3>1, <4>1, <4>2
    <3>6. QED
      BY <1>1, <1>12, <3>4, <3>5
  <2>4. QED
    BY <2>2, <2>3
<1>19. CASE p[1] = "bwd"
  <2>1. c \in OnBackward(k, S, p) /\ p = <<"bwd", p[2], p[3], p[4]>>
    BY <1>5, <1>8, <1>19, Shape DEF DispatchRule, U
  <2>2. CASE c = <<"sub", p[2], p[3]>>
    BY <1>1, <1>12, <2>2
  <2>3. CASE c # <<"sub", p[2], p[3]>>
    <3>1. PICK s \in S : \/ s[1] = "prop" /\ s[3] = p[3] /\ c = <<"com", p[4], s[4]>>
                         \/ s[1] = "bot" /\ c = <<"bot", p[4]>>
                         \/ s[1] = "fwd" /\ c \in Compositions(k, p, s)
      BY <1>4, <2>1, <2>3 DEF OnBackward
    <3>2. \/ c[1] \in {"com", "bot", "fwd"} /\ c[2] = p[4]
          \/ c[1] = "bwd" /\ c[4] = p[4]
      BY <3>1, ComposedLinks
    <3>3. ASSUME p[4] \in own
          PROVE  c \in L
      <4>1. p \in L /\ p[2] \in own
        BY <1>1, <1>2, <1>5, <1>19, <3>3
      <4>2. <<"sub", p[2], p[3]>> \in L
        <5>1. <<"sub", p[2], p[3]>> \in DispatchRule(k, {}, p)
          BY <1>19 DEF DispatchRule, OnBackward
        <5>2. QED
          BY <1>2, <4>1, <5>1
      <4>3. s \in L
        BY <1>1, <1>9, <3>1, <4>1, <4>2
      <4>4. S = {s}
        BY <1>8, <3>1
      <4>5. QED
        BY <1>10, <4>1, <4>3, <4>4
    <3>4. QED
      BY <1>1, <1>12, <3>2, <3>3
  <2>4. QED
    BY <2>2, <2>3
<1>20. CASE p[1] = "prop"
  <2>1. PICK s \in S : s[1] = "bwd" /\ s[3] = p[3] /\ c = <<"com", s[4], p[4]>>
    BY <1>8, <1>20 DEF DispatchRule, OnPropagation
  <2>2. ASSUME s[4] \in own
        PROVE  c \in L
    <3>1. s \in L
      BY <1>1, <1>9, <2>1, <2>2
    <3>2. <<"sub", p[2], p[3]>> \in L
      <4>1. <<"sub", s[2], s[3]>> \in DispatchRule(k, {}, s)
        BY <2>1 DEF DispatchRule, OnBackward
      <4>2. QED
        BY <1>2, <1>9, <2>1, <3>1, <4>1
    <3>3. p \in L
      BY <1>1, <1>5, <1>20, <3>2
    <3>4. S = {s}
      BY <1>8, <2>1
    <3>5. QED
      BY <1>10, <3>1, <3>3, <3>4
  <2>3. QED
    BY <1>1, <1>12, <2>1, <2>2
<1>21. CASE p[1] = "dis"
  <2>1. c = <<"bot", p[2]>> /\ \A s \in S : s[1] = "dis"
    BY <1>8, <1>21 DEF DispatchRule, OnDisjoint
  <2>2. QED
    BY <1>1, <1>11, <1>12, <1>21, <2>1
<1>22. CASE p[1] = "bot"
  <2>1. PICK s \in S : s[1] = "bwd" /\ c = <<"bot", s[4]>>
    BY <1>8, <1>22 DEF DispatchRule, OnInconsistency
  <2>2. ASSUME s[4] \in own
        PROVE  c \in L
    <3>1. s \in L
      BY <1>1, <1>9, <2>1, <2>2
    <3>2. p \in L
      BY <1>1, <1>2, <1>5, <1>9, <1>22, <3>1
    <3>3. S = {s}
      BY <1>8, <2>1
    <3>4. QED
      BY <1>10, <3>1, <3>2, <3>3
  <2>3. QED
    BY <1>1, <1>12, <2>1, <2>2
<1>23. QED
  BY <1>5, <1>14, <1>15, <1>16, <1>17, <1>18, <1>19, <1>20, <1>21, <1>22 DEF Tags

\* The subsumers and the inconsistency of a root without ranges do not depend on the other
\* roots saturated in the same engine.
LEMMA RootsAreIndependent ==
  ASSUME NEW k, Prepared(k), Table(k, "range") = {}, NEW roots, IsFiniteSet(roots), NEW d \in roots,
         NEW c, c[1] \in {"dec", "com", "bot", "dis", "fwd"}, c[2] = d
  PROVE  c \in Derived(k, {d}) <=> c \in Derived(k, roots)
<1> DEFINE U == Conclusions(k, roots)
           L == Derived(k, {d})
           Y == {q \in U : Local(L, q)}
<1>1. IsFiniteSet({d})
  BY FS_Singleton
<1>2. L \subseteq Derived(k, roots) /\ Derived(k, roots) \subseteq U
  BY DerivedGrows, DerivedIsLeast
<1>3. Closed(k, L) /\ Initialization(d) \in L
  BY <1>1, DerivedIsLeast
<1>4. Closed(k, Y)
  BY <1>2, <1>3, LocalIsClosed
<1>5. \A r \in roots : Initialization(r) \in Y
  <2>1. roots \subseteq Named(k, roots)
    BY DEF Named
  <2>2. QED
    BY <2>1, Formed DEF Local, Initialization
<1> HIDE DEF Y
<1>6. Derived(k, roots) \subseteq Y
  BY <1>4, <1>5, DerivedIsLeast
<1>7. d \in {Destination(q) : q \in L}
  BY <1>3 DEF Destination, Initialization
<1>8. QED
  BY <1>2, <1>6, <1>7 DEF Y, Local

(***************************************************************************)
(* Soundness: in a model of the tables every conclusion holds, unless the  *)
(* range of a property was added to a shared target                        *)
(***************************************************************************)

\* What each form of conclusion claims.
LEMMA Claims ==
  ASSUME NEW I, NEW c
  PROVE  /\ c[1] \in {"init", "sub"} => Holds(I, c)
         /\ c[1] \in {"dec", "com"} => (Holds(I, c) <=> I.ext[c[2]] \subseteq I.ext[c[3]])
         /\ c[1] = "fwd" => (Holds(I, c) <=>
                \A e \in I.ext[c[2]] : \E f \in I.ext[c[4]] : <<e, f>> \in I.rel[c[3]])
         /\ c[1] = "bwd" => (Holds(I, c) <=>
                \A e \in I.ext[c[4]] : \E f \in I.ext[c[2]] : <<e, f>> \in I.rel[<<c[3]>>])
         /\ c[1] = "prop" => (Holds(I, c) <=>
                \A e \in I.domain, f \in I.ext[c[2]] :
                    <<e, f>> \in I.rel[<<c[3]>>] => e \in I.ext[c[4]])
         /\ c[1] = "dis" => (Holds(I, c) <=> /\ c[4] \in DOMAIN c[3]
                                             /\ I.ext[c[2]] \subseteq I.ext[c[3][c[4]]])
         /\ c[1] = "bot" => (Holds(I, c) <=> I.ext[c[2]] = {})
BY DEF Holds

\* When the products of the rules hold, form by form: initialisations and inconsistencies.
LEMMA UnaryHold ==
  ASSUME NEW I, NEW d
  PROVE  /\ Holds(I, <<"init", d>>)
         /\ \A r : Holds(I, <<"sub", d, r>>)
         /\ I.ext[d] = {} => Holds(I, <<"bot", d>>)
<1>1. /\ <<"init", d>>[1] = "init" /\ <<"bot", d>>[1] = "bot" /\ <<"bot", d>>[2] = d
      /\ \A r : <<"sub", d, r>>[1] = "sub"
  OBVIOUS
<1>2. QED
  BY <1>1, Claims

\* Subsumers, decomposed and composed.
LEMMA InclusionHolds ==
  ASSUME NEW I, NEW d, NEW x, I.ext[d] \subseteq I.ext[x]
  PROVE  Holds(I, <<"dec", d, x>>) /\ Holds(I, <<"com", d, x>>)
<1>1. /\ <<"dec", d, x>>[1] = "dec" /\ <<"dec", d, x>>[2] = d /\ <<"dec", d, x>>[3] = x
      /\ <<"com", d, x>>[1] = "com" /\ <<"com", d, x>>[2] = d /\ <<"com", d, x>>[3] = x
  OBVIOUS
<1>2. QED
  BY <1>1, Claims

\* Forward links.
LEMMA ForwardHolds ==
  ASSUME NEW I, NEW d, NEW h, NEW t,
         \A e \in I.ext[d] : \E f \in I.ext[t] : <<e, f>> \in I.rel[h]
  PROVE  Holds(I, <<"fwd", d, h, t>>)
<1> DEFINE c == <<"fwd", d, h, t>>
<1>1. c[1] = "fwd" /\ c[2] = d /\ c[3] = h /\ c[4] = t
  OBVIOUS
<1> HIDE DEF c
<1>2. Holds(I, c)
  BY <1>1, Claims
<1>3. QED
  BY <1>2 DEF c

\* Backward links.
LEMMA BackwardHolds ==
  ASSUME NEW I, NEW s, NEW r, NEW t,
         \A e \in I.ext[s] : \E f \in I.ext[t] : <<e, f>> \in I.rel[<<r>>]
  PROVE  Holds(I, <<"bwd", t, r, s>>)
<1> DEFINE c == <<"bwd", t, r, s>>
<1>1. c[1] = "bwd" /\ c[2] = t /\ c[3] = r /\ c[4] = s
  OBVIOUS
<1> HIDE DEF c
<1>2. Holds(I, c)
  BY <1>1, Claims
<1>3. QED
  BY <1>2 DEF c

\* Propagations.
LEMMA PropagationHolds ==
  ASSUME NEW I, NEW d, NEW r, NEW x,
         \A e \in I.domain, f \in I.ext[d] : <<e, f>> \in I.rel[<<r>>] => e \in I.ext[x]
  PROVE  Holds(I, <<"prop", d, r, x>>)
<1> DEFINE c == <<"prop", d, r, x>>
<1>1. c[1] = "prop" /\ c[2] = d /\ c[3] = r /\ c[4] = x
  OBVIOUS
<1> HIDE DEF c
<1>2. Holds(I, c)
  BY <1>1, Claims
<1>3. QED
  BY <1>2 DEF c

\* Positions of disjointness groups.
LEMMA MembershipHolds ==
  ASSUME NEW I, NEW d, NEW g, NEW i \in DOMAIN g, I.ext[d] \subseteq I.ext[g[i]]
  PROVE  Holds(I, <<"dis", d, g, i>>)
<1> DEFINE c == <<"dis", d, g, i>>
<1>1. c[1] = "dis" /\ c[2] = d /\ c[3] = g /\ c[4] = i
  OBVIOUS
<1> HIDE DEF c
<1>2. Holds(I, c)
  BY <1>1, Claims
<1>3. QED
  BY <1>2 DEF c

\* Relations that share an element in between are composed.
LEMMA Composed ==
  ASSUME NEW P, NEW Q, NEW x, NEW y, NEW z, <<x, y>> \in P, <<y, z>> \in Q
  PROVE  <<x, z>> \in Compose(P, Q)
<1> DEFINE p == <<<<x, y>>, <<y, z>>>>
<1>1. p \in P \X Q /\ p[1][2] = p[2][1] /\ p[1][1] = x /\ p[2][2] = z
  OBVIOUS
<1> HIDE DEF p
<1>2. <<p[1][1], p[2][2]>> \in Compose(P, Q)
  BY <1>1 DEF Compose
<1>3. QED
  BY <1>1, <1>2

\* What a model says of the chains of the view.
LEMMA ChainsMean ==
  ASSUME NEW rows, NEW roots, NEW I, ModelOf(I, rows, roots),
         NEW h \in Chains(rows), Len(h) > 1
  PROVE  I.rel[h] = Compose(I.rel[<<h[1]>>], I.rel[Tail(h)])
<1>1. PICK row \in rows : row[1] = "subproperty" /\ h \in ChainSuffixes(row[2])
  <2>1. ASSUME NEW r, h = <<r>>
        PROVE  FALSE
    BY <2>1
  <2>2. h \in UNION {ChainSuffixes(t[1]) : t \in Told(rows)}
    BY <2>1 DEF Chains
  <2>3. PICK t \in Told(rows) : h \in ChainSuffixes(t[1])
    BY <2>2
  <2>4. PICK row \in rows : row[1] = "subproperty" /\ t = <<row[2], row[3]>>
    BY DEF Told
  <2>5. QED
    BY <2>3, <2>4
<1>2. InterpretsChain(I, row[2])
  BY <1>1 DEF ModelOf, SatisfiesRow
<1>3. QED
  BY <1>1, <1>2 DEF InterpretsChain

\* A told inclusion is satisfied, and its chain is a sequence of properties.
LEMMA ToldMeans ==
  ASSUME NEW rows, WellFormed(rows), NEW roots, NEW I, ModelOf(I, rows, roots),
         NEW t \in Told(rows)
  PROVE  /\ t = <<t[1], t[2]>>
         /\ t[1] \in Seq(ObjectProperties(rows))
         /\ I.rel[t[1]] \subseteq I.rel[<<t[2]>>]
<1>1. PICK row \in rows : row[1] = "subproperty" /\ t = <<row[2], row[3]>>
  BY DEF Told
<1>2. row[2] \in Seq(ObjectProperties(rows))
  BY <1>1 DEF WellFormed, ObjectProperties
<1>3. I.rel[row[2]] \subseteq I.rel[<<row[3]>>]
  BY <1>1 DEF ModelOf, SatisfiesRow
<1>4. QED
  BY <1>1, <1>2, <1>3

\* The chains of the view are sequences of properties.
LEMMA ChainsAreSequences ==
  ASSUME NEW rows, WellFormed(rows), NEW h \in Chains(rows)
  PROVE  h \in Seq(ObjectProperties(rows))
<1> DEFINE P == ObjectProperties(rows)
<1>1. CASE h \in {<<r>> : r \in P}
  <2>1. PICK r \in P : h = <<r>>
    BY <1>1
  <2> HIDE DEF P
  <2>2. <<r>> \in Seq(P)
    OBVIOUS
  <2>3. QED
    BY <2>1, <2>2 DEF P
<1>2. CASE h \in UNION {ChainSuffixes(t[1]) : t \in Told(rows)}
  <2>1. PICK t \in Told(rows) : h \in ChainSuffixes(t[1])
    BY <1>2
  <2>2. PICK row \in rows : row[1] = "subproperty" /\ t = <<row[2], row[3]>>
    BY DEF Told
  <2>3. t[1] \in Seq(P)
    BY <2>2 DEF WellFormed, ObjectProperties
  <2>4. PICK i \in DOMAIN t[1] : h = SubSeq(t[1], i, Len(t[1]))
    BY <2>1 DEF ChainSuffixes
  <2> HIDE DEF P
  <2>5. SubSeq(t[1], i, Len(t[1])) \in Seq(P)
    <3>1. Len(t[1]) \in Nat /\ i \in 1 .. Len(t[1])
      BY <2>3
    <3>2. \A j \in i .. Len(t[1]) : t[1][j] \in P
      BY <2>3, <3>1
    <3>3. QED
      BY <2>3, <3>1, <3>2, SubSeqProperties
  <2>6. QED
    BY <2>4, <2>5 DEF P
<1>3. QED
  BY <1>1, <1>2 DEF Chains

\* Every inclusion that property saturation derives holds.
LEMMA SubChainsHold ==
  ASSUME NEW rows, WellFormed(rows), NEW roots, NEW I, ModelOf(I, rows, roots),
         NEW p \in SubChainClosure(rows)
  PROVE  p[1] \in Seq(ObjectProperties(rows)) /\ I.rel[p[1]] \subseteq I.rel[p[2]]
<1> DEFINE told == Told(rows)
           W == Chains(rows) \cup {<<t[2]>> : t \in told}
           Good == {q \in Seq(ObjectProperties(rows)) \X W : I.rel[q[1]] \subseteq I.rel[q[2]]}
           X == SUBSET Good
           start == {<<c, c>> : c \in Chains(rows)} \cup {<<t[1], <<t[2]>>>> : t \in told}
           step == [n \in Nat |-> [S \in X |-> Expand(told, S)]]
<1>1. start \in X
  <2>1. \A c \in Chains(rows) : <<c, c>> \in Good
    BY ChainsAreSequences
  <2>2. \A t \in told : <<t[1], <<t[2]>>>> \in Good
    BY ToldMeans
  <2> HIDE DEF Good
  <2>3. QED
    BY <2>1, <2>2
<1>2. \A S \in X : Expand(told, S) \in X
  <2> SUFFICES ASSUME NEW S \in X
               PROVE  Expand(told, S) \in X
    OBVIOUS
  <2>1. ASSUME NEW t \in told, NEW g \in Good, <<t[2]>> = g[1]
        PROVE  <<t[1], g[2]>> \in Good
    <3>1. t[1] \in Seq(ObjectProperties(rows)) /\ I.rel[t[1]] \subseteq I.rel[<<t[2]>>]
      BY ToldMeans
    <3>2. I.rel[g[1]] \subseteq I.rel[g[2]] /\ g[2] \in W
      OBVIOUS
    <3> HIDE DEF W, told
    <3>3. I.rel[t[1]] \subseteq I.rel[g[2]]
      BY <2>1, <3>1, <3>2
    <3>4. QED
      BY <3>1, <3>2, <3>3
  <2> HIDE DEF Good, told
  <2>2. ASSUME NEW q \in {r \in told \X S : <<r[1][2]>> = r[2][1]}
        PROVE  <<q[1][1], q[2][2]>> \in Good
    <3>1. q[1] \in told /\ q[2] \in Good /\ <<q[1][2]>> = q[2][1]
      OBVIOUS
    <3>2. QED
      BY <2>1, <3>1
  <2>3. Expand(told, S) \subseteq Good
    BY <2>2 DEF Expand
  <2>4. QED
    BY <2>3
<1>3. step \in [Nat -> [X -> X]]
  <2> HIDE DEF X
  <2>1. QED
    BY <1>2
<1>4. \A n \in Nat, S \in X : step[n][S] = Expand(told, S)
  OBVIOUS
<1> DEFINE Rounds(f) == [n \in Nat |-> IF n = 0 THEN start ELSE Expand(told, f[n - 1])]
           round == CHOOSE f : f = Rounds(f)
<1>5. \E f : f = Rounds(f)
  <2> HIDE DEF X, start, step, told
  <2>1. PICK f : Iterates(f, X, start, step)
    BY <1>1, <1>3, Recursion
  <2>2. f \in [Nat -> X] /\ f[0] = start /\ \A n \in Nat : f[n + 1] = step[n + 1][f[n]]
    BY <2>1 DEF Iterates
  <2>3. ASSUME NEW n \in Nat
        PROVE  f[n] = Rounds(f)[n]
    <3>1. n # 0 => n - 1 \in Nat /\ f[n - 1] \in X /\ (n - 1) + 1 = n
      BY <2>2
    <3>2. n # 0 => f[n] = step[n][f[n - 1]]
      BY <2>2, <3>1
    <3>3. QED
      BY <1>4, <2>2, <3>1, <3>2
  <2>4. f = [n \in Nat |-> f[n]]
    BY <2>2
  <2>5. QED
    BY <2>3, <2>4
<1>6. SubChainClosure(rows) = round[Cardinality(told)]
  BY DEF SubChainClosure
<1>7. round = Rounds(round)
  <2> HIDE DEF Rounds
  <2>1. QED
    BY <1>5
<1> HIDE DEF round, X, start, told
<1>8. round[0] = start /\ \A n \in Nat : round[n + 1] = Expand(told, round[n])
  <2>1. \A n \in Nat : n + 1 \in Nat /\ n + 1 # 0 /\ (n + 1) - 1 = n
    OBVIOUS
  <2>2. \A n \in Nat : round[n] = IF n = 0 THEN start ELSE Expand(told, round[n - 1])
    BY <1>7
  <2>3. QED
    BY <2>1, <2>2
<1>9. \A n \in Nat : round[n] \in X
  <2> DEFINE B == {n \in Nat : round[n] \in X}
  <2>1. B \in SUBSET Nat /\ 0 \in B /\ \A n \in B : n + 1 \in B
    BY <1>1, <1>2, <1>8
  <2> HIDE DEF B
  <2>2. B = Nat
    BY <2>1, AllNumbers
  <2>3. QED
    BY <2>2 DEF B
<1>10. Cardinality(told) \in Nat
  <2> DEFINE Rows == {q \in rows : q[1] = "subproperty"}
             f == [q \in Rows |-> <<q[2], q[3]>>]
  <2>1. IsFiniteSet(Rows)
    BY FS_Subset DEF WellFormed
  <2>2. IsFiniteSet({f[q] : q \in Rows})
    BY <2>1, FiniteImage
  <2>3. {f[q] : q \in Rows} = told
    BY DEF told, Told
  <2>4. QED
    BY <2>2, <2>3, FS_CardinalityType
<1>11. p \in Good
  BY <1>6, <1>9, <1>10 DEF X
<1>12. QED
  BY <1>11

\* The name of a sub-property is a chain below it.
LEMMA NamedSubsHold ==
  ASSUME NEW rows, WellFormed(rows), NEW roots, NEW I, ModelOf(I, rows, roots),
         NEW h, NEW r \in NamedSubs(SubChainClosure(rows), h)
  PROVE  I.rel[<<r>>] \subseteq I.rel[h]
<1> DEFINE sub == SubChainClosure(rows)
<1>1. PICK p \in sub : p[2] = h /\ Len(p[1]) = 1 /\ r = p[1][1]
  BY DEF NamedSubs
<1>2. p[1] \in Seq(ObjectProperties(rows)) /\ I.rel[p[1]] \subseteq I.rel[p[2]]
  BY SubChainsHold
<1>3. p[1] = <<r>>
  <2> HIDE DEF sub
  <2>1. QED
    BY <1>1, <1>2
<1>4. QED
  BY <1>1, <1>2, <1>3

\* Every composition of the view composes links to a link.
LEMMA CompositionsHold ==
  ASSUME NEW k, Prepared(k), NEW roots, NEW I, ModelOf(I, k.rows, roots),
         NEW c \in k.compositions,
         NEW x, NEW y, NEW z, <<x, y>> \in I.rel[<<c[1]>>], <<y, z>> \in I.rel[c[2]]
  PROVE  <<x, z>> \in I.rel[c[3]]
<1> DEFINE sub == SubChainClosure(k.rows)
<1>1. c \in CandidateCompositions(k.rows, sub)
  <2>1. k.compositions = Saturated(k.rows).compositions
    BY DEF Prepared
  <2>2. QED
    BY <2>1 DEF Saturated
<1> HIDE DEF sub
<1>2. PICK result \in {h \in Chains(k.rows) : Len(h) > 1} :
        c \in {<<p[1], p[2][1], result>> :
                p \in {q \in NamedSubs(sub, <<result[1]>>) \X sub :
                          /\ q[2][2] = Tail(result)
                          /\ ~(Tail(result) = <<result[1]>> /\ q[2][1] = result)}}
  BY <1>1 DEF CandidateCompositions
<1>3. PICK p \in NamedSubs(sub, <<result[1]>>) \X sub :
        p[2][2] = Tail(result) /\ c = <<p[1], p[2][1], result>>
  BY <1>2
<1>4. p[1] \in NamedSubs(sub, <<result[1]>>) /\ p[2] \in sub
  BY <1>3
<1>5. c[1] = p[1] /\ c[2] = p[2][1] /\ c[3] = result
  BY <1>3
<1>6. I.rel[<<p[1]>>] \subseteq I.rel[<<result[1]>>]
  BY <1>4, NamedSubsHold DEF Prepared, sub
<1>7. I.rel[p[2][1]] \subseteq I.rel[p[2][2]]
  BY <1>4, SubChainsHold DEF Prepared, sub
<1>8. <<x, y>> \in I.rel[<<result[1]>>] /\ <<y, z>> \in I.rel[Tail(result)]
  BY <1>3, <1>5, <1>6, <1>7
<1>9. I.rel[result] = Compose(I.rel[<<result[1]>>], I.rel[Tail(result)])
  BY <1>2, ChainsMean
<1>10. QED
  BY <1>5, <1>8, <1>9, Composed

\* What a model says of the tables a rule looks into.
LEMMA TablesMean ==
  ASSUME NEW k, Prepared(k), NEW roots, NEW I, ModelOf(I, k.rows, roots)
  PROVE  /\ \A x \in Named(k, roots) : InterpretsName(I, x)
         /\ \A x \in Expressions(k) : InterpretsConstructor(I, x)
         /\ \A row \in Table(k, "subclass") : I.ext[row[2]] \subseteq I.ext[row[3]]
         /\ \A row \in Table(k, "equivalent") : I.ext[row[2]] = I.ext[row[3]]
         /\ \A row \in Table(k, "disjoint") : ShareNothing(I, row[2])
         /\ \A row \in Table(k, "subproperty") : I.rel[row[2]] \subseteq I.rel[<<row[3]>>]
         /\ \A p \in k.sub : I.rel[p[1]] \subseteq I.rel[p[2]]
<1>1. k.sub = SubChainClosure(k.rows) /\ WellFormed(k.rows)
  <2>1. k.sub = Saturated(k.rows).sub /\ WellFormed(k.rows)
    BY DEF Prepared
  <2>2. QED
    BY <2>1 DEF Saturated
<1>2. \A p \in k.sub : I.rel[p[1]] \subseteq I.rel[p[2]]
  BY <1>1, SubChainsHold
<1>3. \A x \in Expressions(k) : \E row \in k.rows : row[1] = "expr" /\ row[2] = x
  BY DEF Expressions, Table
<1>4. \A row \in k.rows : SatisfiesRow(I, row)
  BY DEF ModelOf
<1>5. \A d \in roots : InterpretsName(I, d)
  BY DEF ModelOf
<1>6. \A x \in Expressions(k) : InterpretsName(I, x) /\ InterpretsConstructor(I, x)
  BY <1>3, <1>4 DEF SatisfiesRow
<1>7. QED
  BY <1>2, <1>4, <1>5, <1>6 DEF SatisfiesRow, Table, Named

\* An element of an existential restriction has a link to an element of its filler.
LEMMA FillersMean ==
  ASSUME NEW k, Prepared(k), NEW roots, NEW I, ModelOf(I, k.rows, roots),
         NEW x \in Expressions(k), x[1] = "some"
  PROVE  /\ \A e \in I.ext[x] : \E f \in I.ext[x[3]] : <<e, f>> \in I.rel[<<x[2]>>]
         /\ \A e \in I.domain, f \in I.ext[x[3]] : <<e, f>> \in I.rel[<<x[2]>>] => e \in I.ext[x]
<1>1. I.ext[x] = {e \in I.domain : \E f \in I.ext[x[3]] : <<e, f>> \in I.rel[<<x[2]>>]}
  <2>1. InterpretsConstructor(I, x)
    BY TablesMean
  <2>2. QED
    BY <2>1 DEF InterpretsConstructor
<1>2. QED
  BY <1>1

\* What a filler carries to the sources of a relation includes them.
LEMMA CarriedHold ==
  ASSUME NEW k, Prepared(k), NEW roots, NEW I, ModelOf(I, k.rows, roots),
         NEW d, NEW r, NEW x, I.ext[d] \subseteq I.ext[x], NEW y \in Carried(k, r, x)
  PROVE  Holds(I, <<"prop", d, r, y>>)
<1>1. y \in Expressions(k) /\ y[1] = "some" /\ y[3] = x /\ <<<<r>>, <<y[2]>>>> \in k.sub
  BY PreparedTables DEF Carried
<1>2. I.rel[<<r>>] \subseteq I.rel[<<y[2]>>]
  <2>1. I.rel[<<<<r>>, <<y[2]>>>>[1]] \subseteq I.rel[<<<<r>>, <<y[2]>>>>[2]]
    BY <1>1, TablesMean
  <2>2. QED
    BY <2>1
<1>3. \A e \in I.domain, f \in I.ext[x] : <<e, f>> \in I.rel[<<y[2]>>] => e \in I.ext[y]
  BY <1>1, FillersMean
<1>4. \A e \in I.domain, f \in I.ext[d] : <<e, f>> \in I.rel[<<r>>] => e \in I.ext[y]
  BY <1>2, <1>3
<1>5. QED
  BY <1>4, PropagationHolds

\* The halves of a link say the same.
LEMMA LinksHold ==
  ASSUME NEW k, NEW I, NEW d, NEW r, NEW t, NEW q \in Links(k, d, r, t),
         \A e \in I.ext[d] : \E f \in I.ext[t] : <<e, f>> \in I.rel[<<r>>]
  PROVE  Holds(I, q)
<1>1. q = <<"bwd", t, r, d>> \/ q = <<"fwd", d, <<r>>, t>>
  BY DEF Links
<1>2. QED
  BY <1>1, BackwardHolds, ForwardHolds

\* Told super properties of a chain have its links.
LEMMA ToldLinksHold ==
  ASSUME NEW k, Prepared(k), NEW roots, NEW I, ModelOf(I, k.rows, roots),
         NEW chain, NEW s, NEW t, NEW q \in ToldSuperLinks(k, chain, s, t),
         \A e \in I.ext[s] : \E f \in I.ext[t] : <<e, f>> \in I.rel[chain]
  PROVE  Holds(I, q)
<1>1. PICK row \in Table(k, "subproperty") : row[2] = chain /\ q = <<"bwd", t, row[3], s>>
  BY DEF ToldSuperLinks
<1>2. I.rel[chain] \subseteq I.rel[<<row[3]>>]
  BY <1>1, TablesMean
<1>3. \A e \in I.ext[s] : \E f \in I.ext[t] : <<e, f>> \in I.rel[<<row[3]>>]
  BY <1>2
<1>4. QED
  BY <1>1, <1>3, BackwardHolds

\* Two links that meet in a context are links of the composition.
LEMMA CompositionLinksHold ==
  ASSUME NEW k, Prepared(k), NEW roots, NEW I, ModelOf(I, k.rows, roots),
         NEW b, b[1] = "bwd", Holds(I, b), NEW f, f[1] = "fwd", Holds(I, f), b[2] = f[2],
         NEW q \in Compositions(k, b, f)
  PROVE  Holds(I, q)
<1>1. PICK c \in k.compositions :
        c[1] = b[3] /\ c[2] = f[3] /\ q \in LinkComposition(k, b, f, c[3])
  BY DEF Compositions
<1>2. \A e \in I.ext[b[4]] : \E g \in I.ext[b[2]] : <<e, g>> \in I.rel[<<b[3]>>]
  BY Claims
<1>3. \A e \in I.ext[f[2]] : \E g \in I.ext[f[4]] : <<e, g>> \in I.rel[f[3]]
  BY Claims
<1>4. ASSUME NEW e \in I.ext[b[4]]
      PROVE  \E g \in I.ext[f[4]] : <<e, g>> \in I.rel[c[3]]
  <2>1. PICK m \in I.ext[b[2]] : <<e, m>> \in I.rel[<<c[1]>>]
    BY <1>1, <1>2
  <2>2. PICK g \in I.ext[f[4]] : <<m, g>> \in I.rel[c[2]]
    BY <1>1, <1>3
  <2>3. <<e, g>> \in I.rel[c[3]]
    BY <2>1, <2>2, CompositionsHold
  <2>4. QED
    BY <2>3
<1>5. CASE IsExtendable(k, c[3])
  <2>1. q = <<"fwd", b[4], c[3], f[4]>>
    BY <1>1, <1>5 DEF LinkComposition
  <2>2. QED
    BY <1>4, <2>1, ForwardHolds
<1>6. CASE ~IsExtendable(k, c[3])
  <2>1. q \in ToldSuperLinks(k, c[3], b[4], f[4])
    BY <1>1, <1>6 DEF LinkComposition
  <2>2. QED
    BY <1>4, <2>1, ToldLinksHold
<1>7. QED
  BY <1>5, <1>6

\* What an expression that holds is decomposed into holds.
LEMMA DecompositionHolds ==
  ASSUME NEW k, Prepared(k), k.ranges = {}, NEW roots, NEW I, ModelOf(I, k.rows, roots),
         NEW S, NEW d \in Named(k, roots), NEW x \in Expressions(k),
         I.ext[d] \subseteq I.ext[x],
         \A c \in S : c[2] = d /\ Holds(I, c),
         NEW q \in Decomposition(k, S, d, x)
  PROVE  Holds(I, q)
<1>0. InterpretsConstructor(I, x) /\ InterpretsName(I, x) /\ InterpretsName(I, d)
  BY TablesMean DEF Named
<1>1. CASE x[1] = "and"
  <2>1. q = <<"dec", d, x[2][1]>> \/ q = <<"dec", d, x[2][2]>>
    BY <1>1 DEF Decomposition, Nothing
  <2>2. I.ext[d] \subseteq I.ext[x[2][1]] /\ I.ext[d] \subseteq I.ext[x[2][2]]
    BY <1>0, <1>1 DEF InterpretsConstructor
  <2>3. QED
    BY <2>1, <2>2, InclusionHolds
<1>2. CASE x[1] = "some"
  <2>1. q \in Links(k, d, x[2], x[3])
    BY <1>2 DEF Decomposition, Nothing
  <2>2. \A e \in I.ext[d] : \E f \in I.ext[x[3]] : <<e, f>> \in I.rel[<<x[2]>>]
    BY <1>2, FillersMean
  <2>3. QED
    BY <2>1, <2>2, LinksHold
<1>3. CASE x[1] = "self"
  <2>1. q \in Links(k, d, x[2], d)
    BY <1>3 DEF Decomposition, Nothing
  <2>2. \A e \in I.ext[d] : <<e, e>> \in I.rel[<<x[2]>>]
    BY <1>0, <1>3 DEF InterpretsConstructor
  <2>3. \A e \in I.ext[d] : \E f \in I.ext[d] : <<e, f>> \in I.rel[<<x[2]>>]
    BY <2>2
  <2>4. QED
    BY <2>1, <2>3, LinksHold
<1>4. CASE x[1] = "not"
  <2>1. q = <<"bot", d>> /\ <<"com", d, x[2]>> \in S
    BY <1>4 DEF Decomposition, Nothing
  <2>2. I.ext[d] \subseteq I.ext[x[2]]
    <3>1. <<"com", d, x[2]>>[1] = "com" /\ <<"com", d, x[2]>>[2] = d /\ <<"com", d, x[2]>>[3] = x[2]
      OBVIOUS
    <3>2. QED
      BY <2>1, <3>1, Claims
  <2>3. I.ext[x] = I.domain \ I.ext[x[2]]
    BY <1>0, <1>4 DEF InterpretsConstructor
  <2>4. I.ext[d] = {}
    BY <2>2, <2>3
  <2>5. QED
    BY <2>1, <2>4, UnaryHold
<1>5. CASE x[1] \notin {"and", "some", "self", "not"}
  <2>1. q = <<"bot", d>> /\ x = Nothing
    BY <1>5 DEF Decomposition
  <2>2. I.ext[d] = {}
    BY <1>0, <2>1 DEF InterpretsName
  <2>3. QED
    BY <2>1, <2>2, UnaryHold
<1>6. QED
  BY <1>1, <1>2, <1>3, <1>4, <1>5

\* Without ranges, what a conclusion that holds derives from conclusions that hold, holds.
LEMMA DispatchHolds ==
  ASSUME NEW k, Prepared(k), k.ranges = {}, NEW roots, NEW I, ModelOf(I, k.rows, roots),
         NEW p \in Conclusions(k, roots), Holds(I, p),
         NEW S \in SUBSET Conclusions(k, roots), \A c \in S : c[2] = p[2] /\ Holds(I, c),
         NEW q \in DispatchRule(k, S, p)
  PROVE  Holds(I, q)
<1> DEFINE d == p[2]
<1>0. InterpretsName(I, d) /\ d \in Named(k, roots)
  BY Shape, TablesMean
<1>1. CASE p[1] = "init"
  <2>1. q = <<"dec", d, d>> \/ (q = <<"com", d, Thing>> /\ Negative(k, Thing))
    BY <1>1 DEF DispatchRule, OnContextInit
  <2>2. Negative(k, Thing) => InterpretsName(I, Thing)
    <3>1. Negative(k, Thing) => Thing \in Named(k, roots)
      BY PreparedTables DEF Named
    <3>2. \A x \in Named(k, roots) : InterpretsName(I, x)
      BY TablesMean
    <3>3. QED
      BY <3>1, <3>2
  <2>3. Negative(k, Thing) => I.ext[d] \subseteq I.ext[Thing]
    BY <1>0, <2>2 DEF InterpretsName
  <2>4. QED
    BY <2>1, <2>3, InclusionHolds
<1>2. CASE p[1] = "sub"
  <2>1. q \in OnSubContext(k, S, p)
    BY <1>2 DEF DispatchRule
  <2>2. PICK c \in S : c[1] = "com" /\ \E y \in Carried(k, p[3], c[3]) : q = <<"prop", d, p[3], y>>
    BY <2>1 DEF OnSubContext
  <2>3. I.ext[d] \subseteq I.ext[c[3]]
    BY <2>2, Claims
  <2>4. QED
    BY <2>2, <2>3, CarriedHold
<1>3. CASE p[1] = "dec"
  <2> DEFINE x == p[3]
  <2>1. q \in OnDecomposed(k, S, p)
    BY <1>3 DEF DispatchRule
  <2>2. I.ext[d] \subseteq I.ext[x]
    BY <1>3, Claims
  <2>3. CASE q = <<"com", d, x>>
    BY <2>2, <2>3, InclusionHolds
  <2>4. CASE \E row \in Table(k, "equivalent") : row[2] = x /\ q = <<"dec", d, row[3]>>
    <3>1. PICK row \in Table(k, "equivalent") : row[2] = x /\ q = <<"dec", d, row[3]>>
      BY <2>4
    <3>2. I.ext[d] \subseteq I.ext[row[3]]
      BY <2>2, <3>1, TablesMean
    <3>3. QED
      BY <3>1, <3>2, InclusionHolds
  <2>5. CASE Positive(k, x) /\ q \in Decomposition(k, S, d, x)
    <3>1. x \in Expressions(k)
      BY <2>5, PreparedTables
    <3>2. QED
      BY <1>0, <2>2, <2>5, <3>1, DecompositionHolds
  <2>6. QED
    BY <2>1, <2>3, <2>4, <2>5 DEF OnDecomposed
<1>4. CASE p[1] = "com"
  <2> DEFINE x == p[3]
  <2>1. q \in OnComposed(k, S, p)
    BY <1>4 DEF DispatchRule
  <2>2. I.ext[d] \subseteq I.ext[x]
    BY <1>4, Claims
  <2>3. CASE q \in Expansions(k, d, x)
    <3>1. \/ \E row \in Table(k, "subclass") : row[2] = x /\ q = <<"dec", d, row[3]>>
          \/ \E row \in Table(k, "equivalent") :
                \/ row[3] = x /\ (q = <<"com", d, row[2]>> \/ q = <<"dec", d, row[2]>>)
                \/ row[2] = x /\ q = <<"dec", d, row[3]>>
      BY <2>3 DEF Expansions
    <3>2. /\ \A row \in Table(k, "subclass") : I.ext[row[2]] \subseteq I.ext[row[3]]
          /\ \A row \in Table(k, "equivalent") : I.ext[row[2]] = I.ext[row[3]]
      BY TablesMean
    <3>3. PICK y : I.ext[x] \subseteq I.ext[y] /\ (q = <<"dec", d, y>> \/ q = <<"com", d, y>>)
      BY <3>1, <3>2
    <3>4. QED
      BY <2>2, <3>3, InclusionHolds
  <2>4. CASE q \in ComposedConjunctions(k, S, d, x)
    <3>1. PICK z \in NegativeExpressions(k, "and") :
            /\ q = <<"com", d, z>>
            /\ \/ z[2][1] = x /\ <<"com", d, z[2][2]>> \in S
               \/ z[2][2] = x /\ <<"com", d, z[2][1]>> \in S
      BY <2>4 DEF ComposedConjunctions
    <3>2. \A y : <<"com", d, y>> \in S => I.ext[d] \subseteq I.ext[y]
      <4>1. \A y : <<"com", d, y>>[1] = "com" /\ <<"com", d, y>>[2] = d /\ <<"com", d, y>>[3] = y
        OBVIOUS
      <4>2. \A c \in S : c[1] = "com" => I.ext[c[2]] \subseteq I.ext[c[3]]
        BY Claims
      <4>3. QED
        BY <4>1, <4>2
    <3>3. z[1] = "and" /\ InterpretsConstructor(I, z)
      <4>1. z \in Expressions(k) /\ z[1] = "and"
        BY PreparedTables
      <4>2. QED
        BY <4>1, TablesMean
    <3>4. I.ext[z] = I.ext[z[2][1]] \cap I.ext[z[2][2]]
      BY <3>3 DEF InterpretsConstructor
    <3>5. I.ext[d] \subseteq I.ext[z]
      BY <2>2, <3>1, <3>2, <3>4
    <3>6. QED
      BY <3>1, <3>5, InclusionHolds
  <2>5. CASE q \in ComposedDisjunctions(k, d, x)
    <3>1. PICK z \in NegativeExpressions(k, "or") :
            q = <<"com", d, z>> /\ \E i \in DOMAIN z[2] : z[2][i] = x
      BY <2>5 DEF ComposedDisjunctions
    <3>2. z[1] = "or" /\ InterpretsConstructor(I, z)
      <4>1. z \in Expressions(k) /\ z[1] = "or"
        BY PreparedTables
      <4>2. QED
        BY <4>1, TablesMean
    <3>3. I.ext[z] = UNION {I.ext[z[2][i]] : i \in DOMAIN z[2]}
      BY <3>2 DEF InterpretsConstructor
    <3>4. I.ext[d] \subseteq I.ext[z]
      BY <2>2, <3>1, <3>3
    <3>5. QED
      BY <3>1, <3>4, InclusionHolds
  <2>6. CASE q \in Propagations(k, S, d, x)
    <3>1. PICK c \in S : \E y \in Carried(k, c[3], x) : q = <<"prop", d, c[3], y>>
      BY <2>6 DEF Propagations
    <3>2. QED
      BY <2>2, <3>1, CarriedHold
  <2>7. CASE q \in Clashes(k, S, d, x)
    <3>1. CASE q = <<"bot", d>> /\ <<"dec", d, <<"not", x>>>> \in S /\ Positive(k, <<"not", x>>)
      <4> DEFINE n == <<"not", x>>
      <4>1. n[1] = "not" /\ n[2] = x
        OBVIOUS
      <4>2. n \in Expressions(k)
        BY <3>1, PreparedTables
      <4>3. <<"dec", d, n>> \in S
        BY <3>1
      <4> HIDE DEF n
      <4>4. I.ext[d] \subseteq I.ext[n]
        <5>1. <<"dec", d, n>>[1] = "dec" /\ <<"dec", d, n>>[2] = d /\ <<"dec", d, n>>[3] = n
          OBVIOUS
        <5>2. QED
          BY <4>3, <5>1, Claims
      <4>5. InterpretsConstructor(I, n)
        BY <4>2, TablesMean
      <4>6. I.ext[n] = I.domain \ I.ext[x]
        BY <4>1, <4>5 DEF InterpretsConstructor
      <4>7. I.ext[d] = {}
        BY <2>2, <4>4, <4>6
      <4>8. QED
        BY <3>1, <4>7, UnaryHold
    <3>2. CASE \E row \in Table(k, "disjoint") :
                  \E i \in DOMAIN row[2] : row[2][i] = x /\ q = <<"dis", d, row[2], i>>
      <4>1. PICK row \in Table(k, "disjoint") :
              \E i \in DOMAIN row[2] : row[2][i] = x /\ q = <<"dis", d, row[2], i>>
        BY <3>2
      <4>2. PICK i \in DOMAIN row[2] : row[2][i] = x /\ q = <<"dis", d, row[2], i>>
        BY <4>1
      <4>3. QED
        BY <2>2, <4>2, MembershipHolds
    <3>3. QED
      BY <2>7, <3>1, <3>2 DEF Clashes
  <2>8. QED
    BY <2>1, <2>3, <2>4, <2>5, <2>6, <2>7 DEF OnComposed
<1>5. CASE p[1] = "fwd"
  <2>1. q \in OnForward(k, S, p)
    BY <1>5 DEF DispatchRule
  <2>2. CASE q \in ToldSuperLinks(k, p[3], d, p[4])
    <3>1. \A e \in I.ext[d] : \E f \in I.ext[p[4]] : <<e, f>> \in I.rel[p[3]]
      BY <1>5, Claims
    <3>2. QED
      BY <2>2, <3>1, ToldLinksHold
  <2>3. CASE \E c \in S : c[1] = "bwd" /\ q \in Compositions(k, c, p)
    <3>1. PICK c \in S : c[1] = "bwd" /\ q \in Compositions(k, c, p)
      BY <2>3
    <3>2. c[2] = p[2] /\ Holds(I, c)
      OBVIOUS
    <3>3. QED
      BY <1>5, <3>1, <3>2, CompositionLinksHold
  <2>4. QED
    BY <2>1, <2>2, <2>3 DEF OnForward
<1>6. CASE p[1] = "bwd"
  <2>1. q \in OnBackward(k, S, p)
    BY <1>6 DEF DispatchRule
  <2>2. \A e \in I.ext[p[4]] : \E f \in I.ext[d] : <<e, f>> \in I.rel[<<p[3]>>]
    BY <1>6, Claims
  <2>3. CASE q = <<"sub", d, p[3]>>
    BY <2>3, UnaryHold
  <2>4. CASE \E c \in S : c[1] = "prop" /\ c[3] = p[3] /\ q = <<"com", p[4], c[4]>>
    <3>1. PICK c \in S : c[1] = "prop" /\ c[3] = p[3] /\ q = <<"com", p[4], c[4]>>
      BY <2>4
    <3>2. \A e \in I.domain, f \in I.ext[d] : <<e, f>> \in I.rel[<<p[3]>>] => e \in I.ext[c[4]]
      BY <3>1, Claims
    <3>3. InterpretsName(I, p[4])
      BY <1>6, Shape, TablesMean
    <3>4. I.ext[p[4]] \subseteq I.ext[c[4]]
      BY <2>2, <3>2, <3>3 DEF InterpretsName
    <3>5. QED
      BY <3>1, <3>4, InclusionHolds
  <2>5. CASE \E c \in S : c[1] = "bot" /\ q = <<"bot", p[4]>>
    <3>1. PICK c \in S : c[1] = "bot" /\ q = <<"bot", p[4]>>
      BY <2>5
    <3>2. I.ext[d] = {}
      BY <3>1, Claims
    <3>3. I.ext[p[4]] = {}
      BY <2>2, <3>2
    <3>4. QED
      BY <3>1, <3>3, UnaryHold
  <2>6. CASE \E c \in S : c[1] = "fwd" /\ q \in Compositions(k, p, c)
    <3>1. PICK c \in S : c[1] = "fwd" /\ q \in Compositions(k, p, c)
      BY <2>6
    <3>2. c[2] = p[2] /\ Holds(I, c)
      OBVIOUS
    <3>3. QED
      BY <1>6, <3>1, <3>2, CompositionLinksHold
  <2>7. QED
    BY <2>1, <2>3, <2>4, <2>5, <2>6 DEF OnBackward
<1>7. CASE p[1] = "prop"
  <2>1. PICK c \in S : c[1] = "bwd" /\ c[3] = p[3] /\ q = <<"com", c[4], p[4]>>
    BY <1>7 DEF DispatchRule, OnPropagation
  <2>2. \A e \in I.ext[c[4]] : \E f \in I.ext[d] : <<e, f>> \in I.rel[<<p[3]>>]
    BY <2>1, Claims
  <2>3. \A e \in I.domain, f \in I.ext[d] : <<e, f>> \in I.rel[<<p[3]>>] => e \in I.ext[p[4]]
    BY <1>7, Claims
  <2>4. InterpretsName(I, c[4])
    BY <2>1, Shape, TablesMean
  <2>5. I.ext[c[4]] \subseteq I.ext[p[4]]
    BY <2>2, <2>3, <2>4 DEF InterpretsName
  <2>6. QED
    BY <2>1, <2>5, InclusionHolds
<1>8. CASE p[1] = "dis"
  <2>1. PICK c \in S : q = <<"bot", d>> /\ c[1] = "dis" /\ c[3] = p[3] /\ c[4] # p[4]
    BY <1>8 DEF DispatchRule, OnDisjoint
  <2>2. /\ p[4] \in DOMAIN p[3] /\ I.ext[d] \subseteq I.ext[p[3][p[4]]]
        /\ c[4] \in DOMAIN p[3] /\ I.ext[d] \subseteq I.ext[p[3][c[4]]]
    BY <1>8, <2>1, Claims
  <2>3. ShareNothing(I, p[3])
    <3>1. PICK row \in Table(k, "disjoint") : p[3] = row[2]
      BY <1>8, Shape DEF Groups
    <3>2. ShareNothing(I, row[2])
      BY TablesMean
    <3>3. QED
      BY <3>1, <3>2
  <2>4. I.ext[p[3][p[4]]] \cap I.ext[p[3][c[4]]] = {}
    BY <2>1, <2>2, <2>3 DEF ShareNothing
  <2>5. I.ext[d] = {}
    BY <2>2, <2>4
  <2>6. QED
    BY <2>1, <2>5, UnaryHold
<1>9. CASE p[1] = "bot"
  <2>1. PICK c \in S : c[1] = "bwd" /\ q = <<"bot", c[4]>>
    BY <1>9 DEF DispatchRule, OnInconsistency
  <2>2. \A e \in I.ext[c[4]] : \E f \in I.ext[d] : <<e, f>> \in I.rel[<<c[3]>>]
    BY <2>1, Claims
  <2>3. I.ext[d] = {}
    BY <1>9, Claims
  <2>4. I.ext[c[4]] = {}
    BY <2>2, <2>3
  <2>5. QED
    BY <2>1, <2>4, UnaryHold
<1>10. QED
  BY <1>1, <1>2, <1>3, <1>4, <1>5, <1>6, <1>7, <1>8, <1>9, Shape

\* Without ranges, whatever is derived about finitely many roots holds in every model of
\* the tables: no rule adds consequences, whichever chains, links and propagations it used.
THEOREM RulesAreSound ==
  ASSUME NEW k, Prepared(k), Table(k, "range") = {}, NEW roots, IsFiniteSet(roots),
         NEW I, ModelOf(I, k.rows, roots)
  PROVE  \A c \in Derived(k, roots) : Holds(I, c)
<1> DEFINE U == Conclusions(k, roots)
           X == {c \in U : Holds(I, c)}
<1>1. k.ranges = {}
  BY PreparedView
<1>2. \A d \in roots : Initialization(d) \in X
  <2>1. \A d \in roots : Initialization(d) \in U /\ Holds(I, Initialization(d))
    BY DerivedIsLeast, UnaryHold DEF Initialization
  <2>2. QED
    BY <2>1
<1>3. Closed(k, X)
  <2>1. Round(k, X) \subseteq U
    <3>1. X \in SUBSET U
      OBVIOUS
    <3>2. QED
      BY <3>1, RoundFormed
  <2>2. ASSUME NEW p \in X, NEW q \in DispatchRule(k, At(X, Destination(p)), p)
        PROVE  Holds(I, q)
    <3> DEFINE S == At(X, Destination(p))
    <3>1. S \in SUBSET U /\ \A c \in S : c[2] = p[2] /\ Holds(I, c)
      BY DEF At, Destination
    <3>2. p \in U /\ Holds(I, p)
      OBVIOUS
    <3> HIDE DEF S, X
    <3>3. q \in DispatchRule(k, S, p)
      BY <2>2 DEF S
    <3>4. QED
      BY <1>1, <3>1, <3>2, <3>3, DispatchHolds
  <2>3. \A p : Holds(I, Initialization(Destination(p)))
    BY UnaryHold DEF Initialization
  <2>4. \A q \in Round(k, X) : Holds(I, q)
    <3>1. \A q \in X : Holds(I, q)
      OBVIOUS
    <3> HIDE DEF X
    <3>2. QED
      BY <2>2, <2>3, <3>1 DEF Round
  <2>5. QED
    BY <2>1, <2>4 DEF Closed
<1>4. Derived(k, roots) \subseteq X
  <2> HIDE DEF X
  <2>1. QED
    BY <1>2, <1>3, DerivedIsLeast
<1>5. QED
  BY <1>4

=============================================================================
