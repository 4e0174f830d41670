---------------------------- MODULE SessionProofs ----------------------------
(***************************************************************************)
(* The stages of a session, for every ontology whose tables pass           *)
(* validation, every sequence of calls and every failure of the engine.    *)
(***************************************************************************)
EXTENDS Session, RuleProofs

\* The session works on the property view of a validated ontology.
LEMMA ViewPrepared ==
  ASSUME SessionTypeOK
  PROVE  Prepared(k)
<1>1. ont \in Ontologies /\ k = Saturated(Compiled(ont))
  BY DEF SessionTypeOK
<1>2. WellFormed(Compiled(ont))
  BY <1>1, CompiledAssumption
<1>3. k.rows = Compiled(ont)
  BY <1>1 DEF Saturated
<1>4. QED
  BY <1>1, <1>2, <1>3 DEF Prepared

\* Every run of the engine is given finitely many roots.
LEMMA RootsAreFinite ==
  ASSUME SessionTypeOK
  PROVE  /\ \A tag : IsFiniteSet(Roots(tag))
         /\ IsFiniteSet(ConsistencyRoots)
         /\ \A roots \in ExtraRoots(ont) : IsFiniteSet(roots)
<1>1. IsFiniteSet(Expressions(k))
  BY ViewPrepared, FiniteVocabulary
<1>2. \A tag : Roots(tag) \subseteq Expressions(k)
  BY DEF Roots, Expressions
<1>3. OccurringIndividuals \subseteq Expressions(k)
  BY <1>2 DEF OccurringIndividuals
<1>4. \A tag : IsFiniteSet(Roots(tag))
  BY <1>1, <1>2, FS_Subset
<1>5. IsFiniteSet(ConsistencyRoots)
  <2>1. IsFiniteSet(OccurringIndividuals) /\ IsFiniteSet({Thing})
    BY <1>1, <1>3, FS_Subset, FS_Singleton
  <2>2. QED
    BY <2>1, FS_Union DEF ConsistencyRoots
<1>6. \A roots \in ExtraRoots(ont) : IsFiniteSet(roots)
  BY CompiledAssumption DEF SessionTypeOK
<1>7. QED
  BY <1>4, <1>5, <1>6

\* C is a set of facts an engine may hold: about finitely many contexts, and following from
\* their initialisations.
EngineFacts(C) ==
    /\ IsFiniteSet({Destination(c) : c \in C})
    /\ C \subseteq Derived(k, {Destination(c) : c \in C})

\* More roots derive more.
LEMMA DerivedMonotone ==
  ASSUME Prepared(k), NEW R, IsFiniteSet(R), NEW Q \in SUBSET R
  PROVE  Derived(k, Q) \subseteq Derived(k, R)
<1>1. IsFiniteSet(Q)
  BY FS_Subset
<1>2. Closed(k, Derived(k, R)) /\ \A d \in Q : Initialization(d) \in Derived(k, R)
  BY DerivedIsLeast
<1>3. QED
  BY <1>1, <1>2, DerivedIsLeast

\* The contexts of what finitely many roots derive are finitely many.
LEMMA FiniteContexts ==
  ASSUME Prepared(k), NEW R, IsFiniteSet(R), NEW C, C \subseteq Derived(k, R)
  PROVE  IsFiniteSet({Destination(c) : c \in C})
<1>1. IsFiniteSet(Conclusions(k, R)) /\ Derived(k, R) \subseteq Conclusions(k, R)
  BY FiniteConclusions, DerivedIsLeast
<1>2. IsFiniteSet(C)
  BY <1>1, FS_Subset
<1>3. QED
  BY <1>2, FiniteEntries DEF Destination

\* Facts between engine facts and what their contexts derive are engine facts.
LEMMA FactsBetween ==
  ASSUME Prepared(k), NEW R, IsFiniteSet(R), NEW C, C \subseteq Derived(k, R),
         R \subseteq {Destination(c) : c \in C}
  PROVE  EngineFacts(C)
<1>1. IsFiniteSet({Destination(c) : c \in C})
  BY FiniteContexts
<1>2. Derived(k, R) \subseteq Derived(k, {Destination(c) : c \in C})
  BY <1>1, DerivedMonotone
<1>3. QED
  BY <1>1, <1>2 DEF EngineFacts

\* Seeding, a partial run and a complete run of the engine.
LEMMA EngineRuns ==
  ASSUME SessionTypeOK, FactsFollow, NEW roots, IsFiniteSet(roots)
  PROVE  LET C == Seeded(roots)
         IN  /\ facts \subseteq C /\ EngineFacts(C)
             /\ C \subseteq Round(k, C) /\ EngineFacts(Round(k, C))
             /\ C \subseteq ClosureOf(k, C) /\ EngineFacts(ClosureOf(k, C))
             /\ Closed(k, ClosureOf(k, C))
             /\ \A d \in roots : Initialization(d) \in C
             /\ \A d \in roots : Derived(k, {d}) \subseteq ClosureOf(k, C)
<1> DEFINE C == Seeded(roots)
           old == {Destination(c) : c \in facts}
           R == old \cup roots
<1>0. Prepared(k)
  BY ViewPrepared
<1>1. IsFiniteSet(R)
  BY FS_Union DEF FactsFollow
<1>2. facts \subseteq C /\ \A d \in roots : Initialization(d) \in C
  BY DEF Seeded
<1>3. {Destination(c) : c \in C} = R
  <2>1. \A d : Destination(Initialization(d)) = d
    BY DEF Destination, Initialization
  <2>2. QED
    BY <2>1 DEF Seeded
<1>4. C \subseteq Derived(k, R)
  <2>1. facts \subseteq Derived(k, R)
    BY <1>0, <1>1, DerivedMonotone DEF FactsFollow
  <2>2. \A d \in R : Initialization(d) \in Derived(k, R)
    BY <1>0, <1>1, DerivedIsLeast
  <2>3. QED
    BY <2>1, <2>2 DEF Seeded
<1>5. Closed(k, Derived(k, R)) /\ Derived(k, R) \subseteq Conclusions(k, R)
  BY <1>0, <1>1, DerivedIsLeast
<1> HIDE DEF C, R
<1>6. EngineFacts(C)
  BY <1>0, <1>1, <1>3, <1>4, FactsBetween
<1>7. C \subseteq Round(k, C)
  BY DEF Round
<1>8. Round(k, C) \subseteq Derived(k, R)
  <2>1. C \in SUBSET Derived(k, R) /\ C \subseteq Conclusions(k, R)
    BY <1>4, <1>5
  <2>2. QED
    BY <1>5, <2>1, RoundMonotone DEF Closed
<1>9. EngineFacts(Round(k, C))
  <2>1. R \subseteq {Destination(c) : c \in Round(k, C)}
    BY <1>3, <1>7
  <2>2. QED
    BY <1>0, <1>1, <1>8, <2>1, FactsBetween
<1>10. /\ C \subseteq ClosureOf(k, C) /\ Closed(k, ClosureOf(k, C))
       /\ ClosureOf(k, C) \subseteq Derived(k, R)
  <2>1. IsFiniteSet({Destination(c) : c \in C}) /\ C \subseteq Conclusions(k, {Destination(c) : c \in C})
    BY <1>1, <1>3, <1>4, <1>5
  <2>2. QED
    BY <1>0, <1>4, <1>5, <2>1, ClosureIsLeast
<1>11. EngineFacts(ClosureOf(k, C))
  <2>1. R \subseteq {Destination(c) : c \in ClosureOf(k, C)}
    BY <1>3, <1>10
  <2>2. QED
    BY <1>0, <1>1, <1>10, <2>1, FactsBetween
<1>12. ASSUME NEW d \in roots
       PROVE  Derived(k, {d}) \subseteq ClosureOf(k, C)
  <2>1. Initialization(d) \in ClosureOf(k, C) /\ IsFiniteSet({d})
    BY <1>2, <1>10, FS_Singleton
  <2>2. QED
    BY <1>0, <1>10, <2>1, DerivedIsLeast
<1>13. QED
  BY <1>2, <1>6, <1>7, <1>9, <1>10, <1>11, <1>12 DEF C

\* Without ranges, the verdict depends on nothing but the consistency roots themselves.
LEMMA VerdictOfFacts ==
  ASSUME SessionTypeOK, Table(k, "range") = {}, NEW C, EngineFacts(C),
         \A d \in ConsistencyRoots : Derived(k, {d}) \subseteq C
  PROVE  Verdict(C) = SettledVerdict
<1> DEFINE R == {Destination(c) : c \in C}
<1>1. Prepared(k) /\ IsFiniteSet(R) /\ C \subseteq Derived(k, R)
  BY ViewPrepared DEF EngineFacts
<1>2. ASSUME NEW d \in ConsistencyRoots
      PROVE  Contradictory(C, d) <=> Contradictory(Derived(k, {d}), d)
  <2>1. Initialization(d) \in Derived(k, {d})
    BY <1>1, DerivedIsLeast, FS_Singleton
  <2>2. d \in R
    BY <2>1 DEF Destination, Initialization
  <2> HIDE DEF R
  <2>3. <<"bot", d>>[1] = "bot" /\ <<"bot", d>>[2] = d
    OBVIOUS
  <2>4. <<"bot", d>> \in Derived(k, {d}) <=> <<"bot", d>> \in Derived(k, R)
    BY <1>1, <2>2, <2>3, RootsAreIndependent
  <2>5. QED
    BY <1>1, <2>4 DEF Contradictory
<1>3. QED
  BY <1>2 DEF Verdict, SettledVerdict

\* A run of the engine that returns.  All the stages, and saturate_roots, use it alike.
LEMMA RunKeepsInv ==
  ASSUME SessionInv, NEW roots, IsFiniteSet(roots), RunEngine(roots), UNCHANGED <<ont, k>>,
         stage' \in COMPILED .. REALIZED, stage' >= CONSISTENCY,
         Promised(stage') \subseteq Promised(stage) \cup roots
  PROVE  FactsFollow' /\ PromiseKept' /\ VerdictSettled' /\ facts \subseteq facts'
         /\ consistency' \in {"none", "consistent", "inconsistent"}
<1> DEFINE C == Seeded(roots)
<1>0. SessionTypeOK /\ FactsFollow /\ PromiseKept
  BY DEF SessionInv
<1>1. facts' = ClosureOf(k, C) /\ consistency' = Verdict(facts')
  BY DEF RunEngine
<1>2. /\ facts \subseteq C /\ C \subseteq ClosureOf(k, C) /\ EngineFacts(ClosureOf(k, C))
      /\ \A d \in roots : Derived(k, {d}) \subseteq ClosureOf(k, C)
  BY <1>0, EngineRuns
<1> HIDE DEF C
<1>3. facts \subseteq facts' /\ EngineFacts(facts')
  BY <1>1, <1>2
<1>4. \A d \in Promised(stage') : Derived(k, {d}) \subseteq facts'
  BY <1>0, <1>1, <1>2 DEF PromiseKept
<1>5. ConsistencyRoots \subseteq Promised(stage')
  BY DEF Promised
<1>6. FactsFollow'
  BY <1>3 DEF EngineFacts, FactsFollow
<1>7. PromiseKept'
  BY <1>4 DEF PromiseKept, Promised, ConsistencyRoots, OccurringIndividuals, Roots
<1>8. Table(k, "range") = {} => Verdict(facts') = SettledVerdict
  BY <1>0, <1>3, <1>4, <1>5, VerdictOfFacts
<1>9. SettledVerdict' = SettledVerdict
  BY DEF SettledVerdict, ConsistencyRoots, OccurringIndividuals, Roots
<1>10. VerdictSettled'
  BY <1>1, <1>8, <1>9 DEF VerdictSettled
<1>11. consistency' \in {"none", "consistent", "inconsistent"}
  BY <1>1 DEF Verdict
<1>12. QED
  BY <1>3, <1>6, <1>7, <1>10, <1>11

\* A run that raises leaves more facts behind, and nothing else.
LEMMA RaiseKeepsInv ==
  ASSUME SessionInv, Raise
  PROVE  SessionInv' /\ facts \subseteq facts'
<1>0. SessionTypeOK /\ FactsFollow /\ PromiseKept /\ VerdictSettled
  BY DEF SessionInv
<1>1. PICK roots \in RootsToRun : /\ facts' \in {Seeded(roots), Round(k, Seeded(roots))}
                                  /\ call' = Idle /\ UNCHANGED <<ont, k, stage, consistency>>
  BY DEF Raise
<1>2. IsFiniteSet(roots)
  <2>1. \/ roots = ConsistencyRoots
        \/ \E tag : roots = Roots(tag)
        \/ roots \in call.extra
    BY DEF RootsToRun
  <2>2. call.extra \subseteq ExtraRoots(ont)
    BY <1>0 DEF SessionTypeOK
  <2>3. QED
    BY <1>0, <2>1, <2>2, RootsAreFinite
<1>3. facts \subseteq facts' /\ EngineFacts(facts')
  BY <1>0, <1>1, <1>2, EngineRuns
<1>4. SessionTypeOK'
  BY <1>0, <1>1 DEF SessionTypeOK, Idle, COMPILED, REALIZED
<1>5. FactsFollow'
  BY <1>1, <1>3 DEF EngineFacts, FactsFollow
<1>6. PromiseKept'
  BY <1>0, <1>1, <1>3 DEF PromiseKept, Promised, ConsistencyRoots, OccurringIndividuals, Roots
<1>7. VerdictSettled'
  BY <1>0, <1>1 DEF VerdictSettled, SettledVerdict, ConsistencyRoots, OccurringIndividuals, Roots
<1>8. QED
  BY <1>3, <1>4, <1>5, <1>6, <1>7 DEF SessionInv

\* The steps that neither run the engine nor reach a stage that promises roots.
LEMMA QuietKeepsInv ==
  ASSUME SessionInv, UNCHANGED <<ont, k, facts, consistency>>, SessionTypeOK',
         stage' = stage \/ (stage = COMPILED /\ stage' = PROPERTIES)
  PROVE  SessionInv'
<1> USE DEF COMPILED, PROPERTIES, CONSISTENCY, CLASSIFIED, REALIZED
<1>1. Promised(stage)' = Promised(stage)
  BY DEF SessionInv, SessionTypeOK, Promised, ConsistencyRoots, OccurringIndividuals, Roots
<1>2. FactsFollow' /\ PromiseKept'
  BY <1>1 DEF SessionInv, FactsFollow, PromiseKept
<1>3. SettledVerdict' = SettledVerdict
  BY DEF SettledVerdict, ConsistencyRoots, OccurringIndividuals, Roots
<1>4. VerdictSettled'
  BY <1>3 DEF SessionInv, SessionTypeOK, VerdictSettled
<1>5. QED
  BY <1>2, <1>4 DEF SessionInv

\* Every step keeps the invariant, the stages and the facts.
LEMMA NextKeepsInv ==
  ASSUME SessionInv, Next
  PROVE  SessionInv' /\ stage' >= stage /\ facts \subseteq facts'
<1>0. SessionTypeOK /\ stage \in 0 .. 4 /\ call.goal \in 0 .. 4
  BY DEF SessionInv, SessionTypeOK, COMPILED, REALIZED
<1> USE DEF COMPILED, PROPERTIES, CONSISTENCY, CLASSIFIED, REALIZED
<1>1. ASSUME NEW goal \in PROPERTIES .. REALIZED, Ensure(goal)
      PROVE  SessionInv' /\ stage' >= stage /\ facts \subseteq facts'
  <2>1. SessionTypeOK'
    BY <1>0, <1>1 DEF Ensure, SessionTypeOK
  <2>2. QED
    BY <1>0, <1>1, <2>1, QuietKeepsInv DEF Ensure
<1>2. ASSUME NEW roots \in ExtraRoots(ont), SaturateRoots(roots)
      PROVE  SessionInv' /\ stage' >= stage /\ facts \subseteq facts'
  <2>1. SessionTypeOK'
    BY <1>0, <1>2 DEF SaturateRoots, SessionTypeOK
  <2>2. QED
    BY <1>0, <1>2, <2>1, QuietKeepsInv DEF SaturateRoots
<1>3. CASE BuildProperties
  <2>1. SessionTypeOK'
    BY <1>0, <1>3 DEF BuildProperties, SessionTypeOK
  <2>2. QED
    BY <1>0, <1>3, <2>1, QuietKeepsInv DEF BuildProperties
<1>4. CASE Answer
  <2>1. SessionTypeOK'
    BY <1>0, <1>4 DEF Answer, SessionTypeOK, Idle
  <2>2. QED
    BY <1>0, <1>4, <2>1, QuietKeepsInv DEF Answer
<1>5. CASE Raise
  <2>1. stage' = stage
    BY <1>5 DEF Raise
  <2>2. QED
    BY <1>0, <1>5, <2>1, RaiseKeepsInv
<1>6. ASSUME NEW roots, IsFiniteSet(roots), RunEngine(roots), UNCHANGED <<ont, k>>,
             stage' \in 0 .. 4, stage' >= stage, stage' >= 2, SessionTypeOK' \/ call' = call,
             Promised(stage') \subseteq Promised(stage) \cup roots
      PROVE  SessionInv' /\ stage' >= stage /\ facts \subseteq facts'
  <2>1. /\ FactsFollow' /\ PromiseKept' /\ VerdictSettled' /\ facts \subseteq facts'
        /\ consistency' \in {"none", "consistent", "inconsistent"}
    BY <1>6, RunKeepsInv
  <2>2. SessionTypeOK'
    BY <1>0, <1>6, <2>1 DEF SessionTypeOK
  <2>3. QED
    BY <1>6, <2>1, <2>2 DEF SessionInv
<1>7. CASE EvaluateConsistency
  <2>1. Promised(2) \subseteq Promised(1) \cup ConsistencyRoots
    BY DEF Promised
  <2>2. QED
    BY <1>0, <1>6, <1>7, <2>1, RootsAreFinite DEF EvaluateConsistency
<1>8. CASE Classify
  <2>1. Promised(3) \subseteq Promised(2) \cup Roots("class")
    BY DEF Promised
  <2>2. QED
    BY <1>0, <1>6, <1>8, <2>1, RootsAreFinite DEF Classify
<1>9. CASE Realize
  <2>1. Promised(4) \subseteq Promised(3) \cup Roots("individual")
    BY DEF Promised
  <2>2. QED
    BY <1>0, <1>6, <1>9, <2>1, RootsAreFinite DEF Realize
<1>10. ASSUME NEW roots \in ExtraRoots(ont), RunExtra(roots)
       PROVE  SessionInv' /\ stage' >= stage /\ facts \subseteq facts'
  <2>1. stage' = stage /\ stage >= 2 /\ RunEngine(roots) /\ UNCHANGED <<ont, k>>
        /\ call' = [call EXCEPT !.extra = {}]
    BY <1>0, <1>10 DEF RunExtra, SessionTypeOK
  <2>2. consistency' \in {"none", "consistent", "inconsistent"}
    BY <2>1 DEF RunEngine, Verdict
  <2>3. SessionTypeOK'
    BY <1>0, <2>1, <2>2 DEF SessionTypeOK
  <2>4. QED
    BY <1>0, <1>6, <2>1, <2>3, RootsAreFinite
<1>11. QED
  BY <1>1, <1>2, <1>3, <1>4, <1>5, <1>7, <1>8, <1>9, <1>10 DEF Next

\* The session invariant holds in every reachable state.
THEOREM SessionInvariant == Spec => []SessionInv
<1>1. Init => SessionInv
  <2> SUFFICES ASSUME Init
               PROVE  SessionInv
    OBVIOUS
  <2> USE DEF COMPILED, PROPERTIES, CONSISTENCY, CLASSIFIED, REALIZED
  <2>1. SessionTypeOK
    BY DEF Init, SessionTypeOK, Idle
  <2>2. FactsFollow
    <3>1. facts = {} /\ {Destination(c) : c \in {}} = {}
      BY DEF Init
    <3>2. QED
      BY <3>1, FS_EmptySet DEF FactsFollow
  <2>3. PromiseKept /\ VerdictSettled
    BY DEF Init, PromiseKept, Promised, VerdictSettled
  <2>4. QED
    BY <2>1, <2>2, <2>3 DEF SessionInv
<1>2. SessionInv /\ [Next]_vars => SessionInv'
  <2> SUFFICES ASSUME SessionInv, [Next]_vars
               PROVE  SessionInv'
    OBVIOUS
  <2>1. CASE Next
    BY <2>1, NextKeepsInv
  <2>2. CASE UNCHANGED vars
    <3>1. SessionTypeOK'
      BY <2>2 DEF vars, SessionInv, SessionTypeOK
    <3>2. QED
      BY <2>2, <3>1, QuietKeepsInv DEF vars
  <2>3. QED
    BY <2>1, <2>2
<1>3. QED
  BY <1>1, <1>2, PTL DEF Spec

\* No call and no exception takes a stage or a fact back.
THEOREM StagesNeverGoBack == Spec => StagesAdvance
<1>1. SessionInv /\ [Next]_vars => [stage' >= stage /\ facts \subseteq facts']_vars
  BY NextKeepsInv
<1>2. QED
  BY <1>1, SessionInvariant, PTL DEF Spec, StagesAdvance

\* A call that finds its stage reached may answer without running the engine: the roots of
\* the stage have all the subsumers they derive alone, whatever raised in between.
THEOREM StagesAreEarned == Spec => []StageIsEarned
<1>1. SessionInv => StageIsEarned
  BY DEF SessionInv, PromiseKept, StageIsEarned, Subsumers, At
<1>2. QED
  BY <1>1, SessionInvariant, PTL

\* Without ranges the verdict on the ontology, once evaluated, never changes.
THEOREM VerdictNeverChanges ==
  ASSUME \A o \in Ontologies : \A row \in Compiled(o) : row[1] # "range"
  PROVE  Spec => VerdictIsStable
<1>1. SessionInv => Table(k, "range") = {}
  <2> SUFFICES ASSUME SessionInv
               PROVE  Table(k, "range") = {}
    OBVIOUS
  <2>1. ont \in Ontologies /\ k = Saturated(Compiled(ont))
    BY DEF SessionInv, SessionTypeOK
  <2>2. k.rows = Compiled(ont)
    BY <2>1 DEF Saturated
  <2>3. QED
    BY <2>1, <2>2 DEF Table
<1>2. SessionInv /\ SessionInv' /\ [Next]_vars
        => [consistency # "none" => consistency' = consistency]_vars
  <2> SUFFICES ASSUME SessionInv, SessionInv', Next, consistency # "none"
               PROVE  consistency' = consistency
    BY DEF vars
  <2>1. consistency = SettledVerdict
    BY <1>1 DEF SessionInv, VerdictSettled
  <2>2. k' = k
    BY DEF Next, Ensure, SaturateRoots, BuildProperties, EvaluateConsistency, Classify, Realize,
           RunExtra, Answer, Raise
  <2>3. SettledVerdict' = SettledVerdict
    BY <2>2 DEF SettledVerdict, ConsistencyRoots, OccurringIndividuals, Roots
  <2>4. consistency' # "none"
    BY DEF Next, Ensure, SaturateRoots, BuildProperties, EvaluateConsistency, Classify, Realize,
           RunExtra, Answer, Raise, RunEngine, Verdict
  <2>5. (Table(k, "range") = {})'
    BY <1>1, <2>2
  <2>6. QED
    BY <2>1, <2>3, <2>4, <2>5 DEF SessionInv, VerdictSettled
<1>3. QED
  BY <1>2, SessionInvariant, PTL DEF Spec, VerdictIsStable

(***************************************************************************)
(* What the results mean, when no property has a range                     *)
(***************************************************************************)

\* I is a model of the loaded tables.
IsTableModel(I) == ModelOf(I, k.rows, {Thing, Nothing})

\* Something exists in I, every occurring individual does, and the properties are apart.
IsPossible(I) ==
    /\ \A x \in ConsistencyRoots : I.ext[x] # {}
    /\ ~(I.rel[<<"owl:topObjectProperty">>] \subseteq I.rel[<<"owl:bottomObjectProperty">>])

\* An ontology whose verdict is "inconsistent" has no possible model.
InconsistencyIsReal ==
    (consistency = "inconsistent" /\ Table(k, "range") = {}) =>
        \A I : IsTableModel(I) => ~IsPossible(I)

\* Every edge the reduction of the class taxonomy is given is a subsumption.
EdgesHold ==
    Table(k, "range") = {} =>
        \A I : IsTableModel(I) => \A e \in ClassEdges(facts) : I.ext[e[1]] \subseteq I.ext[e[2]]

\* Interpreting the built-in classes is enough to interpret a root of the session.
LEMMA RootIsInterpreted ==
  ASSUME SessionTypeOK, NEW I, IsTableModel(I), NEW d \in Expressions(k) \cup {Thing}
  PROVE  ModelOf(I, k.rows, {d}) /\ InterpretsName(I, d)
<1>1. ModelOf(I, k.rows, {Thing, Nothing}) /\ Prepared(k)
  BY ViewPrepared DEF IsTableModel
<1>2. \A x \in Named(k, {Thing, Nothing}) : InterpretsName(I, x)
  BY <1>1, TablesMean
<1>3. d \in Named(k, {Thing, Nothing})
  BY DEF Named
<1>4. InterpretsName(I, d)
  BY <1>2, <1>3
<1>5. \A row \in k.rows : SatisfiesRow(I, row)
  BY <1>1 DEF ModelOf
<1>6. QED
  BY <1>4, <1>5 DEF ModelOf

\* What a root of the session derives alone holds.
LEMMA RootConsequences ==
  ASSUME SessionTypeOK, Table(k, "range") = {}, NEW I, IsTableModel(I),
         NEW d \in Expressions(k) \cup {Thing}
  PROVE  \A c \in Derived(k, {d}) : Holds(I, c)
<1>1. Prepared(k) /\ IsFiniteSet({d}) /\ ModelOf(I, k.rows, {d})
  BY ViewPrepared, FS_Singleton, RootIsInterpreted
<1>2. QED
  BY <1>1, RulesAreSound

\* The verdict "inconsistent" is never wrong, whatever the session was asked before.
THEOREM InconsistentHasNoModel == Spec => []InconsistencyIsReal
<1>1. SessionInv => InconsistencyIsReal
  <2> SUFFICES ASSUME SessionInv, consistency = "inconsistent", Table(k, "range") = {},
                      NEW I, IsTableModel(I), IsPossible(I)
               PROVE  FALSE
    BY DEF InconsistencyIsReal
  <2>1. SessionTypeOK /\ SettledVerdict = "inconsistent"
    BY DEF SessionInv, VerdictSettled
  <2>2. CASE \E d \in ConsistencyRoots : Contradictory(Derived(k, {d}), d)
    <3>1. PICK d \in ConsistencyRoots : <<"bot", d>> \in Derived(k, {d})
      BY <2>2 DEF Contradictory
    <3>2. d \in Expressions(k) \cup {Thing}
      BY DEF ConsistencyRoots, OccurringIndividuals, Roots, Expressions
    <3>3. Holds(I, <<"bot", d>>)
      BY <2>1, <3>1, <3>2, RootConsequences
    <3>4. <<"bot", d>>[1] = "bot" /\ <<"bot", d>>[2] = d
      OBVIOUS
    <3>5. I.ext[d] = {}
      BY <3>3, <3>4, Claims
    <3>6. QED
      BY <3>5 DEF IsPossible
  <2>3. CASE <<<<"owl:topObjectProperty">>, <<"owl:bottomObjectProperty">>>> \in k.sub
    <3> DEFINE p == <<<<"owl:topObjectProperty">>, <<"owl:bottomObjectProperty">>>>
    <3>1. p[1] = <<"owl:topObjectProperty">> /\ p[2] = <<"owl:bottomObjectProperty">>
      OBVIOUS
    <3>2. Prepared(k) /\ ModelOf(I, k.rows, {Thing, Nothing})
      BY <2>1, ViewPrepared DEF IsTableModel
    <3>3. I.rel[p[1]] \subseteq I.rel[p[2]]
      BY <2>3, <3>2, TablesMean
    <3>4. QED
      BY <3>1, <3>3 DEF IsPossible
  <2>4. QED
    BY <2>1, <2>2, <2>3 DEF SettledVerdict
<1>2. QED
  BY <1>1, SessionInvariant, PTL

\* Every edge of the class relation holds in every model, after any sequence of calls and
\* failures, and so does every pair of its reflexive-transitive closure.
THEOREM ClassEdgesAreSound == Spec => []EdgesHold
<1>1. SessionInv => EdgesHold
  <2> SUFFICES ASSUME SessionInv, Table(k, "range") = {}, NEW I, IsTableModel(I),
                      NEW e \in ClassEdges(facts)
               PROVE  I.ext[e[1]] \subseteq I.ext[e[2]]
    BY DEF EdgesHold
  <2>0. SessionTypeOK /\ FactsFollow /\ Prepared(k)
    BY ViewPrepared DEF SessionInv
  <2>1. \A x \in Roots("class") : x \in Expressions(k)
    BY DEF Roots, Expressions
  <2>2. \A x \in {Thing, Nothing} : InterpretsName(I, x)
    BY DEF IsTableModel, ModelOf
  <2>3. ASSUME NEW x \in Roots("class"), NEW c \in facts,
               c[1] \in {"dec", "com", "bot"}, c[2] = x
        PROVE  Holds(I, c)
    <3> DEFINE R == {Destination(q) : q \in facts}
    <3>1. x \in R /\ IsFiniteSet(R) /\ c \in Derived(k, R)
      BY <2>0, <2>3 DEF FactsFollow, Destination
    <3> HIDE DEF R
    <3>2. c \in Derived(k, {x})
      BY <2>0, <2>3, <3>1, RootsAreIndependent
    <3>3. QED
      BY <2>0, <2>1, <3>2, RootConsequences
  <2>4. CASE \E x \in Roots("class") : e = <<Nothing, x>>
    BY <2>2, <2>4 DEF InterpretsName
  <2>5. CASE \E x \in Roots("class") : e = <<x, Thing>>
    <3>1. PICK x \in Roots("class") : e = <<x, Thing>>
      BY <2>5
    <3>2. InterpretsName(I, x)
      BY <2>0, <2>1, RootIsInterpreted
    <3>3. QED
      BY <2>2, <3>1, <3>2 DEF InterpretsName
  <2>6. CASE \E x \in Roots("class") : \E y \in Subsumers(facts, x) : e = <<x, y>>
    <3>1. PICK x \in Roots("class") : \E y \in Subsumers(facts, x) : e = <<x, y>>
      BY <2>6
    <3>2. PICK c \in facts : c[1] \in {"dec", "com"} /\ c[2] = x /\ e = <<x, c[3]>>
      BY <3>1 DEF Subsumers, At, Destination
    <3>3. QED
      BY <2>3, <3>2, Claims
  <2>7. CASE \E x \in Roots("class") : Contradictory(facts, x) /\ e = <<x, Nothing>>
    <3>1. PICK x \in Roots("class") : <<"bot", x>> \in facts /\ e = <<x, Nothing>>
      BY <2>7 DEF Contradictory
    <3>2. <<"bot", x>>[1] = "bot" /\ <<"bot", x>>[2] = x
      OBVIOUS
    <3>3. I.ext[x] = {}
      BY <2>3, <3>1, <3>2, Claims
    <3>4. QED
      BY <3>1, <3>3
  <2>8. \A x \in Roots("class") : ContextOf(facts, x) = facts
    BY DEF ContextOf
  <2>9. \/ e \in {<<Nothing, x>> : x \in Roots("class")}
        \/ e \in {<<x, Thing>> : x \in Roots("class")}
        \/ \E x \in Roots("class") :
              e \in {<<x, y>> : y \in Subsumers(ContextOf(facts, x), x) \cap Roots("class")}
        \/ e \in {<<x, Nothing>> :
                    x \in {y \in Roots("class") : Contradictory(ContextOf(facts, y), y)}}
    BY Zenon DEF ClassEdges
  <2>10. QED
    BY <2>4, <2>5, <2>6, <2>7, <2>8, <2>9
<1>2. QED
  BY <1>1, SessionInvariant, PTL

=============================================================================
