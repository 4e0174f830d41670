------------------------------ MODULE Session ------------------------------
(***************************************************************************)
(* SaturationSession: the lazy stages of the Python backend over one       *)
(* shared SaturationEngine, the global consistency verdict that is         *)
(* evaluated after every run, and the class relation the taxonomy is built *)
(* from.  A call is answered in steps, one per stage it has to pass, and   *)
(* an exception out of the engine may end it at any of them.  The engine   *)
(* is replaced by what module Saturation shows of it: a run that returns   *)
(* has closed the facts, one that raises leaves a part of them behind and  *)
(* the rest for the next run.                                              *)
(***************************************************************************)
EXTENDS RuleClosure

CONSTANTS
    Ontologies,    \* the ontologies considered: sets of axioms
    Compiled(_),   \* for each ontology, the rows it is compiled to
    ExtraRoots(_)  \* for each ontology, the sets of roots saturate_roots may be called with

\* The compiled tables passed their validation, and the calls name finitely many roots.
ASSUME CompiledAssumption ==
    \A o \in Ontologies :
        WellFormed(Compiled(o)) /\ \A roots \in ExtraRoots(o) : IsFiniteSet(roots)

VARIABLES
    ont,          \* the loaded ontology
    k,            \* the compiled ontology and its property closure
    call,         \* the call being answered
    stage,        \* _stage
    facts,        \* the conclusions of _engine, inserted or pending
    consistency   \* _consistency: "none" until it is first evaluated

vars == <<ont, k, call, stage, facts, consistency>>

COMPILED == 0
PROPERTIES == 1
CONSISTENCY == 2
CLASSIFIED == 3
REALIZED == 4

\* The stage a call needs and the root sets it runs once it is there.
Idle == [goal |-> COMPILED, extra |-> {}]

\* _roots(tag)
Roots(tag) == {row[2] : row \in {q \in Table(k, "expr") : q[2][1] = tag}}

\* occurring_individual_roots
OccurringIndividuals == {x \in Roots("individual") : Negative(k, x) \/ Positive(k, x)}

\* consistency_roots
ConsistencyRoots == {Thing} \cup OccurringIndividuals

\* Mutant of Verdict: contradictory individuals are not looked for.
VerdictOnThing(C) ==
    IF \/ Contradictory(C, Thing)
       \/ <<<<"owl:topObjectProperty">>, <<"owl:bottomObjectProperty">>>> \in k.sub
    THEN "inconsistent" ELSE "consistent"

\* evaluate_consistency on the contexts that exist: a missing one is no contradiction.
Verdict(C) ==
    IF \/ \E d \in ConsistencyRoots : Contradictory(C, d)
       \/ <<<<"owl:topObjectProperty">>, <<"owl:bottomObjectProperty">>>> \in k.sub
    THEN "inconsistent" ELSE "consistent"

\* The roots the engine has been run with once a stage is reached.
Promised(reached) ==
    (IF reached >= CONSISTENCY THEN ConsistencyRoots ELSE {})
      \cup (IF reached >= CLASSIFIED THEN Roots("class") ELSE {})
      \cup (IF reached >= REALIZED THEN Roots("individual") ELSE {})

Init ==
    /\ ont \in Ontologies
    /\ k = Saturated(Compiled(ont))
    /\ call = Idle
    /\ stage = COMPILED
    /\ facts = {}
    /\ consistency = "none"

\* The facts of the engine once these roots are allocated and seeded.
Seeded(roots) == facts \cup {Initialization(d) : d \in roots}

\* engine.run(roots) returns, and the verdict is evaluated again.
RunEngine(roots) ==
    /\ facts' = ClosureOf(k, Seeded(roots))
    /\ consistency' = Verdict(facts')

\* ensure_properties, ensure_consistency, ensure_classified, ensure_realized
Ensure(goal) ==
    /\ call = Idle
    /\ call' = [goal |-> goal, extra |-> {}]
    /\ UNCHANGED <<ont, k, stage, facts, consistency>>

\* saturate_roots and saturate_query_root
SaturateRoots(roots) ==
    /\ call = Idle
    /\ call' = [goal |-> CONSISTENCY, extra |-> {roots}]
    /\ UNCHANGED <<ont, k, stage, facts, consistency>>

\* ensure_properties, from every call
BuildProperties ==
    /\ call.goal >= PROPERTIES
    /\ stage = COMPILED
    /\ stage' = PROPERTIES
    /\ UNCHANGED <<ont, k, call, facts, consistency>>

\* Mutant of EvaluateConsistency: the cached verdict is not reused.
EvaluateConsistencyAgain ==
    /\ call.goal >= CONSISTENCY
    /\ stage >= PROPERTIES
    /\ RunEngine(ConsistencyRoots)
    /\ stage' = CONSISTENCY
    /\ UNCHANGED <<ont, k, call>>

\* Mutant of EvaluateConsistency: only owl:Thing is saturated.
EvaluateConsistencyOfThing ==
    /\ call.goal >= CONSISTENCY
    /\ stage = PROPERTIES
    /\ RunEngine({Thing})
    /\ stage' = CONSISTENCY
    /\ UNCHANGED <<ont, k, call>>

\* The body of ensure_consistency
EvaluateConsistency ==
    /\ call.goal >= CONSISTENCY
    /\ stage = PROPERTIES
    /\ RunEngine(ConsistencyRoots)
    /\ stage' = CONSISTENCY
    /\ UNCHANGED <<ont, k, call>>

\* The body of ensure_classified
Classify ==
    /\ call.goal >= CLASSIFIED
    /\ stage = CONSISTENCY
    /\ RunEngine(Roots("class"))
    /\ stage' = CLASSIFIED
    /\ UNCHANGED <<ont, k, call>>

\* The body of ensure_realized
Realize ==
    /\ call.goal >= REALIZED
    /\ stage = CLASSIFIED
    /\ RunEngine(Roots("individual"))
    /\ stage' = REALIZED
    /\ UNCHANGED <<ont, k, call>>

\* The body of saturate_roots and saturate_query_root, past ensure_consistency
RunExtra(roots) ==
    /\ stage >= call.goal
    /\ call.extra = {roots}
    /\ RunEngine(roots)
    /\ call' = [call EXCEPT !.extra = {}]
    /\ UNCHANGED <<ont, k, stage>>

\* The call is answered.
Answer ==
    /\ call # Idle
    /\ stage >= call.goal
    /\ call.extra = {}
    /\ call' = Idle
    /\ UNCHANGED <<ont, k, stage, facts, consistency>>

\* The roots of the engine run the call is about to make.
RootsToRun ==
    CASE stage < call.goal /\ stage = PROPERTIES -> {ConsistencyRoots}
      [] stage < call.goal /\ stage = CONSISTENCY -> {Roots("class")}
      [] stage < call.goal /\ stage = CLASSIFIED -> {Roots("individual")}
      [] stage >= call.goal -> call.extra
      [] OTHER -> {}

\* Mutant of Raise: the stage is advanced before the engine is run.
RaiseAdvanced ==
    \E roots \in RootsToRun :
        /\ facts' \in {Seeded(roots), Round(k, Seeded(roots))}
        /\ call' = Idle
        /\ stage' = IF stage < call.goal THEN stage + 1 ELSE stage
        /\ UNCHANGED <<ont, k, consistency>>

\* The engine run raises, having inserted or published a part of its conclusions.
Raise ==
    \E roots \in RootsToRun :
        /\ facts' \in {Seeded(roots), Round(k, Seeded(roots))}
        /\ call' = Idle
        /\ UNCHANGED <<ont, k, stage, consistency>>

Next ==
    \/ \E goal \in PROPERTIES .. REALIZED : Ensure(goal)
    \/ \E roots \in ExtraRoots(ont) : SaturateRoots(roots)
    \/ BuildProperties
    \/ EvaluateConsistency
    \/ Classify
    \/ Realize
    \/ \E roots \in ExtraRoots(ont) : RunExtra(roots)
    \/ Answer
    \/ Raise

Spec == Init /\ [][Next]_vars

(***************************************************************************)
(* build_class_taxonomy                                                    *)
(***************************************************************************)

\* The facts the edges of class d are read from: with ranges, those of an engine that
\* saturates d alone, else those of the session's engine, C.
ContextOf(C, d) == IF Table(k, "range") = {} THEN C ELSE Derived(k, {d})

\* Mutant of ClassEdges: an inconsistent context is not put below owl:Nothing.
ClassEdgesOfSubsumers(C) ==
    LET members == Roots("class")
    IN  {<<Nothing, x>> : x \in members}
          \cup {<<x, Thing>> : x \in members}
          \cup UNION {{<<x, y>> : y \in Subsumers(ContextOf(C, x), x) \cap members} : x \in members}

\* The <<sub, super>> edges given to the reduction for a consistent ontology.
ClassEdges(C) ==
    LET members == Roots("class")
    IN  {<<Nothing, x>> : x \in members}
          \cup {<<x, Thing>> : x \in members}
          \cup {<<x, Nothing>> : x \in {y \in members : Contradictory(ContextOf(C, y), y)}}
          \cup UNION {{<<x, y>> : y \in Subsumers(ContextOf(C, x), x) \cap members} : x \in members}

(***************************************************************************)
(* Properties                                                              *)
(***************************************************************************)

\* "Stages advance monotonically": no call and no exception takes a stage or a fact back.
StagesAdvance == [][stage' >= stage /\ facts \subseteq facts']_vars

\* A stage is reached only when its roots are saturated, so that the calls that find it
\* reached may answer without running the engine, even after a run that raised.
StageIsEarned ==
    \A d \in Promised(stage) : Subsumers(Derived(k, {d}), d) \subseteq Subsumers(facts, d)

\* "Stages ... are idempotent": once evaluated, the verdict on the ontology never changes,
\* whatever is classified, realized or queried afterwards.
VerdictIsStable == [][consistency # "none" => consistency' = consistency]_vars

(***************************************************************************)
(* The session between any two steps of a call                             *)
(***************************************************************************)
SessionTypeOK ==
    /\ ont \in Ontologies
    /\ k = Saturated(Compiled(ont))
    /\ stage \in COMPILED .. REALIZED
    /\ call \in [goal : COMPILED .. REALIZED, extra : SUBSET ExtraRoots(ont)]
    /\ call.extra # {} => call.goal = CONSISTENCY
    /\ consistency \in {"none", "consistent", "inconsistent"}

\* The facts are about finitely many contexts, and follow from initialising them.
FactsFollow ==
    /\ IsFiniteSet({Destination(c) : c \in facts})
    /\ facts \subseteq Derived(k, {Destination(c) : c \in facts})

\* All that a promised root derives is among the facts, not only its subsumers.
PromiseKept == \A d \in Promised(stage) : Derived(k, {d}) \subseteq facts

\* The verdict on the roots it is about, each saturated alone.
SettledVerdict ==
    IF \/ \E d \in ConsistencyRoots : Contradictory(Derived(k, {d}), d)
       \/ <<<<"owl:topObjectProperty">>, <<"owl:bottomObjectProperty">>>> \in k.sub
    THEN "inconsistent" ELSE "consistent"

\* There is a verdict only once its roots are saturated; without ranges, no other root the
\* engine saturated has changed it.
VerdictSettled ==
    consistency # "none" =>
        stage >= CONSISTENCY /\ (Table(k, "range") = {} => consistency = SettledVerdict)

\* The inductive invariant of the session.
SessionInv == SessionTypeOK /\ FactsFollow /\ PromiseKept /\ VerdictSettled

=============================================================================
