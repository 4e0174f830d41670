# A verification development for pyELK

pyELK is an OWL 2 EL reasoner: it compiles an ontology into an indexed form,
saturates *contexts* with consequence-based rules, and answers consistency,
classification, realization and query requests from the saturated contexts.
There is a pure Python backend and a Rust one that must return the same values.

This directory holds TLA+ modules translated from that code, TLC configurations
that check them on small instances, and TLAPS proofs for the scheduler, the rules, the
reused workspace, the stages of a session, the reduction to taxonomy nodes, the
construction of a reasoner and the threads that share one.
`PROJECT.json` lists the runs, the source lines each definition stands for, the
hazards and the findings. Paths below are relative to `src/pyelk` unless they
start with `rust/` or `specs/`.

Run a check with `tlc -workers 2 -config X.cfg Module`, a proof with
`tlapm XProofs.tla` (`Foundations.tla` holds the lemmas several of them share).

## 1. Inventory

| Component | State it keeps | Operations | Interacts with |
|---|---|---|---|
| Conversion (`indexing/conversion.py`, `polarity.py`) | none of its own; writes tables | one converter per axiom and expression kind, under a polarity | registers into a builder transaction |
| Index builder, compiler (`indexing/builder.py`, `compiler.py`) | ID tables, occurrence counters, feature counters, open transaction | add axiom, commit, roll back, merge, freeze; compile queries | calls conversion, frozen tables feed everything else |
| Records and codec (`indexing/ir.py`, `codec.py`, `metadata.py`) | none; values and bytes | validate, encode, decode, look up an entity | compiler, facade, native module, query sessions |
| Property saturation (`reasoning/properties.py`) | computed once | inclusion closure, ranges, compositions, redundancy elimination | read by the rules |
| Inference rules (`reasoning/rules.py`, `conclusions.py`) | none; read one context | `dispatch(state, premise, producer)`, nine handlers | products go back to the engine |
| Saturation engine (`reasoning/saturation.py`, `contexts.py`) | contexts with agenda, pending and stored sets, active queue, claimed context, retries, query roots | `demand`, `run`, `saturate_query_root`, exits by budget, interrupt, failure | calls the rules; called by the session and the taxonomy |
| Session and consistency (`reasoning/session.py`, `consistency.py`) | stage, cached verdict, engine | `ensure_*`, `saturate_roots` | drives the engine |
| Taxonomy (`reasoning/taxonomy.py`) | none | class relation (isolated engines with ranges), property relation, validation | reads contexts, calls reduction |
| Reduction (`reasoning/reduction.py`) | local to a call | quotient, topological order, two transitive reductions | called by taxonomy, realization |
| Realization, queries, entailment (`reasoning/realization.py`, `queries.py`, `entailment.py`) | evaluations per query, their contexts, decided axioms | same-individual nodes, direct types, direct answers, obligations | session, taxonomy, the builder (overlays) |
| Completeness (`reasoning/completeness.py`) | none | which features make which answer incomplete | facade |
| Backends (`backends/*.py`) | cached results per session | selection with fallback, session methods | facade, native module |
| Facade (`api.py`) | lock, closed flag, cached public values | public requests, `close` | backends |
| Native core (`rust/pyelk-core/src/*.rs`) | prepared indexes, worker workspaces, cache of contexts | `ensure_contexts`, taxonomy, queries, encoded compiler | PyO3 module |

What is hard in it, and what correctness means:

- **The engine** may be stopped between any two conclusions, or in the middle of
  a dispatch that has already published some of its products. A resumed run must
  end in the same fixed point; no context with work may be outside the queue;
  nothing underivable may appear.
- **The rules** have premises that arrive in any order, in contexts that are
  initialised at any time. Each two-premise rule must fire whichever premise is
  last. Together with indexing they must be sound and complete for the axioms as
  *written*, not for the tables.
- **Property chains**: compositions are dropped as redundant when other
  compositions replace them; that must lose nothing.
- **Worker workspaces** are reused for one root after another; the cached answer
  must not depend on what the workspace held before.
- **Payloads** cross to the native module and to query sessions as bytes whose
  directory, offsets, counts and digest describe each other. A decoder must return
  what was sent or refuse, and may not give two payloads one meaning.
- **The session** answers later requests from stages it believes reached, and
  evaluates the consistency verdict anew after each run of a shared engine.
- **Queries** are compiled into an overlay with a numbering of its own and saturate
  contexts lazily; an answer must not depend on what was asked before, and one that
  is labelled complete must be all there is.
- **The compiler** rolls an axiom back when a part of it is unsupported, merges
  local handles and renumbers everything; the tables may depend neither on the order
  of the axioms nor on annotated copies.
- **The facade** serialises threads over three layers of caches, with backend calls
  that raise or answer malformed values, and a `close()` at any moment.
- **The construction** of a reasoner negotiates with a native module that may be
  absent, broken or old, and may fail after it opened a session.
- **The reduction** replaces recursion by hand-written stacks and chooses between
  two algorithms by size and density.

The full list, with lines, is under "hazards" in `PROJECT.json`.

## 2. Modules

```
Calculus ── Closure                    abstract promise of saturation
   └────── Saturation ─┬─ MCSaturation the Python scheduler
Foundations ───────────┴─ SaturationProofs

Vocabulary, PropertyClosure ── ELRules ── RuleClosure ─┬─ TableMeaning
                                                       ├─ Workspace ── WorkspaceModels (with TableMeaning) ── WorkspaceMeaning ── MCRules
Preorders ─┬─ Semantics ──────────── (…Meaning)        └─ Session ─── SessionMeaning ─┐
           └─ Reduction ─┬─ MCReduction                                               │
                         └─ ReductionProofs (with Foundations)                        │
Completeness ─────────────────────────────────────────────────────────────── Answers ─┴─ MCAnswers
TableMeaning, Foundations ── RuleProofs ─┬─ WorkspaceProofs (with WorkspaceModels)
                                         └─ SessionProofs (with Session)
Vocabulary ── Conversion ─┬─ Builder ─┬─ Transfer ── MCBuilder  compilation, overlays, payloads
Tables ───────────────────┴─ Codec ───┘
ReasonerContract ── Facade ─┬─ MCFacade    abstract promise and threads of a reasoner
                            └─ FacadeProofs
Startup ─┬─ MCStartup                  construction of a reasoner
         └─ StartupProofs
```

**Calculus** is the interface between scheduler and rules: conclusions, the
context that owns each, and `Dispatch(S, p)`, the products of premise `p` in a
context that stores `S`. Its three assumptions are what the scheduler needs of
the rules: routing, monotonicity, and that a join of two conclusions of one context is
found from whichever of them is inserted last. `RuleProofs` proves all three of the
real rules.

**Closure** is the abstract specification: roots are demanded, conclusions are
derived one at a time, and a run returns only on a fixed point. It has no agenda,
no queue and no failures.

**Saturation** is `SaturationEngine` with its `ContextState`s. Each action is one
step the engine can be stopped after: `Demand`, `Run`, `SaturateQueryRoot`,
`SeedRoot`, `EnterLoop`, `Claim`, `RetryPremise`, `PopPremise`, `EnqueueProduct`,
`EndDispatch`, `MarkSaturated`, `Return`, `ReturnEarly`, and the exits
`ExceedBudget`, `Interrupt` and `FailDispatch`, which run the `finally` clause
(`Abandon`). `demanded`, `returned` and `faults` are history variables.

**Vocabulary** is what indexing and rules share: expressions, the rows of the compiled
tables, and `WellFormed`, the references `CompiledOntology` validates. The rule
modules and what is proved about them need no more of a compilation than that;
`Workspace` and `Session` take `Compiled(_)` as a constant, which every run sets to
`Compile`. **Conversion** gives the tables a compilation ends with, as an operator from a set
of axioms: rows of told subsumers, conjunctions, disjointness, definitions,
restrictions and properties, each under the polarity of its occurrence, and the
features of constructs that are ignored. An axiom with an unsupported part leaves
its feature only. **PropertyClosure** computes from it the chains, the inclusion
closure, inherited ranges and the compositions left after the redundancy
elimination. **ELRules** is `RuleDispatcher.dispatch`: one operator per handler,
conclusions as tuples. Sorted iteration orders disappear.

**Builder** is how those tables come about: `compile_ontology` takes the axioms of
a view in any order, skips annotated copies, and gives each a transaction. The
converters are a *script* of interning and row operations (`AxiomScript`), played
one operation per step (`ConvertStep`) into a local index with local handles; it
ends in `CommitAxiom` (merge, with handles renamed), `RollBack`, `ExceedNodes` or
an overflow. `FreezeBuilder` renumbers entities and expressions canonically.
`InstallQuery` compiles a query into a mini-IR, loads ontology and query into an
overlay and computes the two maps of expression IDs. `Conversion` is the reference
it is compared with.

**Tables** is `ir.py`: the records a freeze constructs, with rows sorted and IDs
from zero, the checks of their constructors, and the binary search of the symbol
table. **Codec** is the container with its directory, digest and the sections of an
ontology, a query and the facade's metadata, and the decoders. A stream is a
sequence of units (a header field, a number, a byte), so lengths count units; the
digest is collision free. **Transfer** composes them with `Builder`: one payload of
a compilation is sent (`SendOntology`, `SendMetadata`, `SendQuery`,
`SendEntailment`) and decoded as it was sent (`Arrive`), damaged in one unit or cut
off, with the old digest or a fitting one (`ArriveDamaged`), or with a section that a
later minor version added (`ArriveExtended`).

**RuleClosure** is the least set closed under the rules, used above the scheduler
in place of it: `Saturation` shows that a returned run is such a set, `Workspace`
that the Rust loop is, and `RuleProofs` that the set exists.

**Semantics** is independent of the program: the direct semantics of the indexed
constructs and the canonical interpretation of a saturated set, whose elements are the
consistent contexts. It is not mapped to source. An individual is interpreted like a
class, which is how a context root stands for it; in the reference models of
`MCAnswers` individuals denote single elements.

**TableMeaning** is independent of the program too: when an interpretation is a model of
compiled tables (`ModelOf`), and what a conclusion claims in it (`Holds`). It interprets
the expressions the tables list, one step of a constructor at a time, so it needs no
recursion and can be proved about. **WorkspaceModels** states with it that what a
workspace accepts is sound in any models of the tables, `Models(_)`.

**WorkspaceMeaning** and **SessionMeaning** state what a drained run and an answer mean
in the models of the axioms as written (completeness, the verdict, the taxonomy
relation), apart from the state machines, since `Semantics` recurses over expressions.
`WorkspaceMeaning` also gives the runs their `Models`: the reference interpretations
that satisfy the axioms as written (`AxiomModels`). That these are models of the tables
is `ModelsAssumption`, which TLC evaluates: compilation adds no consequences.

**Workspace** is `NativeCoreSession.ensure_contexts` (`rust/pyelk-core/src/session.rs`)
and `SaturationWorkspace` (`reasoning.rs`): missing roots are saturated one after
another in a workspace that is reset in between, in any order, and committed at
once when all are done. Workers share nothing but the prepared indexes, so one
workspace with every order of roots covers them. The rule bodies are those of
`ELRules`, translated from Python.

**Session** is `SaturationSession`, `evaluate_consistency` and the class edges of
`build_class_taxonomy`. A call passes its stages one by one; the engine may raise
at each, leaving part of its conclusions.

**Answers** extends `Session` with what is read from the saturated contexts: class
and property taxonomy, realization, class queries with their evaluations and lazily
extended contexts, entailment checks by obligations, and the caches of each. The
reduction is its mathematical meaning here (`Reduction` shows that the algorithm has
it), and IDs are the expressions they stand for (`Builder` shows that the maps
between IDs are right). **Completeness** is the policy that labels the answers:
tables of features, alone and combined, per task.

**Reduction** is `quotient_and_reduce` and `transitive_reduction` with one action
per loop iteration. Members are their IDs and nodes are sets of members. An entry of
the search stack holds a node and the successors from its current position on, which
are taken in increasing order. The scan over the successors of a node by rank, and the
marking loop, are recursive functions (`Uncovered`, `Marked`): they write only locals.
**Preorders** holds the reference closure of a relation.

**Startup** is `Reasoner.__init__` with the dispatcher of `backends/__init__.py`:
input policy, resolution of the request, probe, negotiation, encoded or scalar
compilation, creation and inspection of the session. Each step may raise as the code
lets it, the constructors of either backend's session included; a native session whose
wrapper could not be constructed is referred to by nobody and is dropped, not closed, so
`NothingLeaks` is about sessions that came into being as a `BackendSession`. Another thread may change `os.environ` in between.

**Facade** is a constructed reasoner under several threads. A call is a stack of
steps (`Body`), each an action; locked regions push and pop the reentrant lock.
Backend calls may raise (`Fail`), public and raw values are cached on the way back,
and `Close` closes the session in its `finally`. **ReasonerContract** is its abstract
specification: each call takes effect at one moment between request and return, and
nothing is answered after `close()`.

## 3. Runs

| Run | Bounds | What it shows |
|---|---|---|
| `scheduler` | 3 roots, 8 conclusions, budgets 0, 1 and unlimited, 2 early stops, 1 query key | no stranded work; retries come first; a return is a fixed point; nothing underivable; work is never taken back; refinement of `Closure`; the inductive invariant; a caller who resumes stopped runs ends with all contexts saturated |
| `rules` | subsets of up to 4 of the Boolean axioms, up to 5 of those on restrictions, self, domains, ranges, hierarchy and of those on nested, overlapping and transitive chains | drained is closed; either premise may be last; soundness in one- and two-element models (without ranges); completeness; the context a reused workspace caches is that of a fresh run and, without ranges, that of the shared engine |
| `reduction` | all graphs of 3 members, graphs of 4 members with up to 5 edges, dense graphs of 6 members | nodes are the equivalence classes, edges the covering pairs, only cycles are rejected, every call ends |
| `startup` | all configurations, environments, views and native modules the code tells apart, 1 change of the environment | no session leaks; no silent switch of the ingestion path; the request is honoured; the report is true |
| `facade` | 2 threads, 3 calls in all, 1 backend failure, consistent and inconsistent ontologies and one whose ranges may turn the verdict | the backend is serial and closed once; reasoner and session close together; caches agree; refinement of `ReasonerContract`; every call returns |
| `answers` | stages: up to 2 of 14, up to 3 of 12 axioms on classes and individuals, calls for a stage in any order, 3 sets of extra roots with up to 2 axioms; answers: up to 2, with an assertion up to 3, of 12 such axioms, up to 3 of 6 on properties, 6 class and 7 axiom queries, 2 answers per session with up to 1 axiom, else 1 | stages are earned and never lost; the verdict and the taxonomy relation are exactly the true ones and the verdict does not change; realization, class queries, entailment and property taxonomy are true, and exact where they are labelled complete (but for the selections that `fresh_equivalent` asks for; no ranges) |
| `builder` | up to 2 of 26 axioms, up to 3 of the core ones, 4 with one unsupported construct, up to 4 rules, in any order; 5 queries, 1 entailment; both modes | tables and counters are exactly those of the axioms, none beyond its limit, and only a counter that would pass it is refused; an overlay is valid, adds up the counters within the limit, and its ID maps name the right expressions and entities; every payload decodes to what was sent, so what was frozen is valid, and a damaged one (of two of the compilations, every unit with up to five wrong values, every cut) is refused or is the one encoding of what it decodes to |

Why these bounds reach the interesting cases. The calculus of `MCSaturation` has a
local product, one for another context, a join there, a result sent back, and a
product for a third context; with two early stops a failed premise can be retried
and fail again. The axiom pools contain, for each rule and each conversion case,
an axiom that makes it fire, and the joins need at most five axioms. Six members
are the fewest for which the density test prefers bitset rows, and their order is
not that of the IDs; `BITSET_NODE_LIMIT` keeps the value of the code. In `builder`
`NodeLimit` (5) and `MaxCount` (3) stand for the node ceiling and for 2^64 - 1. One
axiom exceeds the ceiling. A counter passes its limit in each place that adds to
one: inside the transaction of an axiom, also of one that would be rolled back later,
when two axioms are merged that stay within it alone, when the construct of four
axioms or a fourth rule is counted, and when a query is laid over tables that are
close to it. Most of the views compile, so that both outcomes are compared with the
sums over the axioms. `Reserved`, `FeatureLength` and `FingerprintSize` keep their
roles with small values. In `facade` three calls are a request, one that finds its
caches, and a `close()` that races either.

In `answers` the steps of `Session`, with their exceptions, are taken over the ontologies
of the first pool that nothing is asked about (those of up to two axioms with extra roots),
and over those of one axiom that both pools have (`MCGoals`, for the last stage only),
where taxonomy and realization are then asked of a session that a call left half way. The other answers reach their stage in one step. One
session fills one of its caches, with answers about one expression: they share nothing.

*Completeness* is checked through a model: if the consistent contexts of a drained
run form a model of the axioms as written, in which each root belongs to itself,
then what a context does not list does not follow. This needs no bound on the
countermodels. `answers` does the same for everything read from the contexts, and
only the property taxonomy uses the two-element interpretations in both directions.
*Soundness* is checked against interpretations of the given size: over one element for
axioms without links, where every element stands alone; over two elements, with up to two
pairs in a relation, for up to two axioms with links, and with one pair for three (two
where a property is reflexive). The proof below has no such bound; what these
interpretations are needed for is `ModelsAssumption`.

Deadlock is checked except in `facade`, `answers` and `builder`, whose bounds on
calls, answers and queries end a behaviour; `Reduction` and `Startup` have an
explicit last step.

**Fairness.** `scheduler` assumes that a started run continues
(`WF_vars(Engine)`: it is a sequential loop) and that the caller resumes while
work is queued. The second is a premise about callers, not a promise of the
engine, and early stops are bounded by `MaxFaults`. `reduction` assumes only that
the sequential loop continues. `facade` assumes weak fairness of each thread's next
step: a thread that can go on is scheduled. An `RLock` promises no more, and with a
bounded number of calls no stronger fairness is needed.

### Findings

Five runs are expected to fail; each has a reproduction of four axioms or fewer.

- `range_leak` (`RootConsequenceIsSound`): two links of one root share the context
  of their filler, so the range of one property reaches a restriction on the other.
  A comment in `taxonomy.py` says that isolated engines retain the correct root
  consequence.
- `two_definitions` (`Complete`): a class with two definitions is expanded only
  where it is decomposed, and a restriction is missed where it was composed.
- `stale_property_taxonomy` (`FlagMatchesShape`): with `A SubClassOf r some owl:Thing`
  and `range(r) = owl:Nothing` classification turns the verdict from consistent to
  inconsistent, since the range is written into the context of `owl:Thing`, also a
  consistency root. A property taxonomy cached before is then returned as that of an
  inconsistent ontology without being collapsed.
- `range_entailment` (`EntailmentIsRight`): entailment checks leave ranges out, so
  `A SubClassOf r some F` is not found from `A SubClassOf r some B` and
  `range(r) = F`, and the negative answer is labelled complete.
- `fresh_equivalent` (`QueryIsRight`): where `owl:Thing SubClassOf B`, the query `F and B`
  is equivalent to `F`, a class the ontology does not mention. Fresh classes are
  compared with the query in one direction only, so that `F` is listed among its strict
  sub- and superclasses, although `specs/compatibility.md` says that the strict
  relation excludes the equivalent node. Nodes of the ontology are told apart from it.

The passing runs hold beside them: soundness in `rules`, and all of `answers`, are about
ontologies without ranges, and the pools of the completeness checks give no class the pair of definitions that `two_definitions` uses. `answers` asks
for the sub- and superclasses of `F and B` except where the ontology contains
`owl:Thing SubClassOf B`; there it asks only for the satisfiability, the equivalent
classes and the instances. `QueryIsRight` is the same in both runs.

## 4. Proofs

Seven modules of theorems, and `Foundations` with the lemmas on the sequences that model
deques and on recursive functions over the naturals. Each table gives the property of a run that a theorem states for every value
of the constants.

### The scheduler

`SaturationProofs` proves about `Saturation`, for any roots, conclusions, rules,
budgets and number of early stops:

| Theorem | Property |
|---|---|
| `TypeCorrect` | `TypeOK` |
| `NoLostWork` | `NoStrandedWork`: a context with work is queued or claimed |
| `RetryOrder` | `RetryFirst`: a failed premise is the first one tried again |
| `Inductive` | `IInv` |
| `FixedPoint` | `ReturnedIsFixedPoint` |
| `Soundness` | `NothingUnderivable` |
| `Monotone` | `WorkIsMonotone` |
| `Refinement` | `ImplementsClosure`, with `derived <- Accepted` |

Assumptions: those of `Calculus` (routing, monotone dispatch, either premise last)
and `NullAssumption`, `BoundAssumption` of `Saturation`. TLC evaluates them on the
small calculus; `RulesMeetTheScheduler` below proves those of `Calculus` for the rules
of `rules.py`. The last of them, `LastPremiseAssumption`, is about two conclusions of
one context: the scheduler gives a dispatch only what its own context stores, and for
conclusions of different contexts the rules would not satisfy it.

The argument. `NoStrandedWork` alone is not inductive: that an exit leaves its
context queued depends on which context is claimed, on the queue flag, and on the
retry list. `SchedInv` collects those facts and is proved action by action
(`Scheduling`). The fixed point needs one more: *every product of an inserted
premise is accepted, or owed by a retry or by the running dispatch*
(`Discharged`). Inserting a premise is the delicate step, since it changes what
the stored premises derive; `LastPremiseAssumption` says that the new premise
derives the difference. When a run returns, no retry and no dispatch exist, so
nothing is owed and the stored set is closed. Soundness is a second induction:
each product comes from stored premises, hence stays in every closed set that
contains the demanded initialisations. The refinement maps each step to a demand,
one derivation, a return or a stutter, using `IInv` for the return.

### The rules and the reused workspace

`RuleProofs` is about the operators of `ELRules` and `RuleClosure`, for every
property view `k` of tables that pass validation (`Prepared`):

- `RulesMeetTheScheduler`: the products of a dispatch are conclusions about known
  contexts, dispatch is monotone in what the context stores, and what `p` derives
  with `q` beside it is derived by `p` alone or by `q` with `p` beside it. The last is
  a case for each pair of handlers that join: conjuncts, a filler and a
  sub-context, links with links, propagations with links, disjoint members,
  complements, contradictions with links.
- `ClosureIsLeast`: the rounds of `ClosureOf` end, in the least closed set. `ClosureOf`
  is a recursive function over sets of conclusions; that it is defined follows from the
  finiteness of `Conclusions`, by the least number of conclusions still missing at
  which it could fail.
- `RulesAreSound`: without ranges, every conclusion derived for any roots holds in every
  model of the tables, over a domain of any size.

The argument for `RulesAreSound` is that the conclusions that hold contain the
initialisations and are closed under dispatch; `ClosureIsLeast` does the rest. It has
a lemma for each handler, and rests on what the property view means in a model: the
inclusion closure of chains (`SubChainsHold`), a chain as the composition of its parts
(`ChainsMean`), the compositions that the redundancy elimination leaves
(`CompositionsHold`). A claim about a propagation or a link is about all pairs of its
chain, not about one context, which is what makes it preserved when a link is composed
elsewhere. Ranges are excluded because their handler writes a claim about the target of
one link into a context that other links share: the hypothesis is exactly where
`range_leak` begins.

`WorkspaceProofs` and the assumptions `CompiledAssumption` (compilations pass validation
and requests are finite sets of roots) and, for the last two, `ModelsAssumption` give, for every ontology and sequence of requests:

| Theorem | Property |
|---|---|
| `WorkspaceInvariant` | inductive invariant `WorkspaceInv` |
| `DrainedRunsAreClosed` | `DrainedIsClosed` |
| `PremisesCommute` | `EitherPremiseLast` |
| `CachedContextsAreExact` | `CacheIsExact` |
| `BackendsAgree` | `SharedAgreesWithIsolated` |
| `ConclusionsAreSound` | `Sound` |
| `OnlyRangesAreUnsound` | `RootConsequenceIsSound`, where the tables have no range |

`CacheIsExact` alone is not inductive. `WorkspaceInv` adds that the running workspace
accepted only what its root derives, that the agenda is what is accepted and not yet
inserted, that every product of an inserted premise is accepted (`Discharged`), and
that the outcomes waiting for the commit are exact. A drained agenda then leaves a
closed set, which holds everything the root derives. For `BackendsAgree` the set of
conclusions that bring no news into the contexts of an isolated run (`Local`) is shown
to be closed under the rules; without ranges only backward links and propagations
cross into a context from a foreign source, and they stay where they arrive. With
ranges this fails, which is the finding `range_leak`.

### The session

`SessionProofs`, for every ontology whose tables pass validation, every sequence of
calls and every failure of the engine:

| Theorem | Property |
|---|---|
| `SessionInvariant` | inductive invariant `SessionInv` |
| `StagesNeverGoBack` | `StagesAdvance` |
| `StagesAreEarned` | `StageIsEarned` |
| `VerdictNeverChanges` | `VerdictIsStable`, where no ontology has ranges |
| `InconsistentHasNoModel` | `InconsistencyIsReal`: without ranges, an inconsistent verdict leaves no possible model of the tables |
| `ClassEdgesAreSound` | `EdgesHold`: without ranges, every edge given to the reduction holds in every model of the tables |

`SessionInv` says that the facts of the engine follow from initialising the contexts
it has, that they hold all that the roots of every reached stage derive, and that,
without ranges, an evaluated verdict is the one of the consistency roots saturated
alone. A run that raises adds part of its conclusions, which keeps all three. The
hypothesis of `VerdictNeverChanges` is the boundary of the finding
`stale_property_taxonomy`, where a range turns the verdict. The last two theorems are the
sound halves of `VerdictIsRight` and `TaxonomyIsRight`, for domains of any size: what the
engine knows of a root is what the root derives alone (`RootsAreIndependent`), and that
holds by `RulesAreSound`. A model is *possible* if its domain and every occurring
individual are not empty and the top property is not below the bottom one, as in every
model that gives the built-in properties their meaning.

### The reduction

`ReductionProofs`, for every finite graph and every `BITSET_NODE_LIMIT`:

| Theorem | Property |
|---|---|
| `PreorderIsReach` | none: the closure `Preorder` of the runs is reachability |
| `ReductionInvariant` | inductive invariant `ReductionInv` |
| `ComponentsAreEquivalenceClasses` | `NodesAreEquivalenceClasses` |
| `OnlyCyclesAreRejected` | `RejectsOnlyCycles` |
| `DirectEdgesAreExact` | `DirectEdgesAreCovers` |

Assumption: `GraphsAssumption`, that members are finitely many IDs and edges connect
them. The proof states reachability without paths: `y` is reached from `x` if it is in
every set around `x` that no edge leaves (`Reach`). A fact about paths is then the
choice of such a set. That the doubled compositions of `Preorder` and the rounds of
`Marked` reach the same pairs is a count of what a round must add (`Layers`).

None of the three properties says anything before the last phase, so the invariant has
a part for each phase.

- `SearchInv`, the first search: the stack is a path, a node is left only when its
  successors are visited, and everything reachable from a finished member is finished
  before it, unless its class is still on the stack or has a member that finishes later
  (`Settled`). When the search is over, the last finished member of a class finished
  after all that its class leads to.
- `CollectInv`, the second search: no edge leads from outside the finished components
  into them, and what leads into the open one is led to by it. So
  the component closed next is a whole class.
- `OrderInv`, the order: a counter is the number of predecessors that are not ordered
  yet. If no node is ready and some are left over, each of them has a predecessor among
  them, which in a finite graph gives a cycle; a quotient of classes has none.
- `ReduceInv`, both reductions: rows are right for the last nodes of the order, and a
  successor is covered by an earlier one exactly if it is no covering pair. This needs
  the order by rank: a successor that covers another has the smaller rank, and what
  a dropped successor covers is covered by the one it was dropped for.

### A construction

`StartupProofs` proves about `Startup`, for any sets of configurations,
environments, views and native modules and any number of changes of the environment:

| Theorem | Property |
|---|---|
| `NoLeak` | `NothingLeaks` |
| `NoSwitch` | `NoSilentSwitch` |
| `Honoured` | `RequestIsHonoured` |
| `ReportHolds` | `ReportIsTrue` |

Assumption: `RequestAssumption`, the texts a request may have. The invariant
`StartupInv` says at which steps a session can be open (those whose failure closes
it), that the steps after a handoff are those of the encoded branch, and what the
last resolved request is at each step; it is needed because the request is resolved
a second time on the scalar path, possibly in another environment. `ReportInv` adds,
for an environment that did not change, that the steps of the native path are reached
only with a usable module and that the session is of the kind the
effective request and the handshake give. The proof found that the cases of `Reported`
had overlapped, which TLC resolves by their order and TLA+ does not; the guards of
every `CASE` are disjoint now.

### Threads

`FacadeProofs`, for any number of threads, calls and failures of the backend:

| Theorem | Property |
|---|---|
| `FacadeInvariant` | inductive invariant `FacadeInv` |
| `BackendCallsAreSerial` | `BackendIsSerial` |
| `ReasonerAndSessionCloseTogether` | `ClosedTogether` |
| `CachesStayInAgreement` | `CachesAgree` |
| `FacadeImplementsContract` | `ImplementsContract`, the refinement of `ReasonerContract` |

Assumptions: `SettingsAssumption` and `RequestsAssumption` (what a setting and a request
are) and `MarkersAssumption` (the marks for "none" are no values). The call of a thread is a stack of
steps, so the invariant is about stacks. A thread without the lock is idle or has its
whole method ahead; the owner works, closes or returns, and its depth is the number
of unlocks the stack still holds (`OneLock`, `TwoLocks`, `Entering`). That gives
`BackendIsSerial`. `CachesAgree` and the refinement need that no step reads a value that
is not there: `Ready` says that each use in the remaining steps has its value already, or
a step before it that supplies it (`Supplied`), and `BuildsOnce` that what is being
built is not yet cached. Both are kept when a step is replaced by others, a lemma on
sequences (`SuppliedTail`, `SuppliedPush`). A step of the facade maps to a request, to
the moment a call takes effect, a return or a stutter.

TLC checked every inductive invariant on the instance of its run before it was proved.

### Only model-checked

- `Converges`, `Terminates` and `EveryCallReturns`: liveness.
- `Complete`, `VerdictIsRight`, `TaxonomyIsRight` and the properties of `answers`: their
  meaning is the recursive `Denotes`, which has no induction principle here, and
  completeness is false in general (`two_definitions`). The sound direction of
  `VerdictIsRight` and `TaxonomyIsRight` is proved of the tables.
- `ModelsAssumption` for the compilations of `Conversion`: that models of the axioms are
  models of their tables.
- `CompilationIsRight`, `OverlayIsRight`, `PayloadsAreExact`: recursion over
  expressions and over the units of a payload.

## 5. What is left out

- In modelled components: diagnostics counters, snapshots and freezing of contexts,
  premise type checks, iteration orders, input type checks of the reduction and its
  dense renumbering (an order isomorphism), conversions between IDs and OWL objects
  in the facade.
- Interrupts at arbitrary bytecodes of the engine: the model stops runs at the
  boundaries the engine documents and inside a dispatch.
- Data properties and literals in conversion, and the features they record.
- The widths of the numbers in a payload, the wire format of results (`wire.py`), the
  summary and the registration manifest, and the field checks
  of `contracts.py`: plain data without state. What happens to a refused value is
  modelled in `Facade`.
- The Rust compiler, taxonomy and queries: second implementations of what is
  modelled from Python; the part without a Python counterpart, the reuse of
  workspaces, is `Workspace`.
- Parsing and file input (`inputs.py`, `core.py`) beyond the version and import
  policy, the PyO3 glue, packaging, the oracle and release tools, and benchmarks.

## 6. Plan

1. Proofs: the answers of `Answers` that are read from the contexts alone (direct types,
   the selectors), over the models of the tables.
2. The remaining operations of the native session, and the encoded compiler where
   its control differs from the Python one; `wire.py`, with the container of `Codec`.
3. Data properties in conversion, with their completeness features.
