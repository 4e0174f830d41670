------------------------------ MODULE Workspace ------------------------------
(***************************************************************************)
(* NativeCoreSession.ensure_contexts and its reused SaturationWorkspace:   *)
(* the Rust backend saturates every missing root on its own, in a worker's *)
(* workspace that is cleared between roots, and keeps the context of the   *)
(* root.  One FIFO agenda serves all contexts of a run, and one accepted   *)
(* set suppresses duplicates.                                              *)
(***************************************************************************)
EXTENDS RuleClosure, FiniteSetsExt

CONSTANTS
    Ontologies,    \* the ontologies considered: sets of axioms
    Compiled(_),   \* for each ontology, the rows it is compiled to
    Requests(_)    \* for each ontology, the sets of roots that may be asked for at once

\* The compiled tables passed their validation, and the requests are finite.
ASSUME CompiledAssumption ==
    \A o \in Ontologies :
        WellFormed(Compiled(o)) /\ \A roots \in Requests(o) : IsFiniteSet(roots)

VARIABLES
    ont,        \* the loaded ontology
    k,          \* PreparedSaturation: ontology-wide rule indexes
    missing,    \* ensure_contexts: the roots of the request without a context
    outcomes,   \* ensure_contexts: root -> conclusions, collected by the workers
    running,    \* the roots of the current run_root: none or one
    contexts,   \* SaturationWorkspace.contexts: allocated roots
    stored,     \* the conclusions inserted in them
    accepted,   \* SaturationWorkspace.accepted
    agenda,     \* SaturationWorkspace.agenda
    cache       \* NativeCoreSession.contexts: root -> conclusions of its context

wsVars == <<contexts, stored, accepted, agenda>>
vars == <<ont, k, missing, outcomes, running, wsVars, cache>>

\* The elements of a set in a fixed order: which order the rules emit products in is
\* no concern of the properties.
Listed(S) == FoldSet(LAMBDA x, listed : Append(listed, x), <<>>, S)

Init ==
    /\ ont \in Ontologies
    /\ k = Saturated(Compiled(ont))
    /\ missing = {}
    /\ outcomes = <<>>
    /\ running = {}
    /\ contexts = {}
    /\ stored = {}
    /\ accepted = {}
    /\ agenda = <<>>
    /\ cache = <<>>

\* ensure_contexts: filter the request, and give the workers fresh workspaces.
EnsureContexts(roots) ==
    /\ missing = {}
    /\ missing' = roots \ DOMAIN cache
    /\ outcomes' = <<>>
    /\ contexts' = {}
    /\ stored' = {}
    /\ accepted' = {}
    /\ agenda' = <<>>
    /\ UNCHANGED <<ont, k, running, cache>>

\* Mutant of Reset: the accepted set survives into the next root.
ResetKeepsAccepted(roots) ==
    /\ contexts' = roots
    /\ stored' = {}
    /\ agenda' = Listed({Initialization(d) : d \in roots} \ accepted)
    /\ accepted' = accepted \cup {Initialization(d) : d \in roots}

\* reset and the ensure_context calls that seed a run.
Reset(roots) ==
    /\ contexts' = roots
    /\ stored' = {}
    /\ agenda' = Listed({Initialization(d) : d \in roots})
    /\ accepted' = {Initialization(d) : d \in roots}

\* run_root(d) on a workspace that may have served other roots of the request.  Which
\* roots one worker serves, and in which order, is up to the pool.
StartRoot(d) ==
    /\ running = {}
    /\ d \in missing \ DOMAIN outcomes
    /\ Reset({d})
    /\ running' = {d}
    /\ UNCHANGED <<ont, k, missing, outcomes, cache>>

\* What enqueueing the products accepts: the initialisations of the contexts they
\* allocate, and the products not seen before.
Novel(products) ==
    (products \cup {Initialization(Destination(c)) :
                        c \in {q \in products : Destination(q) \notin contexts}})
      \ accepted

\* One iteration of the agenda loop of saturate.
Step ==
    /\ agenda # <<>>
    /\ LET premise == Head(agenda)
           inserted == stored \cup {premise}
           products == DispatchRule(k, At(inserted, Destination(premise)), premise)
       IN  /\ stored' = inserted
           /\ contexts' = contexts \cup {Destination(c) : c \in products}
           /\ accepted' = accepted \cup Novel(products)
           /\ agenda' = Tail(agenda) \o Listed(Novel(products))
    /\ UNCHANGED <<ont, k, missing, outcomes, running, cache>>

\* run_root returns: the context of the root is taken out, the rest stays behind in the
\* workspace until the next reset.
TakeRoot(d) ==
    /\ agenda = <<>>
    /\ running = {d}
    /\ outcomes' = [x \in DOMAIN outcomes \cup {d} |->
                        IF x = d THEN At(stored, d) ELSE outcomes[x]]
    /\ contexts' = contexts \ {d}
    /\ stored' = stored \ At(stored, d)
    /\ running' = {}
    /\ UNCHANGED <<ont, k, missing, accepted, agenda, cache>>

\* Every root has an outcome: ensure_contexts commits them and returns.
Commit ==
    /\ missing # {}
    /\ missing = DOMAIN outcomes
    /\ cache' = [x \in DOMAIN cache \cup missing |->
                    IF x \in missing THEN outcomes[x] ELSE cache[x]]
    /\ missing' = {}
    /\ UNCHANGED <<ont, k, outcomes, running, wsVars>>

Next ==
    \/ \E roots \in Requests(ont) : EnsureContexts(roots)
    \/ \E d \in missing : StartRoot(d)
    \/ Step
    \/ \E d \in running : TakeRoot(d)
    \/ Commit

Spec == Init /\ [][Next]_vars

(***************************************************************************)
(* Properties                                                              *)
(***************************************************************************)

\* A run has drained its agenda.
Quiescent == agenda = <<>> /\ running # {}

\* A drained agenda is a fixed point: no rule, whichever of its premises arrived last,
\* has a product left, and every addressed context is initialised.
DrainedIsClosed ==
    Quiescent => \A p \in accepted :
        /\ Initialization(Destination(p)) \in accepted
        /\ DispatchRule(k, At(accepted, Destination(p)), p) \subseteq accepted

\* "Rules with multiple premises must be complete regardless of which premise arrives
\* last": what p derives once q is there, dispatching q derives as well.
EitherPremiseLast ==
    Quiescent => \A p, q \in stored : Destination(p) = Destination(q) =>
        DispatchRule(k, {p, q}, p)
            \subseteq DispatchRule(k, {p}, p) \cup DispatchRule(k, {p, q}, q)

\* "Every reasoning fact and counter is cleared before the next demanded root": what is
\* cached for a root does not depend on the roots its workspace served before, on the
\* rest of the request, or on earlier requests.
CacheIsExact ==
    missing = {} => \A d \in DOMAIN cache : cache[d] = At(Derived(k, {d}), d)

\* "Both backends return structurally equal public values": without ranges, saturating all
\* requested roots in one engine, as the Python backend does, and each on its own, as the
\* Rust backend does, give every root the same subsumers and the same inconsistency.
SharedAgreesWithIsolated ==
    (missing = {} /\ Cardinality(DOMAIN cache) > 1 /\ Table(k, "range") = {}) =>
        LET shared == Derived(k, DOMAIN cache)
        IN  \A d \in DOMAIN cache :
                /\ Subsumers(cache[d], d) = Subsumers(shared, d)
                /\ Contradictory(cache[d], d) = Contradictory(shared, d)

(***************************************************************************)
(* The workspace between any two steps of a run                            *)
(***************************************************************************)

\* What the workspace was given: validated tables, and the roots of a finite request.
RequestOK ==
    /\ ont \in Ontologies
    /\ k = Saturated(Compiled(ont))
    /\ IsFiniteSet(missing)
    /\ IsFiniteSet(DOMAIN cache)
    /\ missing \cup DOMAIN cache \subseteq UNION Requests(ont)

\* One root of the request is being saturated, or none and the agenda is empty.
RunExact ==
    \/ running = {} /\ agenda = <<>>
    \/ \E d \in missing \ DOMAIN outcomes : running = {d}

\* The accepted conclusions are those inserted and those waiting, they belong to allocated
\* and initialised contexts, and they follow from the root being saturated alone.
AcceptedExact ==
    \A d \in running :
        /\ Initialization(d) \in accepted
        /\ accepted \subseteq Derived(k, {d})
        /\ agenda \in Seq(accepted)
        /\ accepted = stored \cup Range(agenda)
        /\ contexts = {Destination(c) : c \in accepted}
        /\ \A t \in contexts : Initialization(t) \in accepted

\* No product of an inserted premise has been lost.
Discharged ==
    running # {} => \A p \in stored :
        DispatchRule(k, At(stored, Destination(p)), p) \subseteq accepted

\* Every outcome, committed or not, is what the root derives alone.
OutcomesExact ==
    /\ \A d \in DOMAIN outcomes : outcomes[d] = At(Derived(k, {d}), d)
    /\ \A d \in DOMAIN cache : cache[d] = At(Derived(k, {d}), d)

\* The inductive invariant of the workspace.
WorkspaceInv == RequestOK /\ RunExact /\ AcceptedExact /\ Discharged /\ OutcomesExact

=============================================================================
