----------------------------- MODULE Saturation -----------------------------
(***************************************************************************)
(* SaturationEngine: the duplicate-suppressing agenda of the pure Python   *)
(* backend, together with the ContextState it schedules.                   *)
(*                                                                         *)
(* One action is one step the engine can be stopped after: seeding a root, *)
(* claiming a context, taking the next premise, publishing one product,    *)
(* and the exits through the finally clauses.  Runs are nested nowhere, so *)
(* one program counter suffices.                                           *)
(***************************************************************************)
EXTENDS Calculus

CONSTANTS
    NoRoot,          \* None
    NoConclusion,    \* no premise in flight
    Key,             \* canonical query keys
    Unlimited,       \* max_conclusions = None
    MaxBudget,       \* largest finite max_conclusions a caller passes
    MaxFaults        \* how many times a run may be stopped early

ASSUME NullAssumption == NoRoot \notin Root /\ NoConclusion \notin Conclusion

ASSUME BoundAssumption ==
    /\ MaxBudget \in Nat
    /\ MaxFaults \in Nat
    /\ Unlimited \notin Nat

VARIABLES
    contexts,    \* _contexts: the roots with an allocated ContextState
    todo,        \* ContextState.todo
    pending,     \* ContextState._pending
    stored,      \* ContextState._conclusions
    queued,      \* ContextState.queued
    saturated,   \* ContextState.saturated
    retry,       \* _retry
    active,      \* _active
    claimed,     \* _claimed_root
    queryRoots,  \* _query_roots
    pc,          \* where run() stands
    seeds,       \* roots of this run not yet ensured
    budget,      \* max_conclusions minus completed
    premise,     \* the premise being dispatched
    products,    \* buffered products not yet enqueued
    demanded,    \* history: every root a caller asked for
    returned,    \* history: the last run returned normally
    faults       \* history: runs stopped early

ctxVars == <<contexts, todo, pending, stored, queued, saturated, retry, active>>
runVars == <<pc, seeds, budget, premise, products>>
histVars == <<demanded, returned, faults>>
vars == <<ctxVars, claimed, queryRoots, runVars, histVars>>

Locations == {"idle", "seed", "loop", "claimed", "dispatch"}

Budget == (0 .. MaxBudget) \cup {Unlimited}

(***************************************************************************)
(* ContextState and routing                                                *)
(***************************************************************************)

\* _has_local_work
HasLocalWork(r) == retry[r] # <<>> \/ todo[r] # <<>>

\* Append the novel conclusions cs to the agenda of r and queue r unless it is
\* queued already or is the context being processed.
Admit(r, cs) ==
    LET wake == cs # <<>> /\ r # claimed /\ ~queued[r]
    IN  /\ contexts' = contexts \cup {r}
        /\ todo' = [todo EXCEPT ![r] = @ \o cs]
        /\ pending' = [pending EXCEPT ![r] = @ \cup Range(cs)]
        /\ saturated' = [saturated EXCEPT ![r] = @ /\ cs = <<>>]
        /\ queued' = [queued EXCEPT ![r] = @ \/ wake]
        /\ active' = IF wake THEN Append(active, r) ELSE active

\* The initialisation a context still has to receive when it is first addressed.
Allocation(r) == IF r \in contexts THEN <<>> ELSE <<InitOf(r)>>

\* _ensure_context
EnsureContext(r) == Admit(r, Allocation(r))

\* ContextState.enqueue: nothing stored or pending is accepted twice.
Novel(c) ==
    LET r == Dest(c)
    IN  IF c \in stored[r] \cup pending[r] \cup Range(Allocation(r)) THEN <<>> ELSE <<c>>

\* SaturationEngine.enqueue: route to the owning context, allocating it on demand.
Enqueue(c) == Admit(Dest(c), Allocation(Dest(c)) \o Novel(c))

(***************************************************************************)
(* Entry points                                                            *)
(***************************************************************************)

Init ==
    /\ contexts = {}
    /\ todo = [r \in Root |-> <<>>]
    /\ pending = [r \in Root |-> {}]
    /\ stored = [r \in Root |-> {}]
    /\ queued = [r \in Root |-> FALSE]
    /\ saturated = [r \in Root |-> FALSE]
    /\ retry = [r \in Root |-> <<>>]
    /\ active = <<>>
    /\ claimed = NoRoot
    /\ queryRoots = [k \in Key |-> NoRoot]
    /\ pc = "idle"
    /\ seeds = {}
    /\ budget = Unlimited
    /\ premise = NoConclusion
    /\ products = {}
    /\ demanded = {}
    /\ returned = FALSE
    /\ faults = 0

\* demand(root)
Demand(r) ==
    /\ pc = "idle"
    /\ EnsureContext(r)
    /\ demanded' = demanded \cup {r}
    /\ returned' = FALSE
    /\ UNCHANGED <<stored, retry, claimed, queryRoots, runVars, faults>>

\* run(roots, max_conclusions = b); a finite budget is a way to be stopped early.
Run(roots, b) ==
    /\ pc = "idle"
    /\ b # Unlimited => faults < MaxFaults
    /\ pc' = "seed"
    /\ seeds' = roots
    /\ budget' = b
    /\ returned' = FALSE
    /\ UNCHANGED <<ctxVars, claimed, queryRoots, premise, products, demanded, faults>>

\* saturate_query_root(canonical_key, root)
SaturateQueryRoot(k, r) ==
    /\ pc = "idle"
    /\ queryRoots[k] \in {NoRoot, r}
    /\ queryRoots' = [queryRoots EXCEPT ![k] = r]
    /\ pc' = "seed"
    /\ seeds' = {r}
    /\ budget' = Unlimited
    /\ returned' = FALSE
    /\ UNCHANGED <<ctxVars, claimed, premise, products, demanded, faults>>

(***************************************************************************)
(* The body of run()                                                       *)
(***************************************************************************)

\* for root in checked_roots: _ensure_context(root).  The code uses ascending
\* order, the model any order.
SeedRoot(r) ==
    /\ pc = "seed"
    /\ r \in seeds
    /\ EnsureContext(r)
    /\ seeds' = seeds \ {r}
    /\ demanded' = demanded \cup {r}
    /\ UNCHANGED <<stored, retry, claimed, queryRoots, pc, budget, premise, products,
                   returned, faults>>

EnterLoop ==
    /\ pc = "seed"
    /\ seeds = {}
    /\ pc' = "loop"
    /\ UNCHANGED <<ctxVars, claimed, queryRoots, seeds, budget, premise, products, histVars>>

\* root = _active.popleft(); state.claim(); _claimed_root = root
Claim ==
    /\ pc = "loop"
    /\ active # <<>>
    /\ active' = Tail(active)
    /\ claimed' = Head(active)
    /\ queued' = [queued EXCEPT ![Head(active)] = FALSE]
    /\ saturated' = [saturated EXCEPT ![Head(active)] = FALSE]
    /\ pc' = "claimed"
    /\ UNCHANGED <<contexts, todo, pending, stored, retry, queryRoots, seeds, budget,
                   premise, products, histVars>>

\* Mutant of Return: the run ends with contexts still queued.
ReturnEarly ==
    /\ pc = "loop"
    /\ pc' = "idle"
    /\ budget' = Unlimited
    /\ returned' = TRUE
    /\ UNCHANGED <<ctxVars, claimed, queryRoots, seeds, premise, products, demanded, faults>>

\* The while loop over _active ends and run() returns its snapshot.
Return ==
    /\ pc = "loop"
    /\ active = <<>>
    /\ pc' = "idle"
    /\ budget' = Unlimited
    /\ returned' = TRUE
    /\ UNCHANGED <<ctxVars, claimed, queryRoots, seeds, premise, products, demanded, faults>>

\* Mutant of StartDispatch: the rules read the conclusions of every context.
StartDispatchEverywhere(p, S) ==
    /\ premise' = p
    /\ products' = Dispatch(S \cup UNION {stored[r] : r \in Root}, p)
    /\ pc' = "dispatch"

\* The premise p is dispatched: its products are buffered before any is published.
StartDispatch(p, S) ==
    /\ premise' = p
    /\ products' = Dispatch(S, p)
    /\ pc' = "dispatch"

\* _next_premise, first branch: a premise whose dispatch failed is tried again
\* without being counted.
RetryPremise ==
    /\ pc = "claimed"
    /\ budget # 0
    /\ retry[claimed] # <<>>
    /\ retry' = [retry EXCEPT ![claimed] = Tail(@)]
    /\ StartDispatch(Head(retry[claimed]), stored[claimed])
    /\ UNCHANGED <<contexts, todo, pending, stored, queued, saturated, active, claimed,
                   queryRoots, seeds, budget, histVars>>

\* Mutant of PopPremise: the budget is not tested before the premise is taken.
PopPremiseUnbounded ==
    /\ pc = "claimed"
    /\ retry[claimed] = <<>>
    /\ todo[claimed] # <<>>
    /\ LET p == Head(todo[claimed])
       IN  /\ todo' = [todo EXCEPT ![claimed] = Tail(@)]
           /\ pending' = [pending EXCEPT ![claimed] = @ \ {p}]
           /\ stored' = [stored EXCEPT ![claimed] = @ \cup {p}]
           /\ budget' = IF budget = Unlimited \/ p \in stored[claimed]
                        THEN budget ELSE budget - 1
           /\ StartDispatch(p, stored[claimed] \cup {p})
    /\ UNCHANGED <<contexts, queued, saturated, retry, active, claimed, queryRoots, seeds,
                   histVars>>

\* Mutant of PopPremise: the premise is dispatched before it is inserted.
PopPremiseTooEarly ==
    /\ pc = "claimed"
    /\ budget # 0
    /\ retry[claimed] = <<>>
    /\ todo[claimed] # <<>>
    /\ LET p == Head(todo[claimed])
       IN  /\ todo' = [todo EXCEPT ![claimed] = Tail(@)]
           /\ pending' = [pending EXCEPT ![claimed] = @ \ {p}]
           /\ stored' = [stored EXCEPT ![claimed] = @ \cup {p}]
           /\ budget' = IF budget = Unlimited \/ p \in stored[claimed]
                        THEN budget ELSE budget - 1
           /\ StartDispatch(p, stored[claimed])
    /\ UNCHANGED <<contexts, queued, saturated, retry, active, claimed, queryRoots, seeds,
                   histVars>>

\* _next_premise, second branch: pop_todo and insert.
PopPremise ==
    /\ pc = "claimed"
    /\ budget # 0
    /\ retry[claimed] = <<>>
    /\ todo[claimed] # <<>>
    /\ LET p == Head(todo[claimed])
       IN  /\ todo' = [todo EXCEPT ![claimed] = Tail(@)]
           /\ pending' = [pending EXCEPT ![claimed] = @ \ {p}]
           /\ stored' = [stored EXCEPT ![claimed] = @ \cup {p}]
           /\ budget' = IF budget = Unlimited \/ p \in stored[claimed]
                        THEN budget ELSE budget - 1
           /\ StartDispatch(p, stored[claimed] \cup {p})
    /\ UNCHANGED <<contexts, queued, saturated, retry, active, claimed, queryRoots, seeds,
                   histVars>>

\* One iteration of: for product in producer.products: self.enqueue(product).
EnqueueProduct(c) ==
    /\ pc = "dispatch"
    /\ c \in products
    /\ Enqueue(c)
    /\ products' = products \ {c}
    /\ UNCHANGED <<stored, retry, claimed, queryRoots, pc, seeds, budget, premise, histVars>>

EndDispatch ==
    /\ pc = "dispatch"
    /\ products = {}
    /\ pc' = "claimed"
    /\ premise' = NoConclusion
    /\ UNCHANGED <<ctxVars, claimed, queryRoots, seeds, budget, products, histVars>>

\* mark_saturated, then the finally clause, which finds no local work.
MarkSaturated ==
    /\ pc = "claimed"
    /\ ~HasLocalWork(claimed)
    /\ saturated' = [saturated EXCEPT ![claimed] = TRUE]
    /\ claimed' = NoRoot
    /\ pc' = "loop"
    /\ UNCHANGED <<contexts, todo, pending, stored, queued, retry, active, queryRoots, seeds,
                   budget, premise, products, histVars>>

\* Mutant of Abandon: the finally clause forgets to put the context back.
AbandonStranded(localWork) ==
    /\ claimed' = NoRoot
    /\ pc' = "idle"
    /\ budget' = Unlimited
    /\ faults' = faults + 1
    /\ UNCHANGED <<contexts, todo, pending, stored, queued, saturated, active, queryRoots,
                   seeds, demanded, returned>>

\* Mutant of Abandon: the context goes to the back of the queue.
AbandonToBack(localWork) ==
    LET requeue == localWork /\ ~queued[claimed]
    IN  /\ claimed' = NoRoot
        /\ queued' = [queued EXCEPT ![claimed] = @ \/ requeue]
        /\ saturated' = [saturated EXCEPT ![claimed] = @ /\ ~requeue]
        /\ active' = IF requeue THEN Append(active, claimed) ELSE active
        /\ pc' = "idle"
        /\ budget' = Unlimited
        /\ faults' = faults + 1
        /\ UNCHANGED <<contexts, todo, pending, stored, queryRoots, seeds, demanded, returned>>

\* Mutant of Abandon: an early exit discards the agenda of the claimed context.
AbandonAgenda(localWork) ==
    /\ claimed' = NoRoot
    /\ todo' = [todo EXCEPT ![claimed] = <<>>]
    /\ pending' = [pending EXCEPT ![claimed] = {}]
    /\ pc' = "idle"
    /\ budget' = Unlimited
    /\ faults' = faults + 1
    /\ UNCHANGED <<contexts, stored, queued, saturated, active, queryRoots, seeds, demanded,
                   returned>>

(***************************************************************************)
(* Early exits: the finally clause gives the claim up and puts a context   *)
(* with remaining work back at the front of the queue.                     *)
(***************************************************************************)
Abandon(localWork) ==
    LET requeue == localWork /\ ~queued[claimed]
    IN  /\ claimed' = NoRoot
        /\ queued' = [queued EXCEPT ![claimed] = @ \/ requeue]
        /\ saturated' = [saturated EXCEPT ![claimed] = @ /\ ~requeue]
        /\ active' = IF requeue THEN <<claimed>> \o active ELSE active
        /\ pc' = "idle"
        /\ budget' = Unlimited
        /\ faults' = faults + 1
        /\ UNCHANGED <<contexts, todo, pending, stored, queryRoots, seeds, demanded, returned>>

\* SaturationBudgetExceeded
ExceedBudget ==
    /\ pc = "claimed"
    /\ HasLocalWork(claimed)
    /\ budget = 0
    /\ Abandon(TRUE)
    /\ UNCHANGED <<retry, premise, products>>

\* SaturationInterrupted
Interrupt ==
    /\ pc = "claimed"
    /\ HasLocalWork(claimed)
    /\ budget # 0
    /\ faults < MaxFaults
    /\ Abandon(TRUE)
    /\ UNCHANGED <<retry, premise, products>>

\* Mutant of FailDispatch: the failed premise is not kept for a retry.
FailDispatchForgotten ==
    /\ pc = "dispatch"
    /\ faults < MaxFaults
    /\ premise' = NoConclusion
    /\ products' = {}
    /\ Abandon(TRUE)
    /\ UNCHANGED retry

\* Any exception inside _dispatch: before, between or after the enqueues.
FailDispatch ==
    /\ pc = "dispatch"
    /\ faults < MaxFaults
    /\ retry' = [retry EXCEPT ![claimed] = <<premise>> \o @]
    /\ premise' = NoConclusion
    /\ products' = {}
    /\ Abandon(TRUE)

Engine ==
    \/ \E r \in Root : SeedRoot(r)
    \/ EnterLoop
    \/ Claim
    \/ Return
    \/ RetryPremise
    \/ PopPremise
    \/ \E c \in Conclusion : EnqueueProduct(c)
    \/ EndDispatch
    \/ MarkSaturated
    \/ ExceedBudget

Next ==
    \/ \E r \in Root : Demand(r)
    \/ \E roots \in SUBSET Root, b \in Budget : Run(roots, b)
    \/ \E k \in Key, r \in Root : SaturateQueryRoot(k, r)
    \/ Engine
    \/ Interrupt
    \/ FailDispatch

Spec == Init /\ [][Next]_vars

\* A started run keeps going, and a caller whose run was stopped calls run() again.
Resume == \E roots \in SUBSET Root : Run(roots, Unlimited)

FairSpec == Spec /\ WF_vars(Engine) /\ WF_vars(Resume /\ active # <<>>)

(***************************************************************************)
(* Properties                                                              *)
(***************************************************************************)

\* Every conclusion the engine has accepted, processed or not.
Accepted == UNION {stored[r] \cup Range(todo[r]) : r \in Root}

\* Every conclusion the engine has inserted into a context.
Stored == UNION {stored[r] : r \in Root}

\* Every variable of SaturationEngine.run keeps its type.
TypeOK ==
    /\ contexts \in SUBSET Root
    /\ todo \in [Root -> Seq(Conclusion)]
    /\ pending \in [Root -> SUBSET Conclusion]
    /\ stored \in [Root -> SUBSET Conclusion]
    /\ queued \in [Root -> BOOLEAN]
    /\ saturated \in [Root -> BOOLEAN]
    /\ retry \in [Root -> Seq(Conclusion)]
    /\ active \in Seq(Root)
    /\ claimed \in Root \cup {NoRoot}
    /\ queryRoots \in [Key -> Root \cup {NoRoot}]
    /\ pc \in Locations
    /\ seeds \in SUBSET Root
    /\ budget \in Budget
    /\ premise \in Conclusion \cup {NoConclusion}
    /\ products \in SUBSET Conclusion
    /\ demanded \in SUBSET Root
    /\ returned \in BOOLEAN
    /\ faults \in Nat

\* A context is in _active exactly once iff its queued flag is set, and the claimed
\* context is never queued: mark_queued and claim keep flag and deque together.
QueueExact ==
    /\ IsInjective(active)
    /\ \A r \in Root : queued[r] <=> r \in Range(active)
    /\ Range(active) \subseteq contexts
    /\ claimed # NoRoot => claimed \in contexts /\ ~queued[claimed]

\* No lost wake-up: a context with local work is queued or is being processed, also
\* after the run that touched it was interrupted, ran out of budget or failed.
NoStrandedWork ==
    \A r \in Root : HasLocalWork(r) => queued[r] \/ claimed = r

\* Semi-naive duplicate suppression: an agenda holds each conclusion once, _pending
\* mirrors it, and nothing on an agenda was inserted before.
AgendaExact ==
    \A r \in Root : /\ IsInjective(todo[r])
                    /\ pending[r] = Range(todo[r])
                    /\ pending[r] \cap stored[r] = {}

\* A failed premise is inserted, at most one exists in the whole engine, and its
\* context is the next one claimed, so it is re-dispatched before anything else.
RetryFirst ==
    \A r \in Root : retry[r] # <<>> =>
        /\ Len(retry[r]) = 1
        /\ retry[r][1] \in stored[r]
        /\ \/ claimed = r /\ pc = "claimed"
           \/ claimed = NoRoot /\ active # <<>> /\ active[1] = r

\* The saturated flag consumers read in FrozenContext is exact: an allocated context
\* is saturated iff the scheduler will not come back to it, and then it has no work.
SaturatedExact ==
    \A r \in contexts :
        /\ saturated[r] <=> ~queued[r] /\ claimed # r
        /\ saturated[r] => ~HasLocalWork(r)

\* run() returns only on a fixed point of the rules, whatever was interrupted or
\* failed before, and every allocated context is then saturated.
ReturnedIsFixedPoint ==
    returned => /\ IsClosed(Stored)
                /\ Accepted = Stored
                /\ \A r \in contexts : saturated[r]
                /\ demanded \subseteq contexts

ClosedSets == {C \in SUBSET Conclusion : IsClosed(C)}

\* The engine accepts nothing but consequences of what was demanded, in any order of
\* claims, retries and products: it stays inside every closed set of conclusions.
NothingUnderivable ==
    \A C \in ClosedSets : (\A r \in demanded : InitOf(r) \in C) => Accepted \subseteq C

\* "Stopping preserves all completed monotone work": an accepted conclusion stays
\* accepted and an inserted one stays inserted, through every exit of run().
WorkIsMonotone ==
    [][Accepted \subseteq Accepted' /\ Stored \subseteq Stored']_vars

\* The engine implements the abstract closure: each step is a demand, one rule
\* application, a return on a fixed point, or invisible.
Abs == INSTANCE Closure WITH derived <- Accepted
ImplementsClosure == Abs!AbsSpec

\* A caller that keeps resuming stopped runs ends with every allocated context
\* saturated for good: saturation terminates and starves no context.
Converges == <>[](\A r \in contexts : saturated[r])

(***************************************************************************)
(* The inductive invariant: the properties above plus what ties the        *)
(* conclusions of a context to the dispatches still owed.                  *)
(***************************************************************************)

\* A root no one addressed has no state.
UnallocatedIsEmpty ==
    \A r \in Root \ contexts :
        todo[r] = <<>> /\ stored[r] = {} /\ retry[r] = <<>> /\ ~saturated[r]

\* A context holds its own conclusions only, its initialisation among them.
Owned ==
    /\ \A r \in Root : \A c \in stored[r] \cup Range(todo[r]) : Dest(c) = r
    /\ \A r \in contexts : InitOf(r) \in stored[r] \cup Range(todo[r])

\* The program counter and the run-local state agree.
ControlExact ==
    /\ pc \in {"claimed", "dispatch"} <=> claimed # NoRoot
    /\ pc # "dispatch" => products = {}
    /\ pc = "dispatch" => /\ premise \in stored[claimed]
                          /\ products \subseteq Dispatch(stored[claimed], premise)
    /\ returned => pc = "idle" /\ active = <<>>
    /\ demanded \subseteq contexts

\* Products of the context of r that a retry will publish.
Retried(r) == UNION {Dispatch(stored[r], p) : p \in Range(retry[r])}

\* Products of the context of r that the running dispatch has not published yet.
InFlight(r) == IF pc = "dispatch" /\ claimed = r THEN products ELSE {}

Owed(r) == Retried(r) \cup InFlight(r)

\* Every product of an inserted premise is accepted or still owed.
Discharged ==
    \A r \in Root : \A p \in stored[r] :
        Dispatch(stored[r], p) \subseteq Accepted \cup Owed(r)

\* The scheduling part of the invariant.
SchedInv ==
    /\ TypeOK
    /\ QueueExact
    /\ NoStrandedWork
    /\ AgendaExact
    /\ RetryFirst
    /\ SaturatedExact
    /\ UnallocatedIsEmpty
    /\ Owned
    /\ ControlExact

\* The engine between any two steps of run(): its queues are exact, and every product
\* of an inserted premise is accepted or owed by a retry or the running dispatch.
IInv == SchedInv /\ Discharged

=============================================================================
