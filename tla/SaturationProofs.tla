-------------------------- MODULE SaturationProofs --------------------------
(***************************************************************************)
(* Machine-checked proofs about the saturation scheduler, for every set of *)
(* roots and conclusions and every calculus satisfying the assumptions of  *)
(* module Calculus.                                                        *)
(***************************************************************************)
EXTENDS Saturation, Foundations

(***************************************************************************)
(* Routing: every way a conclusion enters an agenda                        *)
(***************************************************************************)

\* What EnsureContext and Enqueue establish about the conclusions they admit.
AdmitStep(r, cs) ==
    /\ Admit(r, cs)
    /\ cs \in Seq(Conclusion)
    /\ IsInjective(cs)
    /\ Range(cs) \cap (stored[r] \cup Range(todo[r])) = {}
    /\ \A c \in Range(cs) : Dest(c) = r
    /\ r \notin contexts => InitOf(r) \in Range(cs)
    /\ UNCHANGED <<stored, retry, claimed, pc>>

\* _ensure_context admits the initialisation of a context that does not exist yet.
LEMMA AllocationFacts ==
  ASSUME SchedInv, NEW r \in Root
  PROVE  /\ Allocation(r) \in Seq(Conclusion)
         /\ IsInjective(Allocation(r))
         /\ Range(Allocation(r)) \cap (stored[r] \cup Range(todo[r])) = {}
         /\ \A c \in Range(Allocation(r)) : c \in Conclusion /\ Dest(c) = r
         /\ r \notin contexts => InitOf(r) \in Range(Allocation(r))
<1>1. InitOf(r) \in Conclusion /\ Dest(InitOf(r)) = r
  BY RoutingAssumption
<1>2. CASE r \in contexts
  <2>1. Allocation(r) = <<>>
    BY <1>2 DEF Allocation
  <2> QED BY <2>1, <1>2, RangeEmpty
<1>3. CASE r \notin contexts
  <2>1. Allocation(r) = <<InitOf(r)>>
    BY <1>3 DEF Allocation
  <2>2. Range(<<InitOf(r)>>) = {InitOf(r)} /\ IsInjective(<<InitOf(r)>>)
    BY RangeSingle
  <2>3. stored[r] = {} /\ Range(todo[r]) = {}
    BY <1>3, RangeEmpty DEF SchedInv, UnallocatedIsEmpty
  <2> QED BY <1>1, <2>1, <2>2, <2>3
<1> QED BY <1>2, <1>3

\* _ensure_context is an admission.
LEMMA EnsureContextAdmits ==
  ASSUME SchedInv, NEW r \in Root, EnsureContext(r), UNCHANGED <<stored, retry, claimed, pc>>
  PROVE  AdmitStep(r, Allocation(r))
  BY AllocationFacts DEF AdmitStep, EnsureContext

\* enqueue admits at most an initialisation and one conclusion, both new.
LEMMA EnqueueAdmits ==
  ASSUME SchedInv, NEW c \in Conclusion, Enqueue(c), UNCHANGED <<stored, retry, claimed, pc>>
  PROVE  AdmitStep(Dest(c), Allocation(Dest(c)) \o Novel(c))
<1> DEFINE r == Dest(c)
           a == Allocation(r)
           n == Novel(c)
<1>1. r \in Root
  BY RoutingAssumption
<1>2. /\ a \in Seq(Conclusion) /\ IsInjective(a)
      /\ Range(a) \cap (stored[r] \cup Range(todo[r])) = {}
      /\ \A x \in Range(a) : Dest(x) = r
      /\ r \notin contexts => InitOf(r) \in Range(a)
  BY <1>1, AllocationFacts
<1>3. pending[r] = Range(todo[r])
  BY <1>1 DEF SchedInv, AgendaExact
<1>4. /\ n \in Seq(Conclusion) /\ IsInjective(n)
      /\ Range(n) \cap (stored[r] \cup Range(todo[r])) = {}
      /\ Range(n) \cap Range(a) = {}
      /\ \A x \in Range(n) : Dest(x) = r
  <2>1. CASE c \in stored[r] \cup pending[r] \cup Range(a)
    <3>1. n = <<>>
      BY <2>1 DEF Novel
    <3> QED BY <3>1, RangeEmpty
  <2>2. CASE c \notin stored[r] \cup pending[r] \cup Range(a)
    <3>1. n = <<c>>
      BY <2>2 DEF Novel
    <3>2. Range(<<c>>) = {c} /\ IsInjective(<<c>>)
      BY RangeSingle
    <3> HIDE DEF a, n
    <3> QED BY <3>1, <3>2, <2>2, <1>3
  <2> QED BY <2>1, <2>2
<1> HIDE DEF a, n
<1>5. /\ a \o n \in Seq(Conclusion) /\ IsInjective(a \o n)
      /\ Range(a \o n) = Range(a) \cup Range(n)
  BY <1>2, <1>4, RangeConcat
<1>6. Admit(r, a \o n)
  BY DEF Enqueue, a, n
<1>7. AdmitStep(r, a \o n)
  BY <1>2, <1>4, <1>5, <1>6 DEF AdmitStep
<1> QED BY <1>7 DEF a, n

\* Admitting conclusions to r changes the agenda of r only.
LEMMA AdmitEffect ==
  ASSUME SchedInv, NEW r \in Root, NEW cs, AdmitStep(r, cs)
  PROVE  /\ todo' \in [Root -> Seq(Conclusion)]
         /\ pending' \in [Root -> SUBSET Conclusion]
         /\ queued' \in [Root -> BOOLEAN]
         /\ saturated' \in [Root -> BOOLEAN]
         /\ active' \in Seq(Root)
         /\ contexts' = contexts \cup {r}
         /\ contexts' \in SUBSET Root
         /\ todo'[r] = todo[r] \o cs
         /\ Range(todo'[r]) = Range(todo[r]) \cup Range(cs)
         /\ IsInjective(todo'[r])
         /\ pending'[r] = pending[r] \cup Range(cs)
         /\ saturated'[r] = (saturated[r] /\ cs = <<>>)
         /\ \A q \in Root \ {r} : /\ todo'[q] = todo[q]
                                  /\ pending'[q] = pending[q]
                                  /\ saturated'[q] = saturated[q]
                                  /\ queued'[q] = queued[q]
<1>1. /\ todo \in [Root -> Seq(Conclusion)] /\ pending \in [Root -> SUBSET Conclusion]
      /\ queued \in [Root -> BOOLEAN] /\ saturated \in [Root -> BOOLEAN]
      /\ active \in Seq(Root) /\ contexts \in SUBSET Root
      /\ IsInjective(todo[r])
  BY DEF SchedInv, TypeOK, AgendaExact
<1>2. /\ cs \in Seq(Conclusion) /\ IsInjective(cs)
      /\ Range(todo[r]) \cap Range(cs) = {}
  BY DEF AdmitStep
<1>3. /\ todo[r] \o cs \in Seq(Conclusion)
      /\ Range(todo[r] \o cs) = Range(todo[r]) \cup Range(cs)
      /\ IsInjective(todo[r] \o cs)
  BY <1>1, <1>2, RangeConcat
<1>4. todo' = [todo EXCEPT ![r] = todo[r] \o cs]
  BY DEF AdmitStep, Admit
<1>5. Range(cs) \subseteq Conclusion
  BY <1>2 DEF Range
<1>6. pending' = [pending EXCEPT ![r] = pending[r] \cup Range(cs)]
  BY DEF AdmitStep, Admit
<1>7. /\ saturated' = [saturated EXCEPT ![r] = saturated[r] /\ cs = <<>>]
      /\ contexts' = contexts \cup {r}
  BY DEF AdmitStep, Admit
<1>8. /\ queued' = [queued EXCEPT ![r] = queued[r] \/ (cs # <<>> /\ r # claimed /\ ~queued[r])]
      /\ active' = IF cs # <<>> /\ r # claimed /\ ~queued[r] THEN Append(active, r) ELSE active
  BY DEF AdmitStep, Admit
<1>9. saturated' \in [Root -> BOOLEAN] /\ queued' \in [Root -> BOOLEAN]
  BY <1>1, <1>7, <1>8
<1>10. active' \in Seq(Root)
  BY <1>1, <1>8
<1>11. todo' \in [Root -> Seq(Conclusion)] /\ pending' \in [Root -> SUBSET Conclusion]
  BY <1>1, <1>3, <1>4, <1>5, <1>6
<1>12. /\ todo'[r] = todo[r] \o cs /\ pending'[r] = pending[r] \cup Range(cs)
       /\ saturated'[r] = (saturated[r] /\ cs = <<>>)
  BY <1>1, <1>4, <1>6, <1>7
<1>13. \A q \in Root \ {r} : /\ todo'[q] = todo[q] /\ pending'[q] = pending[q]
                             /\ saturated'[q] = saturated[q] /\ queued'[q] = queued[q]
  BY <1>1, <1>4, <1>6, <1>7, <1>8
<1> QED BY <1>1, <1>3, <1>7, <1>9, <1>10, <1>11, <1>12, <1>13

\* Admission keeps flag and queue together and puts a new context at the back.
LEMMA AdmitQueue ==
  ASSUME SchedInv, NEW r \in Root, NEW cs, AdmitStep(r, cs)
  PROVE  /\ QueueExact'
         /\ queued'[r] = (queued[r] \/ (cs # <<>> /\ r # claimed))
         /\ active # <<>> => active' # <<>> /\ active'[1] = active[1]
         /\ active' = <<>> => cs = <<>> \/ r = claimed
<1> DEFINE wake == cs # <<>> /\ r # claimed /\ ~queued[r]
<1>1. /\ queued \in [Root -> BOOLEAN] /\ active \in Seq(Root) /\ contexts \in SUBSET Root
      /\ IsInjective(active) /\ \A q \in Root : queued[q] <=> q \in Range(active)
      /\ Range(active) \subseteq contexts
      /\ claimed # NoRoot => claimed \in contexts /\ ~queued[claimed]
      /\ claimed \in Root \cup {NoRoot}
  BY DEF SchedInv, TypeOK, QueueExact
<1>2. /\ queued' = [queued EXCEPT ![r] = queued[r] \/ wake]
      /\ active' = IF wake THEN Append(active, r) ELSE active
      /\ contexts' = contexts \cup {r}
      /\ claimed' = claimed
  BY DEF AdmitStep, Admit
<1>3. CASE wake
  <2>1. active' = Append(active, r) /\ r \notin Range(active)
    BY <1>1, <1>2, <1>3
  <2>2. /\ Range(active') = Range(active) \cup {r} /\ IsInjective(active')
        /\ active' # <<>> /\ (active # <<>> => active'[1] = active[1])
    BY <1>1, <2>1, RangeAppend
  <2>3. \A q \in Root : queued'[q] <=> q \in Range(active')
    BY <1>1, <1>2, <1>3, <2>2
  <2>4. claimed' # NoRoot => claimed' \in contexts' /\ ~queued'[claimed']
    BY <1>1, <1>2, <1>3
  <2> QED BY <1>1, <1>2, <1>3, <2>2, <2>3, <2>4 DEF QueueExact
<1>4. CASE ~wake
  <2>1. queued' = queued /\ active' = active
    BY <1>1, <1>2, <1>4
  <2>2. queued[r] = (queued[r] \/ (cs # <<>> /\ r # claimed))
    BY <1>1, <1>4
  <2>3. active = <<>> => ~queued[r]
    BY <1>1, RangeEmpty
  <2> QED BY <1>1, <1>2, <1>4, <2>1, <2>2, <2>3 DEF QueueExact
<1> QED BY <1>3, <1>4

\* Every invariant of the contexts survives an admission.
LEMMA AdmitPreserves ==
  ASSUME SchedInv, NEW r \in Root, NEW cs, AdmitStep(r, cs)
  PROVE  /\ QueueExact' /\ NoStrandedWork' /\ AgendaExact' /\ RetryFirst'
         /\ SaturatedExact' /\ UnallocatedIsEmpty' /\ Owned'
         /\ Accepted' = Accepted \cup Range(cs)
<1>1. /\ todo \in [Root -> Seq(Conclusion)] /\ saturated \in [Root -> BOOLEAN]
      /\ queued \in [Root -> BOOLEAN] /\ claimed \in Root \cup {NoRoot}
      /\ contexts \in SUBSET Root
  BY DEF SchedInv, TypeOK
<1>2. UNCHANGED <<stored, retry, claimed, pc>> /\ cs \in Seq(Conclusion)
  BY DEF AdmitStep
<1>3. /\ todo' \in [Root -> Seq(Conclusion)]
      /\ contexts' = contexts \cup {r}
      /\ todo'[r] = todo[r] \o cs
      /\ Range(todo'[r]) = Range(todo[r]) \cup Range(cs)
      /\ IsInjective(todo'[r])
      /\ pending'[r] = pending[r] \cup Range(cs)
      /\ saturated'[r] = (saturated[r] /\ cs = <<>>)
      /\ \A q \in Root \ {r} : /\ todo'[q] = todo[q]
                               /\ pending'[q] = pending[q]
                               /\ saturated'[q] = saturated[q]
                               /\ queued'[q] = queued[q]
  BY AdmitEffect
<1>4. /\ QueueExact'
      /\ queued'[r] = (queued[r] \/ (cs # <<>> /\ r # claimed))
      /\ active # <<>> => active' # <<>> /\ active'[1] = active[1]
  BY AdmitQueue
<1>5. (todo[r] \o cs) # <<>> => todo[r] # <<>> \/ cs # <<>>
  BY <1>1, <1>2
<1>6. NoStrandedWork'
  <2> SUFFICES ASSUME NEW q \in Root, retry'[q] # <<>> \/ todo'[q] # <<>>
               PROVE  queued'[q] \/ claimed' = q
    BY DEF NoStrandedWork, HasLocalWork
  <2>1. (retry[q] # <<>> \/ todo[q] # <<>>) => queued[q] \/ claimed = q
    BY DEF SchedInv, NoStrandedWork, HasLocalWork
  <2>2. CASE q = r
    BY <2>1, <2>2, <1>1, <1>2, <1>3, <1>4, <1>5
  <2>3. CASE q # r
    BY <2>1, <2>3, <1>1, <1>2, <1>3
  <2> QED BY <2>2, <2>3
<1>7. AgendaExact'
  <2> SUFFICES ASSUME NEW q \in Root
               PROVE  /\ IsInjective(todo'[q]) /\ pending'[q] = Range(todo'[q])
                      /\ pending'[q] \cap stored'[q] = {}
    BY DEF AgendaExact
  <2>1. /\ IsInjective(todo[q]) /\ pending[q] = Range(todo[q])
        /\ pending[q] \cap stored[q] = {}
    BY DEF SchedInv, AgendaExact
  <2>2. CASE q = r
    <3>1. Range(cs) \cap stored[r] = {}
      BY DEF AdmitStep
    <3> QED BY <2>1, <2>2, <3>1, <1>2, <1>3
  <2>3. CASE q # r
    BY <2>1, <2>3, <1>2, <1>3
  <2> QED BY <2>2, <2>3
<1>8. RetryFirst'
  BY <1>2, <1>4 DEF SchedInv, RetryFirst
<1>9. SaturatedExact'
  <2> SUFFICES ASSUME NEW q \in contexts'
               PROVE  /\ saturated'[q] <=> ~queued'[q] /\ claimed' # q
                      /\ saturated'[q] => retry'[q] = <<>> /\ todo'[q] = <<>>
    BY DEF SaturatedExact, HasLocalWork
  <2>1. q \in contexts => /\ saturated[q] <=> ~queued[q] /\ claimed # q
                          /\ saturated[q] => retry[q] = <<>> /\ todo[q] = <<>>
    BY DEF SchedInv, SaturatedExact, HasLocalWork
  <2>2. CASE q # r
    BY <2>1, <2>2, <1>1, <1>2, <1>3
  <2>3. CASE q = r /\ r \in contexts
    <3>1. cs = <<>> /\ todo[r] = <<>> => todo[r] \o cs = <<>>
      BY <1>1, <1>2
    <3> QED BY <2>1, <2>3, <3>1, <1>1, <1>2, <1>3, <1>4
  <2>4. CASE q = r /\ r \notin contexts
    <3>1. ~saturated[r]
      BY <2>4 DEF SchedInv, UnallocatedIsEmpty
    <3>2. cs # <<>>
      BY <2>4, RangeEmpty DEF AdmitStep
    <3>3. claimed # r
      BY <2>4, NullAssumption DEF SchedInv, QueueExact
    <3> QED BY <2>4, <3>1, <3>2, <3>3, <1>1, <1>2, <1>3, <1>4
  <2> QED BY <2>2, <2>3, <2>4
<1>10. UnallocatedIsEmpty'
  BY <1>2, <1>3 DEF SchedInv, UnallocatedIsEmpty
<1>11. Owned'
  <2>1. ASSUME NEW q \in Root, NEW c \in stored'[q] \cup Range(todo'[q])
        PROVE  Dest(c) = q
    <3>1. \A x \in stored[q] \cup Range(todo[q]) : Dest(x) = q
      BY DEF SchedInv, Owned
    <3>2. \A x \in Range(cs) : Dest(x) = r
      BY DEF AdmitStep
    <3> QED BY <2>1, <3>1, <3>2, <1>2, <1>3
  <2>2. ASSUME NEW q \in contexts'
        PROVE  InitOf(q) \in stored'[q] \cup Range(todo'[q])
    <3>1. q \in contexts => InitOf(q) \in stored[q] \cup Range(todo[q])
      BY DEF SchedInv, Owned
    <3>2. r \notin contexts => InitOf(r) \in Range(cs)
      BY DEF AdmitStep
    <3> QED BY <2>2, <3>1, <3>2, <1>1, <1>2, <1>3
  <2> QED BY <2>1, <2>2 DEF Owned
<1>12. Accepted' = Accepted \cup Range(cs)
  <2>1. \A q \in Root : stored'[q] \cup Range(todo'[q])
           = IF q = r THEN stored[q] \cup Range(todo[q]) \cup Range(cs)
                      ELSE stored[q] \cup Range(todo[q])
    BY <1>2, <1>3
  <2> QED BY <2>1 DEF Accepted
<1> QED BY <1>4, <1>6, <1>7, <1>8, <1>9, <1>10, <1>11, <1>12

(***************************************************************************)
(* The scheduling invariant is preserved, one lemma per group of actions   *)
(***************************************************************************)

\* demand(root) and the seeding loop of run().
LEMMA SchedEnsure ==
  ASSUME SchedInv, NEW r \in Root, Demand(r) \/ SeedRoot(r)
  PROVE  SchedInv'
<1>1. UNCHANGED <<stored, retry, claimed, pc>> /\ EnsureContext(r)
  BY DEF Demand, SeedRoot, runVars
<1>2. AdmitStep(r, Allocation(r))
  BY <1>1, EnsureContextAdmits
<1>3. /\ QueueExact' /\ NoStrandedWork' /\ AgendaExact' /\ RetryFirst'
      /\ SaturatedExact' /\ UnallocatedIsEmpty' /\ Owned'
  BY <1>2, AdmitPreserves
<1>4. /\ todo' \in [Root -> Seq(Conclusion)] /\ pending' \in [Root -> SUBSET Conclusion]
      /\ queued' \in [Root -> BOOLEAN] /\ saturated' \in [Root -> BOOLEAN]
      /\ active' \in Seq(Root) /\ contexts' \in SUBSET Root
      /\ contexts' = contexts \cup {r}
  BY <1>2, AdmitEffect
<1>5. TypeOK'
  BY <1>1, <1>4 DEF SchedInv, TypeOK, Demand, SeedRoot, runVars
<1>6. ControlExact'
  BY <1>1, <1>4 DEF SchedInv, ControlExact, Demand, SeedRoot, runVars
<1> QED BY <1>3, <1>5, <1>6 DEF SchedInv

\* Publishing one product.
LEMMA SchedEnqueueProduct ==
  ASSUME SchedInv, NEW c \in Conclusion, EnqueueProduct(c)
  PROVE  SchedInv'
<1> DEFINE r == Dest(c)
           cs == Allocation(r) \o Novel(c)
<1>1. UNCHANGED <<stored, retry, claimed, pc>> /\ Enqueue(c)
  BY DEF EnqueueProduct
<1>2. r \in Root /\ AdmitStep(r, cs)
  BY <1>1, EnqueueAdmits, RoutingAssumption
<1> HIDE DEF cs, r
<1>3. /\ QueueExact' /\ NoStrandedWork' /\ AgendaExact' /\ RetryFirst'
      /\ SaturatedExact' /\ UnallocatedIsEmpty' /\ Owned'
  BY <1>2, AdmitPreserves
<1>4. /\ todo' \in [Root -> Seq(Conclusion)] /\ pending' \in [Root -> SUBSET Conclusion]
      /\ queued' \in [Root -> BOOLEAN] /\ saturated' \in [Root -> BOOLEAN]
      /\ active' \in Seq(Root) /\ contexts' \in SUBSET Root
      /\ contexts' = contexts \cup {r}
  BY <1>2, AdmitEffect
<1>5. TypeOK'
  BY <1>1, <1>4 DEF SchedInv, TypeOK, EnqueueProduct, histVars
<1>6. ControlExact'
  BY <1>1, <1>4 DEF SchedInv, ControlExact, EnqueueProduct, histVars
<1> QED BY <1>3, <1>5, <1>6 DEF SchedInv

\* Entering and leaving run() and its loops touches no context.
LEMMA SchedControl ==
  ASSUME SchedInv,
         \/ \E roots \in SUBSET Root, b \in Budget : Run(roots, b)
         \/ \E k \in Key, r \in Root : SaturateQueryRoot(k, r)
         \/ EnterLoop
         \/ Return
         \/ EndDispatch
  PROVE  SchedInv'
<1>1. UNCHANGED <<ctxVars, claimed>>
  BY DEF Run, SaturateQueryRoot, EnterLoop, Return, EndDispatch
<1>2. UNCHANGED <<contexts, todo, pending, stored, queued, saturated, retry, active, claimed>>
  BY <1>1 DEF ctxVars
<1>3. /\ QueueExact' /\ NoStrandedWork' /\ AgendaExact' /\ SaturatedExact'
      /\ UnallocatedIsEmpty' /\ Owned'
  BY <1>2 DEF SchedInv, QueueExact, NoStrandedWork, AgendaExact, SaturatedExact,
              UnallocatedIsEmpty, Owned, HasLocalWork
<1>4. TypeOK'
  <2>1. Unlimited \in Budget /\ {"idle", "seed", "loop", "claimed"} \subseteq Locations
    BY DEF Budget, Locations
  <2>2. CASE \E roots \in SUBSET Root, b \in Budget : Run(roots, b)
    BY <1>2, <2>1, <2>2 DEF SchedInv, TypeOK, Run
  <2>3. CASE \E k \in Key, r \in Root : SaturateQueryRoot(k, r)
    BY <1>2, <2>1, <2>3 DEF SchedInv, TypeOK, SaturateQueryRoot
  <2>4. CASE EnterLoop \/ Return \/ EndDispatch
    BY <1>2, <2>1, <2>4 DEF SchedInv, TypeOK, EnterLoop, Return, EndDispatch, histVars
  <2> QED BY <2>2, <2>3, <2>4
<1>5. RetryFirst'
  <2>1. CASE \/ \E roots \in SUBSET Root, b \in Budget : Run(roots, b)
             \/ \E k \in Key, r \in Root : SaturateQueryRoot(k, r)
             \/ EnterLoop
             \/ Return
    <3>1. pc \notin {"claimed", "dispatch"}
      BY <2>1 DEF Run, SaturateQueryRoot, EnterLoop, Return
    <3>2. claimed = NoRoot
      BY <3>1 DEF SchedInv, ControlExact
    <3> QED BY <1>2, <3>2, NullAssumption DEF SchedInv, RetryFirst
  <2>2. CASE EndDispatch
    <3>1. pc = "dispatch" /\ claimed # NoRoot
      BY <2>2 DEF EndDispatch, SchedInv, ControlExact
    <3> QED BY <1>2, <3>1 DEF SchedInv, RetryFirst
  <2> QED BY <2>1, <2>2
<1>6. ControlExact'
  <2>1. CASE \E roots \in SUBSET Root, b \in Budget : Run(roots, b)
    BY <1>2, <2>1 DEF SchedInv, ControlExact, Run
  <2>2. CASE \E k \in Key, r \in Root : SaturateQueryRoot(k, r)
    BY <1>2, <2>2 DEF SchedInv, ControlExact, SaturateQueryRoot
  <2>3. CASE EnterLoop \/ Return \/ EndDispatch
    BY <1>2, <2>3 DEF SchedInv, ControlExact, EnterLoop, Return, EndDispatch, histVars
  <2> QED BY <2>1, <2>2, <2>3
<1> QED BY <1>3, <1>4, <1>5, <1>6 DEF SchedInv

\* Claiming the context at the head of the queue.
LEMMA SchedClaim ==
  ASSUME SchedInv, Claim
  PROVE  SchedInv'
<1> DEFINE h == Head(active)
<1>1. /\ active \in Seq(Root) /\ active # <<>> /\ IsInjective(active)
      /\ \A q \in Root : queued[q] <=> q \in Range(active)
      /\ Range(active) \subseteq contexts
      /\ queued \in [Root -> BOOLEAN] /\ saturated \in [Root -> BOOLEAN]
      /\ pc = "loop"
  BY DEF SchedInv, TypeOK, QueueExact, Claim
<1>2. claimed = NoRoot
  BY <1>1 DEF SchedInv, ControlExact
<1>3. /\ Tail(active) \in Seq(Root) /\ Range(active) = {h} \cup Range(Tail(active))
      /\ IsInjective(Tail(active)) /\ h \notin Range(Tail(active))
  BY <1>1, RangeTail
<1>4. h \in Root /\ h \in contexts /\ h = active[1] /\ h # NoRoot
  BY <1>1, RangeNonEmpty, NullAssumption
<1>5. /\ active' = Tail(active) /\ claimed' = h /\ pc' = "claimed"
      /\ queued' = [queued EXCEPT ![h] = FALSE]
      /\ saturated' = [saturated EXCEPT ![h] = FALSE]
      /\ UNCHANGED <<contexts, todo, pending, stored, retry, queryRoots, seeds, budget,
                     premise, products, demanded, returned, faults>>
  BY DEF Claim, histVars
<1> HIDE DEF h
<1>6. TypeOK'
  BY <1>1, <1>3, <1>4, <1>5 DEF SchedInv, TypeOK, Locations
<1>7. QueueExact'
  BY <1>1, <1>3, <1>4, <1>5 DEF SchedInv, QueueExact
<1>8. NoStrandedWork'
  BY <1>1, <1>2, <1>4, <1>5, NullAssumption DEF SchedInv, NoStrandedWork, HasLocalWork
<1>9. AgendaExact' /\ UnallocatedIsEmpty' /\ Owned'
  BY <1>4, <1>5, <1>1 DEF SchedInv, AgendaExact, UnallocatedIsEmpty, Owned
<1>10. RetryFirst'
  BY <1>2, <1>4, <1>5, NullAssumption DEF SchedInv, RetryFirst
<1>11. SaturatedExact'
  <2> SUFFICES ASSUME NEW q \in contexts
               PROVE  /\ saturated'[q] <=> ~queued'[q] /\ claimed' # q
                      /\ saturated'[q] => ~HasLocalWork(q)'
    BY <1>5 DEF SaturatedExact
  <2>1. /\ q \in Root
        /\ saturated[q] <=> ~queued[q] /\ claimed # q
        /\ saturated[q] => ~HasLocalWork(q)
    BY DEF SchedInv, SaturatedExact, TypeOK
  <2>2. HasLocalWork(q)' = HasLocalWork(q)
    BY <1>5 DEF HasLocalWork
  <2>3. CASE q = h
    BY <2>3, <1>1, <1>4, <1>5, <2>1
  <2>4. CASE q # h
    BY <2>4, <1>1, <1>2, <1>4, <1>5, <2>1, <2>2, NullAssumption
  <2> QED BY <2>3, <2>4
<1>12. ControlExact'
  BY <1>1, <1>4, <1>5 DEF SchedInv, ControlExact
<1> QED BY <1>6, <1>7, <1>8, <1>9, <1>10, <1>11, <1>12 DEF SchedInv

\* While a context is claimed it is allocated and not queued.
LEMMA ClaimedFacts ==
  ASSUME SchedInv, pc \in {"claimed", "dispatch"}
  PROVE  /\ claimed \in Root /\ claimed \in contexts /\ ~queued[claimed]
         /\ ~saturated[claimed]
         /\ \A q \in Root \ {claimed} : retry[q] = <<>>
         /\ pc = "dispatch" => retry[claimed] = <<>>
<1>1. claimed # NoRoot
  BY DEF SchedInv, ControlExact
<1>2. claimed \in Root /\ claimed \in contexts /\ ~queued[claimed]
  BY <1>1 DEF SchedInv, TypeOK, QueueExact
<1> QED BY <1>1, <1>2 DEF SchedInv, SaturatedExact, RetryFirst

\* Taking a failed premise again.
LEMMA SchedRetryPremise ==
  ASSUME SchedInv, RetryPremise
  PROVE  SchedInv'
<1>1. /\ claimed \in Root /\ claimed \in contexts /\ ~queued[claimed]
      /\ ~saturated[claimed] /\ \A q \in Root \ {claimed} : retry[q] = <<>>
  BY ClaimedFacts DEF RetryPremise
<1>2. /\ retry \in [Root -> Seq(Conclusion)] /\ retry[claimed] # <<>>
      /\ stored \in [Root -> SUBSET Conclusion]
  BY DEF SchedInv, TypeOK, RetryPremise
<1>3. Len(retry[claimed]) = 1 /\ retry[claimed][1] \in stored[claimed]
  BY <1>1, <1>2 DEF SchedInv, RetryFirst
<1>4. Tail(retry[claimed]) = <<>> /\ Head(retry[claimed]) = retry[claimed][1]
  <2>1. retry[claimed] \in Seq(Conclusion)
    BY <1>1, <1>2
  <2>2. Len(Tail(retry[claimed])) = 0 /\ Tail(retry[claimed]) \in Seq(Conclusion)
    BY <2>1, <1>2, <1>3
  <2>3. Tail(retry[claimed]) = <<>>
    BY <2>2, EmptySeq
  <2>4. Head(retry[claimed]) = retry[claimed][1]
    BY <2>1, <1>2, RangeNonEmpty
  <2> QED BY <2>3, <2>4
<1>5. /\ retry' = [retry EXCEPT ![claimed] = <<>>]
      /\ premise' = retry[claimed][1] /\ products' = Dispatch(stored[claimed], premise')
      /\ pc' = "dispatch"
      /\ UNCHANGED <<contexts, todo, pending, stored, queued, saturated, active, claimed,
                     queryRoots, seeds, budget, demanded, returned, faults>>
  BY <1>4 DEF RetryPremise, StartDispatch, histVars
<1>6. retry' \in [Root -> Seq(Conclusion)] /\ \A q \in Root : retry'[q] = <<>>
  BY <1>1, <1>2, <1>5
<1>7. premise' \in Conclusion /\ products' \in SUBSET Conclusion
  BY <1>1, <1>2, <1>3, <1>5, DispatchAssumption
<1>8. TypeOK'
  BY <1>5, <1>6, <1>7 DEF SchedInv, TypeOK, Locations
<1>9. QueueExact' /\ AgendaExact' /\ Owned'
  BY <1>5 DEF SchedInv, QueueExact, AgendaExact, Owned
<1>10. NoStrandedWork' /\ RetryFirst' /\ UnallocatedIsEmpty'
  BY <1>5, <1>6 DEF SchedInv, NoStrandedWork, RetryFirst, UnallocatedIsEmpty, HasLocalWork
<1>11. SaturatedExact'
  <2>1. contexts \subseteq Root
    BY DEF SchedInv, TypeOK
  <2> QED BY <1>5, <1>6, <2>1 DEF SchedInv, SaturatedExact, HasLocalWork
<1>12. ControlExact'
  BY <1>3, <1>5 DEF SchedInv, ControlExact, RetryPremise
<1> QED BY <1>8, <1>9, <1>10, <1>11, <1>12 DEF SchedInv

\* Popping the head of the agenda and inserting it.
LEMMA SchedPopPremise ==
  ASSUME SchedInv, PopPremise
  PROVE  SchedInv'
<1> DEFINE p == Head(todo[claimed])
<1>1. /\ claimed \in Root /\ claimed \in contexts /\ ~queued[claimed]
      /\ ~saturated[claimed] /\ \A q \in Root : retry[q] = <<>>
  BY ClaimedFacts DEF PopPremise
<1>2. /\ todo \in [Root -> Seq(Conclusion)] /\ todo[claimed] # <<>>
      /\ stored \in [Root -> SUBSET Conclusion] /\ pending \in [Root -> SUBSET Conclusion]
      /\ IsInjective(todo[claimed]) /\ pending[claimed] = Range(todo[claimed])
      /\ pending[claimed] \cap stored[claimed] = {}
  BY <1>1 DEF SchedInv, TypeOK, AgendaExact, PopPremise
<1>3. /\ Tail(todo[claimed]) \in Seq(Conclusion)
      /\ Range(todo[claimed]) = {p} \cup Range(Tail(todo[claimed]))
      /\ IsInjective(Tail(todo[claimed])) /\ p \notin Range(Tail(todo[claimed]))
      /\ p \in Conclusion
  <2>1. todo[claimed] \in Seq(Conclusion)
    BY <1>1, <1>2
  <2> QED BY <1>2, <2>1, RangeTail, RangeNonEmpty
<1>4. /\ todo' = [todo EXCEPT ![claimed] = Tail(todo[claimed])]
      /\ pending' = [pending EXCEPT ![claimed] = pending[claimed] \ {p}]
      /\ stored' = [stored EXCEPT ![claimed] = stored[claimed] \cup {p}]
      /\ premise' = p /\ products' = Dispatch(stored[claimed] \cup {p}, p)
      /\ pc' = "dispatch"
      /\ UNCHANGED <<contexts, queued, saturated, retry, active, claimed, queryRoots, seeds,
                     demanded, returned, faults>>
  BY DEF PopPremise, StartDispatch, histVars
<1>5. budget' \in Budget
  <2>1. budget \in Budget /\ budget # 0
    BY DEF SchedInv, TypeOK, PopPremise
  <2>2. budget # Unlimited => budget - 1 \in Budget
    BY <2>1, BoundAssumption DEF Budget
  <2>3. budget' = budget \/ (budget # Unlimited /\ budget' = budget - 1)
    BY DEF PopPremise
  <2> QED BY <2>1, <2>2, <2>3
<1> HIDE DEF p
<1>6. /\ todo' \in [Root -> Seq(Conclusion)] /\ stored' \in [Root -> SUBSET Conclusion]
      /\ pending' \in [Root -> SUBSET Conclusion]
      /\ todo'[claimed] = Tail(todo[claimed])
      /\ pending'[claimed] = pending[claimed] \ {p}
      /\ stored'[claimed] = stored[claimed] \cup {p}
      /\ \A q \in Root \ {claimed} : /\ todo'[q] = todo[q] /\ pending'[q] = pending[q]
                                     /\ stored'[q] = stored[q]
  BY <1>1, <1>2, <1>3, <1>4
<1>7. products' \in SUBSET Conclusion
  BY <1>1, <1>2, <1>3, <1>4, DispatchAssumption
<1>8. TypeOK'
  BY <1>3, <1>4, <1>5, <1>6, <1>7 DEF SchedInv, TypeOK, Locations
<1>9. QueueExact'
  BY <1>4 DEF SchedInv, QueueExact
<1>10. NoStrandedWork'
  BY <1>1, <1>4, <1>6 DEF SchedInv, NoStrandedWork, HasLocalWork
<1>11. AgendaExact'
  <2> SUFFICES ASSUME NEW q \in Root
               PROVE  /\ IsInjective(todo'[q]) /\ pending'[q] = Range(todo'[q])
                      /\ pending'[q] \cap stored'[q] = {}
    BY DEF AgendaExact
  <2>1. CASE q = claimed
    BY <2>1, <1>2, <1>3, <1>6
  <2>2. CASE q # claimed
    BY <2>2, <1>6 DEF SchedInv, AgendaExact
  <2> QED BY <2>1, <2>2
<1>12. RetryFirst'
  BY <1>1, <1>4 DEF RetryFirst
<1>13. SaturatedExact'
  <2> SUFFICES ASSUME NEW q \in contexts
               PROVE  /\ saturated'[q] <=> ~queued'[q] /\ claimed' # q
                      /\ saturated'[q] => retry'[q] = <<>> /\ todo'[q] = <<>>
    BY <1>4 DEF SaturatedExact, HasLocalWork
  <2>1. /\ q \in Root
        /\ saturated[q] <=> ~queued[q] /\ claimed # q
        /\ saturated[q] => retry[q] = <<>> /\ todo[q] = <<>>
    BY DEF SchedInv, SaturatedExact, TypeOK, HasLocalWork
  <2>2. CASE q = claimed
    BY <2>1, <2>2, <1>1, <1>4
  <2>3. CASE q # claimed
    <3>1. /\ saturated'[q] = saturated[q] /\ queued'[q] = queued[q] /\ claimed' = claimed
          /\ retry'[q] = retry[q] /\ todo'[q] = todo[q]
      BY <2>1, <2>3, <1>4, <1>6
    <3> QED BY <3>1, <2>1, <2>3
  <2> QED BY <2>2, <2>3
<1>14. UnallocatedIsEmpty'
  BY <1>1, <1>4, <1>6 DEF SchedInv, UnallocatedIsEmpty
<1>15. \A q \in Root : stored'[q] \cup Range(todo'[q]) = stored[q] \cup Range(todo[q])
  BY <1>3, <1>6
<1>16. Owned'
  <2>1. contexts' = contexts /\ contexts \subseteq Root
    BY <1>4 DEF SchedInv, TypeOK
  <2> QED BY <1>15, <2>1 DEF SchedInv, Owned
<1>17. ControlExact'
  BY <1>4, <1>6, <1>1 DEF SchedInv, ControlExact, PopPremise
<1> QED BY <1>8, <1>9, <1>10, <1>11, <1>12, <1>13, <1>14, <1>16, <1>17 DEF SchedInv

\* Releasing a context that has no work left.
LEMMA SchedMarkSaturated ==
  ASSUME SchedInv, MarkSaturated
  PROVE  SchedInv'
<1>1. /\ claimed \in Root /\ claimed \in contexts /\ ~queued[claimed]
      /\ \A q \in Root \ {claimed} : retry[q] = <<>>
  BY ClaimedFacts DEF MarkSaturated
<1>2. retry[claimed] = <<>> /\ todo[claimed] = <<>> /\ pc = "claimed"
  BY DEF MarkSaturated, HasLocalWork
<1>3. /\ saturated' = [saturated EXCEPT ![claimed] = TRUE]
      /\ claimed' = NoRoot /\ pc' = "loop"
      /\ UNCHANGED <<contexts, todo, pending, stored, queued, retry, active, queryRoots,
                     seeds, budget, premise, products, demanded, returned, faults>>
  BY DEF MarkSaturated, histVars
<1>4. saturated \in [Root -> BOOLEAN] /\ contexts \subseteq Root
  BY DEF SchedInv, TypeOK
<1>5. TypeOK'
  BY <1>1, <1>3, <1>4 DEF SchedInv, TypeOK, Locations
<1>6. QueueExact' /\ AgendaExact' /\ Owned'
  BY <1>3 DEF SchedInv, QueueExact, AgendaExact, Owned
<1>7. NoStrandedWork'
  BY <1>1, <1>2, <1>3 DEF SchedInv, NoStrandedWork, HasLocalWork
<1>8. RetryFirst'
  BY <1>1, <1>2, <1>3 DEF RetryFirst
<1>9. SaturatedExact'
  <2> SUFFICES ASSUME NEW q \in contexts
               PROVE  /\ saturated'[q] <=> ~queued'[q] /\ claimed' # q
                      /\ saturated'[q] => retry'[q] = <<>> /\ todo'[q] = <<>>
    BY <1>3 DEF SaturatedExact, HasLocalWork
  <2>1. /\ q \in Root
        /\ saturated[q] <=> ~queued[q] /\ claimed # q
        /\ saturated[q] => retry[q] = <<>> /\ todo[q] = <<>>
    BY <1>4 DEF SchedInv, SaturatedExact, HasLocalWork
  <2> QED BY <2>1, <1>1, <1>2, <1>3, <1>4, NullAssumption
<1>10. UnallocatedIsEmpty'
  BY <1>1, <1>3, <1>4 DEF SchedInv, UnallocatedIsEmpty
<1>11. ControlExact'
  BY <1>2, <1>3 DEF SchedInv, ControlExact
<1> QED BY <1>5, <1>6, <1>7, <1>8, <1>9, <1>10, <1>11 DEF SchedInv

\* The finally clause of run() after an interrupt, an exhausted budget or a failed
\* dispatch, given what the exception left in _retry.
LEMMA SchedAbandon ==
  ASSUME SchedInv, ExceedBudget \/ Interrupt \/ FailDispatch
  PROVE  SchedInv'
<1>1. pc \in {"claimed", "dispatch"} /\ Abandon(TRUE)
  BY DEF ExceedBudget, Interrupt, FailDispatch
<1>2. /\ claimed \in Root /\ claimed \in contexts /\ ~queued[claimed]
      /\ \A q \in Root \ {claimed} : retry[q] = <<>>
      /\ ~saturated[claimed]
  BY <1>1, ClaimedFacts
<1>3. /\ queued \in [Root -> BOOLEAN] /\ saturated \in [Root -> BOOLEAN]
      /\ active \in Seq(Root) /\ retry \in [Root -> Seq(Conclusion)]
      /\ contexts \subseteq Root /\ faults \in Nat
      /\ IsInjective(active) /\ \A q \in Root : queued[q] <=> q \in Range(active)
      /\ Range(active) \subseteq contexts
  BY DEF SchedInv, TypeOK, QueueExact
<1>4. /\ claimed' = NoRoot /\ pc' = "idle" /\ budget' = Unlimited /\ faults' = faults + 1
      /\ queued' = [queued EXCEPT ![claimed] = TRUE]
      /\ saturated' = [saturated EXCEPT ![claimed] = FALSE]
      /\ active' = <<claimed>> \o active
      /\ UNCHANGED <<contexts, todo, pending, stored, queryRoots, seeds, demanded, returned>>
  BY <1>1, <1>2, <1>3 DEF Abandon
<1>5. /\ active' \in Seq(Root) /\ active' # <<>> /\ active'[1] = claimed
      /\ Range(active') = Range(active) \cup {claimed} /\ IsInjective(active')
  BY <1>2, <1>3, <1>4, RangeCons
<1>6. /\ retry' \in [Root -> Seq(Conclusion)]
      /\ \A q \in Root \ {claimed} : retry'[q] = <<>>
      /\ retry'[claimed] # <<>> =>
            Len(retry'[claimed]) = 1 /\ retry'[claimed][1] \in stored[claimed]
      /\ premise' \in Conclusion \cup {NoConclusion} /\ products' = {}
  <2>1. CASE ExceedBudget \/ Interrupt
    <3>1. retry' = retry /\ premise' = premise /\ products' = products /\ pc = "claimed"
      BY <2>1 DEF ExceedBudget, Interrupt
    <3>2. products = {} /\ premise \in Conclusion \cup {NoConclusion}
      BY <3>1 DEF SchedInv, ControlExact, TypeOK
    <3>3. retry[claimed] # <<>> =>
            Len(retry[claimed]) = 1 /\ retry[claimed][1] \in stored[claimed]
      BY <1>2 DEF SchedInv, RetryFirst
    <3> QED BY <3>1, <3>2, <3>3, <1>2, <1>3
  <2>2. CASE FailDispatch
    <3>1. pc = "dispatch" /\ premise' = NoConclusion /\ products' = {}
      BY <2>2 DEF FailDispatch
    <3>2. retry[claimed] = <<>> /\ premise \in stored[claimed] /\ premise \in Conclusion
      BY <3>1, <1>2, ClaimedFacts DEF SchedInv, ControlExact, TypeOK
    <3>3. <<premise>> \o <<>> = <<premise>>
      BY <3>2
    <3>4. retry' = [retry EXCEPT ![claimed] = <<premise>>]
      BY <2>2, <3>2, <3>3 DEF FailDispatch
    <3>5. /\ retry'[claimed] = <<premise>>
          /\ \A q \in Root \ {claimed} : retry'[q] = retry[q]
      BY <3>4, <1>2, <1>3
    <3>6. Len(<<premise>>) = 1 /\ <<premise>>[1] = premise /\ <<premise>> \in Seq(Conclusion)
      BY <3>2
    <3>7. retry' \in [Root -> Seq(Conclusion)]
      BY <3>4, <3>6, <1>2, <1>3
    <3> QED BY <3>1, <3>2, <3>5, <3>6, <3>7, <1>2
  <2> QED BY <2>1, <2>2
<1>7. TypeOK'
  <2>1. Unlimited \in Budget /\ "idle" \in Locations /\ faults + 1 \in Nat
    BY <1>3 DEF Budget, Locations
  <2> QED BY <1>2, <1>3, <1>4, <1>5, <1>6, <2>1 DEF SchedInv, TypeOK
<1>8. QueueExact'
  BY <1>2, <1>3, <1>4, <1>5 DEF QueueExact
<1>9. NoStrandedWork'
  BY <1>2, <1>3, <1>4, <1>6 DEF SchedInv, NoStrandedWork, HasLocalWork
<1>10. AgendaExact' /\ Owned'
  BY <1>4 DEF SchedInv, AgendaExact, Owned
<1>11. RetryFirst'
  BY <1>4, <1>5, <1>6 DEF RetryFirst
<1>12. SaturatedExact'
  <2> SUFFICES ASSUME NEW q \in contexts
               PROVE  /\ saturated'[q] <=> ~queued'[q] /\ claimed' # q
                      /\ saturated'[q] => retry'[q] = <<>> /\ todo'[q] = <<>>
    BY <1>4 DEF SaturatedExact, HasLocalWork
  <2>1. /\ q \in Root
        /\ saturated[q] <=> ~queued[q] /\ claimed # q
        /\ saturated[q] => retry[q] = <<>> /\ todo[q] = <<>>
    BY <1>3 DEF SchedInv, SaturatedExact, HasLocalWork
  <2> QED BY <2>1, <1>2, <1>3, <1>4, <1>6, NullAssumption
<1>13. UnallocatedIsEmpty'
  BY <1>2, <1>3, <1>4, <1>6 DEF SchedInv, UnallocatedIsEmpty
<1>14. ControlExact'
  <2>1. ~returned
    BY <1>1 DEF SchedInv, ControlExact
  <2> QED BY <1>4, <1>6, <2>1 DEF SchedInv, ControlExact
<1> QED BY <1>7, <1>8, <1>9, <1>10, <1>11, <1>12, <1>13, <1>14 DEF SchedInv

\* Every step of the engine and its callers preserves the scheduling invariant.
LEMMA SchedInvStep ==
  ASSUME SchedInv, [Next]_vars
  PROVE  SchedInv'
<1>1. CASE UNCHANGED vars
  BY <1>1 DEF vars, ctxVars, runVars, histVars, SchedInv, TypeOK, QueueExact, NoStrandedWork,
      AgendaExact, RetryFirst, SaturatedExact, UnallocatedIsEmpty, Owned, ControlExact,
      HasLocalWork
<1>2. CASE Next
  BY <1>2, SchedEnsure, SchedEnqueueProduct, SchedControl, SchedClaim, SchedRetryPremise,
     SchedPopPremise, SchedMarkSaturated, SchedAbandon DEF Next, Engine
<1> QED BY <1>1, <1>2

\* A new engine satisfies the scheduling invariant.
LEMMA SchedInvInit == Init => SchedInv
<1> SUFFICES ASSUME Init
             PROVE  SchedInv
  OBVIOUS
<1>1. /\ \A r \in Root : /\ todo[r] = <<>> /\ pending[r] = {} /\ stored[r] = {}
                         /\ queued[r] = FALSE /\ saturated[r] = FALSE /\ retry[r] = <<>>
      /\ active = <<>> /\ claimed = NoRoot /\ contexts = {} /\ pc = "idle"
      /\ products = {} /\ demanded = {} /\ returned = FALSE
  BY DEF Init
<1>2. TypeOK
  <2>1. <<>> \in Seq(Conclusion) /\ <<>> \in Seq(Root)
    OBVIOUS
  <2>2. /\ todo \in [Root -> Seq(Conclusion)] /\ retry \in [Root -> Seq(Conclusion)]
        /\ pending \in [Root -> SUBSET Conclusion] /\ stored \in [Root -> SUBSET Conclusion]
        /\ queued \in [Root -> BOOLEAN] /\ saturated \in [Root -> BOOLEAN]
        /\ queryRoots \in [Key -> Root \cup {NoRoot}]
    BY <2>1 DEF Init
  <2>3. budget \in Budget /\ pc \in Locations /\ faults \in Nat
    BY DEF Init, Budget, Locations
  <2> QED BY <2>1, <2>2, <2>3 DEF Init, TypeOK
<1>3. QueueExact /\ AgendaExact
  BY <1>1, RangeEmpty DEF QueueExact, AgendaExact
<1>4. NoStrandedWork /\ RetryFirst /\ SaturatedExact
  BY <1>1 DEF NoStrandedWork, RetryFirst, SaturatedExact, HasLocalWork
<1>5. UnallocatedIsEmpty /\ Owned /\ ControlExact
  BY <1>1, RangeEmpty DEF UnallocatedIsEmpty, Owned, ControlExact
<1> QED BY <1>2, <1>3, <1>4, <1>5 DEF SchedInv

\* The scheduling invariant of SaturationEngine holds in every reachable state.
THEOREM Scheduling == Spec => []SchedInv
<1>1. SchedInv /\ [Next]_vars => SchedInv'
  BY SchedInvStep
<1> QED BY <1>1, SchedInvInit, PTL DEF Spec

\* Every variable of the engine keeps its type.
THEOREM TypeCorrect == Spec => []TypeOK
<1>1. SchedInv => TypeOK
  BY DEF SchedInv
<1> QED BY <1>1, Scheduling, PTL

\* No lost wake-up: a context with local work is queued or claimed, whatever
\* interrupts, budgets and failed dispatches happened.
THEOREM NoLostWork == Spec => []NoStrandedWork
<1>1. SchedInv => NoStrandedWork
  BY DEF SchedInv
<1> QED BY <1>1, Scheduling, PTL

\* A premise whose dispatch failed is the first one tried again: its context is claimed
\* or at the head of the active queue.
THEOREM RetryOrder == Spec => []RetryFirst
<1>1. SchedInv => RetryFirst
  BY DEF SchedInv
<1> QED BY <1>1, Scheduling, PTL

(***************************************************************************)
(* Every product of an inserted premise is accepted or owed                *)
(***************************************************************************)

\* What is stored or on an agenda is accepted, and conversely.
LEMMA AcceptedMember ==
  ASSUME NEW c
  PROVE  c \in Accepted <=> \E r \in Root : c \in stored[r] \/ c \in Range(todo[r])
  BY DEF Accepted

\* What is accepted is a conclusion.
LEMMA AcceptedTyped ==
  ASSUME TypeOK
  PROVE  Accepted \subseteq Conclusion
<1>1. \A r \in Root : stored[r] \subseteq Conclusion /\ todo[r] \in Seq(Conclusion)
  BY DEF TypeOK
<1> QED BY <1>1, AcceptedMember DEF Range

\* Admitting conclusions loses none, and accepts exactly the admitted ones.
LEMMA AdmitAccepts ==
  ASSUME SchedInv, NEW r \in Root, NEW cs, AdmitStep(r, cs)
  PROVE  Accepted' = Accepted \cup Range(cs)
<1>1. /\ Range(todo'[r]) = Range(todo[r]) \cup Range(cs)
      /\ \A q \in Root \ {r} : todo'[q] = todo[q]
  BY AdmitEffect
<1>2. stored' = stored
  BY DEF AdmitStep
<1>3. \A q \in Root : stored'[q] \cup Range(todo'[q])
                      = stored[q] \cup Range(todo[q]) \cup (IF q = r THEN Range(cs) ELSE {})
  BY <1>1, <1>2
<1> QED BY <1>3 DEF Accepted

\* After enqueue(c) the conclusion c is accepted.
LEMMA EnqueueAccepts ==
  ASSUME SchedInv, NEW c \in Conclusion, Enqueue(c), UNCHANGED <<stored, retry, claimed, pc>>
  PROVE  /\ c \in Accepted'
         /\ Accepted \subseteq Accepted'
         /\ Accepted' = Accepted \cup {c, InitOf(Dest(c))}
<1> DEFINE r == Dest(c)
           a == Allocation(r)
           n == Novel(c)
<1>1. r \in Root
  BY RoutingAssumption
<1>2. AdmitStep(r, a \o n)
  BY EnqueueAdmits
<1>3. Accepted' = Accepted \cup Range(a \o n)
  BY <1>1, <1>2, AdmitAccepts
<1>4. a \in Seq(Conclusion)
  BY <1>1, AllocationFacts
<1>5. pending[r] = Range(todo[r])
  BY <1>1 DEF SchedInv, AgendaExact
<1>6. n \in Seq(Conclusion) /\ Range(n) \subseteq {c}
      /\ (c \in Range(n) \/ c \in stored[r] \cup Range(todo[r]) \cup Range(a))
  <2>1. CASE c \in stored[r] \cup pending[r] \cup Range(a)
    <3>1. n = <<>>
      BY <2>1 DEF Novel
    <3> QED BY <3>1, <2>1, <1>5, RangeEmpty
  <2>2. CASE c \notin stored[r] \cup pending[r] \cup Range(a)
    <3>1. n = <<c>>
      BY <2>2 DEF Novel
    <3>2. Range(<<c>>) = {c}
      BY RangeSingle
    <3> QED BY <3>1, <3>2
  <2> QED BY <2>1, <2>2
<1>7. /\ Range(a) \subseteq {InitOf(r)}
      /\ InitOf(r) \in Range(a) \/ InitOf(r) \in stored[r] \cup Range(todo[r])
  <2>1. CASE r \in contexts
    <3>1. a = <<>>
      BY <2>1 DEF Allocation
    <3> QED BY <3>1, <2>1, RangeEmpty DEF SchedInv, Owned
  <2>2. CASE r \notin contexts
    <3>1. a = <<InitOf(r)>>
      BY <2>2 DEF Allocation
    <3>2. Range(<<InitOf(r)>>) = {InitOf(r)}
      BY RangeSingle
    <3> QED BY <3>1, <3>2
  <2> QED BY <2>1, <2>2
<1> HIDE DEF a, n
<1>8. Range(a \o n) = Range(a) \cup Range(n)
  BY <1>4, <1>6, RangeConcat
<1>9. stored[r] \cup Range(todo[r]) \subseteq Accepted
  BY <1>1, AcceptedMember
<1> QED BY <1>3, <1>6, <1>7, <1>8, <1>9

\* A step that inserts no premise and drops no retry keeps the invariant when what
\* was in flight stays in flight or becomes accepted.
LEMMA DischargedKeep ==
  ASSUME Discharged, UNCHANGED <<stored, retry>>, Accepted \subseteq Accepted',
         \A r \in Root : InFlight(r) \subseteq Accepted' \cup InFlight(r)'
  PROVE  Discharged'
<1>1. \A r \in Root : Retried(r)' = Retried(r)
  BY DEF Retried
<1>2. \A r \in Root : Owed(r) \subseteq Accepted' \cup Owed(r)'
  BY <1>1 DEF Owed
<1> QED BY <1>2 DEF Discharged

\* Steps that touch no agenda and leave nothing in flight.
LEMMA DischargedControl ==
  ASSUME SchedInv, Discharged, UNCHANGED <<stored, retry, todo>>,
         pc # "dispatch" \/ products = {}
  PROVE  Discharged'
<1>1. Accepted' = Accepted
  BY DEF Accepted
<1>2. \A r \in Root : InFlight(r) = {}
  BY DEF InFlight
<1> QED BY <1>1, <1>2, DischargedKeep

\* The steps that address a context keep the invariant.
LEMMA DischargedEnsure ==
  ASSUME SchedInv, Discharged, NEW r \in Root, Demand(r) \/ SeedRoot(r)
  PROVE  Discharged'
<1>1. EnsureContext(r) /\ UNCHANGED <<stored, retry, claimed, pc>> /\ pc # "dispatch"
  BY DEF Demand, SeedRoot, runVars
<1>2. AdmitStep(r, Allocation(r))
  BY <1>1, EnsureContextAdmits
<1>3. Accepted \subseteq Accepted'
  BY <1>2, AdmitAccepts
<1>4. \A q \in Root : InFlight(q) = {}
  BY <1>1 DEF InFlight
<1> QED BY <1>1, <1>3, <1>4, DischargedKeep

\* Publishing one product moves it from in flight to accepted.
LEMMA DischargedEnqueue ==
  ASSUME SchedInv, Discharged, NEW c \in Conclusion, EnqueueProduct(c)
  PROVE  Discharged'
<1>1. /\ Enqueue(c) /\ UNCHANGED <<stored, retry, claimed, pc>>
      /\ products' = products \ {c}
  BY DEF EnqueueProduct
<1>2. c \in Accepted' /\ Accepted \subseteq Accepted'
  BY <1>1, EnqueueAccepts
<1>3. \A q \in Root : InFlight(q) \subseteq Accepted' \cup InFlight(q)'
  BY <1>1, <1>2 DEF InFlight
<1> QED BY <1>1, <1>2, <1>3, DischargedKeep

\* A retried premise puts all its products in flight again.
LEMMA DischargedRetry ==
  ASSUME SchedInv, Discharged, RetryPremise
  PROVE  Discharged'
<1>1. claimed \in Root /\ \A q \in Root \ {claimed} : retry[q] = <<>>
  BY ClaimedFacts DEF RetryPremise
<1>2. /\ retry[claimed] \in Seq(Conclusion) /\ retry[claimed] # <<>>
      /\ Len(retry[claimed]) = 1
  BY <1>1 DEF SchedInv, TypeOK, RetryFirst, RetryPremise
<1>3. Range(retry[claimed]) = {Head(retry[claimed])}
  <2>1. \A i \in DOMAIN retry[claimed] : retry[claimed][i] = Head(retry[claimed])
    BY <1>2
  <2> QED BY <1>2, <2>1, RangeNonEmpty DEF Range
<1>4. /\ products' = Dispatch(stored[claimed], Head(retry[claimed])) /\ pc' = "dispatch"
      /\ UNCHANGED <<stored, todo, claimed>> /\ pc # "dispatch"
  BY DEF RetryPremise, StartDispatch
<1>5. Accepted' = Accepted
  BY <1>4 DEF Accepted
<1>6. \A q \in Root : Owed(q) \subseteq Owed(q)'
  <2> TAKE q \in Root
  <2>1. InFlight(q) = {}
    BY <1>4 DEF InFlight
  <2>2. CASE q = claimed
    <3>1. Retried(q) = products'
      BY <2>2, <1>3, <1>4 DEF Retried
    <3>2. InFlight(q)' = products'
      BY <2>2, <1>4 DEF InFlight
    <3> QED BY <2>1, <3>1, <3>2 DEF Owed
  <2>3. CASE q # claimed
    <3>1. Retried(q) = {}
      BY <2>3, <1>1, RangeEmpty DEF Retried
    <3> QED BY <2>1, <3>1 DEF Owed
  <2> QED BY <2>2, <2>3
<1> QED BY <1>4, <1>5, <1>6 DEF Discharged

\* Inserting p: what older premises newly derive, the dispatch of p derives as well.
\* This is the one step that needs the rules to be complete for the last premise.
LEMMA DischargedPop ==
  ASSUME SchedInv, Discharged, PopPremise
  PROVE  Discharged'
<1> DEFINE p == Head(todo[claimed])
           S == stored[claimed]
<1>1. claimed \in Root /\ \A q \in Root : retry[q] = <<>>
  BY ClaimedFacts DEF PopPremise
<1>2. todo[claimed] \in Seq(Conclusion) /\ todo[claimed] # <<>> /\ S \in SUBSET Conclusion
      /\ stored \in [Root -> SUBSET Conclusion] /\ todo \in [Root -> Seq(Conclusion)]
  BY <1>1 DEF SchedInv, TypeOK, PopPremise
<1>3. p \in Conclusion /\ Range(todo[claimed]) = {p} \cup Range(Tail(todo[claimed]))
  BY <1>2, RangeTail, RangeNonEmpty
<1>4. /\ todo' = [todo EXCEPT ![claimed] = Tail(todo[claimed])]
      /\ stored' = [stored EXCEPT ![claimed] = S \cup {p}]
      /\ products' = Dispatch(S \cup {p}, p) /\ pc' = "dispatch" /\ pc # "dispatch"
      /\ claimed' = claimed /\ retry' = retry
  BY DEF PopPremise, StartDispatch
<1> HIDE DEF p
<1>5. /\ todo'[claimed] = Tail(todo[claimed]) /\ stored'[claimed] = S \cup {p}
      /\ \A q \in Root \ {claimed} : todo'[q] = todo[q] /\ stored'[q] = stored[q]
  BY <1>1, <1>2, <1>4
<1> HIDE DEF S
<1>6. Accepted' = Accepted
  <2>1. \A q \in Root : stored'[q] \cup Range(todo'[q]) = stored[q] \cup Range(todo[q])
    BY <1>3, <1>5 DEF S
  <2> QED BY <2>1 DEF Accepted
<1>7. \A q \in Root : Owed(q) = {}
  BY <1>1, <1>4, RangeEmpty DEF Owed, Retried, InFlight
<1>8. products' \subseteq Owed(claimed)'
  BY <1>4 DEF Owed, InFlight
<1> SUFFICES ASSUME NEW r \in Root, NEW q \in stored'[r]
             PROVE  Dispatch(stored'[r], q) \subseteq Accepted' \cup Owed(r)'
  BY DEF Discharged
<1>9. CASE r # claimed
  BY <1>9, <1>5, <1>6, <1>7 DEF Discharged
<1>10. CASE r = claimed /\ q = p
  BY <1>10, <1>4, <1>5, <1>8
<1>11. CASE r = claimed /\ q # p
  <2>1. q \in S
    BY <1>11, <1>5
  <2>2. Dispatch(S, q) \subseteq Accepted
    BY <1>1, <1>7, <2>1 DEF Discharged, S
  <2>3. Dest(q) = claimed /\ Dest(p) = claimed
    BY <1>1, <1>3, <2>1 DEF SchedInv, Owned, S
  <2>4. Dispatch(S \cup {p}, q) \subseteq Dispatch(S, q) \cup Dispatch(S \cup {p}, p)
    BY <1>2, <1>3, <2>1, <2>3, LastPremiseAssumption
  <2> QED BY <1>4, <1>5, <1>6, <1>8, <1>11, <2>2, <2>4
<1> QED BY <1>9, <1>10, <1>11

\* A failed dispatch leaves its premise to be retried, whatever it had published.
LEMMA DischargedFail ==
  ASSUME SchedInv, Discharged, FailDispatch
  PROVE  Discharged'
<1>1. pc = "dispatch" /\ claimed \in Root /\ \A q \in Root : retry[q] = <<>>
  BY ClaimedFacts DEF FailDispatch
<1>2. /\ products \subseteq Dispatch(stored[claimed], premise)
      /\ premise \in stored[claimed] /\ stored \in [Root -> SUBSET Conclusion]
      /\ retry \in [Root -> Seq(Conclusion)]
  BY <1>1 DEF SchedInv, ControlExact, TypeOK
<1>3. stored' = stored /\ todo' = todo /\ pc' = "idle"
  BY DEF FailDispatch, Abandon
<1>4. retry' = [retry EXCEPT ![claimed] = <<premise>> \o retry[claimed]]
  BY DEF FailDispatch
<1>5. premise \in Range(retry'[claimed])
  <2>1. premise \in Conclusion /\ retry[claimed] \in Seq(Conclusion)
    BY <1>1, <1>2
  <2>2. premise \in Range(<<premise>> \o retry[claimed])
    BY <2>1, RangeCons
  <2> QED BY <2>2, <1>1, <1>2, <1>4
<1>6. Accepted' = Accepted
  BY <1>3 DEF Accepted
<1>7. \A q \in Root : Owed(q) \subseteq Owed(q)'
  <2> TAKE q \in Root
  <2>1. Retried(q) = {}
    BY <1>1, RangeEmpty DEF Retried
  <2>2. CASE q = claimed
    <3>1. products \subseteq Retried(q)'
      BY <2>2, <1>2, <1>3, <1>5 DEF Retried
    <3>2. InFlight(q) = products
      BY <2>2, <1>1 DEF InFlight
    <3> QED BY <2>1, <3>1, <3>2 DEF Owed
  <2>3. CASE q # claimed
    <3>1. InFlight(q) = {}
      BY <2>3 DEF InFlight
    <3> QED BY <2>1, <3>1 DEF Owed
  <2> QED BY <2>2, <2>3
<1> QED BY <1>3, <1>6, <1>7 DEF Discharged

\* Every step preserves the inductive invariant.
LEMMA IInvStep ==
  ASSUME IInv, [Next]_vars
  PROVE  IInv'
<1>1. SchedInv /\ Discharged
  BY DEF IInv
<1>2. SchedInv'
  BY <1>1, SchedInvStep
<1>3. Discharged'
  <2>1. CASE UNCHANGED vars
    <3>1. /\ UNCHANGED <<stored, todo, retry, pc, claimed, products>>
      BY <2>1 DEF vars, ctxVars, runVars
    <3>2. Accepted' = Accepted /\ \A r \in Root : Owed(r)' = Owed(r)
      BY <3>1 DEF Accepted, Owed, Retried, InFlight
    <3> QED BY <1>1, <3>1, <3>2 DEF Discharged
  <2>2. CASE \E r \in Root : Demand(r) \/ SeedRoot(r)
    BY <1>1, <2>2, DischargedEnsure
  <2>3. CASE \/ \E roots \in SUBSET Root, b \in Budget : Run(roots, b)
             \/ \E k \in Key, r \in Root : SaturateQueryRoot(k, r)
             \/ EnterLoop \/ Claim \/ Return \/ EndDispatch \/ MarkSaturated
             \/ ExceedBudget \/ Interrupt
    <3>1. UNCHANGED <<stored, retry, todo>> /\ (pc # "dispatch" \/ products = {})
      BY <2>3 DEF Run, SaturateQueryRoot, EnterLoop, Claim, Return, EndDispatch,
         MarkSaturated, ExceedBudget, Interrupt, Abandon, ctxVars
    <3> QED BY <1>1, <3>1, DischargedControl
  <2>4. CASE \E c \in Conclusion : EnqueueProduct(c)
    BY <1>1, <2>4, DischargedEnqueue
  <2>5. CASE RetryPremise
    BY <1>1, <2>5, DischargedRetry
  <2>6. CASE PopPremise
    BY <1>1, <2>6, DischargedPop
  <2>7. CASE FailDispatch
    BY <1>1, <2>7, DischargedFail
  <2> QED BY <2>1, <2>2, <2>3, <2>4, <2>5, <2>6, <2>7 DEF Next, Engine
<1> QED BY <1>2, <1>3 DEF IInv

\* The inductive invariant of SaturationEngine: its queues are exact, and every
\* product of an inserted premise is accepted or still owed.
THEOREM Inductive == Spec => []IInv
<1>1. Init => IInv
  <2> SUFFICES ASSUME Init
               PROVE  Discharged
    BY SchedInvInit DEF IInv
  <2>1. \A r \in Root : stored[r] = {}
    BY DEF Init
  <2> QED BY <2>1 DEF Discharged
<1>2. IInv /\ [Next]_vars => IInv'
  BY IInvStep
<1> QED BY <1>1, <1>2, PTL DEF Spec

(***************************************************************************)
(* What a normal return means                                              *)
(***************************************************************************)

\* An engine with an empty queue and no claimed context has reached a fixed point.
LEMMA QuietIsClosed ==
  ASSUME IInv, claimed = NoRoot, active = <<>>
  PROVE  /\ IsClosed(Stored)
         /\ Accepted = Stored
         /\ \A r \in contexts : saturated[r]
<1>1. /\ SchedInv /\ Discharged /\ contexts \subseteq Root
      /\ \A r \in Root : ~queued[r] /\ claimed # r
  BY NullAssumption, RangeEmpty DEF IInv, SchedInv, QueueExact, TypeOK
<1>2. \A r \in Root : todo[r] = <<>> /\ retry[r] = <<>>
  BY <1>1 DEF SchedInv, NoStrandedWork, HasLocalWork
<1>3. Accepted = Stored
  BY <1>2, RangeEmpty DEF Accepted, Stored
<1>4. \A r \in contexts : saturated[r]
  BY <1>1 DEF SchedInv, SaturatedExact
<1>5. ASSUME NEW p \in Stored
      PROVE  InitOf(Dest(p)) \in Stored /\ Dispatch(At(Stored, Dest(p)), p) \subseteq Stored
  <2>1. PICK r \in Root : p \in stored[r]
    BY <1>5 DEF Stored
  <2>2. Dest(p) = r
    BY <1>1, <2>1 DEF SchedInv, Owned
  <2>3. At(Stored, r) = stored[r]
    BY <1>1 DEF At, Stored, SchedInv, Owned
  <2>4. r \in contexts
    BY <1>1, <2>1 DEF SchedInv, UnallocatedIsEmpty
  <2>5. InitOf(r) \in stored[r]
    BY <1>1, <1>2, <2>4, RangeEmpty DEF SchedInv, Owned
  <2>6. Owed(r) = {}
    BY <1>1, <1>2, RangeEmpty DEF Owed, Retried, InFlight
  <2>7. Dispatch(stored[r], p) \subseteq Accepted
    BY <1>1, <2>1, <2>6 DEF Discharged
  <2> QED BY <1>3, <2>2, <2>3, <2>5, <2>7 DEF Stored
<1> QED BY <1>3, <1>4, <1>5 DEF IsClosed

\* run() returns only on a fixed point of the rules with every context saturated,
\* whatever was interrupted, cut off by a budget or failed before.
THEOREM FixedPoint == Spec => []ReturnedIsFixedPoint
<1>1. IInv => ReturnedIsFixedPoint
  <2> SUFFICES ASSUME IInv, returned
               PROVE  /\ IsClosed(Stored) /\ Accepted = Stored
                      /\ \A r \in contexts : saturated[r]
                      /\ demanded \subseteq contexts
    BY DEF ReturnedIsFixedPoint
  <2>1. claimed = NoRoot /\ active = <<>> /\ demanded \subseteq contexts
    BY DEF IInv, SchedInv, ControlExact
  <2> QED BY <2>1, QuietIsClosed
<1> QED BY <1>1, Inductive, PTL

(***************************************************************************)
(* Refinement: the scheduler implements the abstract closure               *)
(***************************************************************************)

\* Addressing a context for a caller is an abstract demand.
LEMMA EnsureRefines ==
  ASSUME IInv, NEW r \in Root, Demand(r) \/ SeedRoot(r)
  PROVE  Abs!AbsDemand
<1>1. /\ EnsureContext(r) /\ UNCHANGED <<stored, retry, claimed, pc>>
      /\ demanded' = demanded \cup {r} /\ SchedInv
  BY DEF Demand, SeedRoot, runVars, IInv
<1>2. returned' = FALSE
  <2>1. CASE Demand(r)
    BY <2>1 DEF Demand
  <2>2. CASE SeedRoot(r)
    <3>1. returned \in BOOLEAN /\ ~returned
      BY <2>2, <1>1 DEF SeedRoot, SchedInv, ControlExact, TypeOK
    <3> QED BY <2>2, <3>1 DEF SeedRoot
  <2> QED BY <2>1, <2>2
<1>3. Accepted' = Accepted \cup Range(Allocation(r))
  BY <1>1, EnsureContextAdmits, AdmitAccepts
<1>4. Accepted' = Accepted \cup {InitOf(r)}
  <2>1. CASE r \in contexts
    <3>1. Range(Allocation(r)) = {}
      BY <2>1, RangeEmpty DEF Allocation
    <3>2. InitOf(r) \in Accepted
      BY <2>1, <1>1, AcceptedMember DEF SchedInv, Owned
    <3> QED BY <1>3, <3>1, <3>2
  <2>2. CASE r \notin contexts
    <3>1. Range(<<InitOf(r)>>) = {InitOf(r)}
      BY RangeSingle
    <3>2. Allocation(r) = <<InitOf(r)>>
      BY <2>2 DEF Allocation
    <3> QED BY <1>3, <3>1, <3>2
  <2> QED BY <2>1, <2>2
<1> QED BY <1>1, <1>2, <1>4 DEF Abs!AbsDemand

\* Publishing a product is one abstract rule application.
LEMMA EnqueueRefines ==
  ASSUME IInv, NEW c \in Conclusion, EnqueueProduct(c)
  PROVE  Abs!AbsDerive
<1>1. /\ Enqueue(c) /\ UNCHANGED <<stored, retry, claimed, pc, demanded, returned>>
      /\ pc = "dispatch" /\ c \in products /\ SchedInv
  BY DEF EnqueueProduct, histVars, IInv
<1>2. Accepted' = Accepted \cup {c, InitOf(Dest(c))}
  BY <1>1, EnqueueAccepts
<1>3. /\ ~returned /\ claimed \in Root /\ premise \in stored[claimed]
      /\ c \in Dispatch(stored[claimed], premise)
  BY <1>1, ClaimedFacts DEF SchedInv, ControlExact
<1>4. premise \in Accepted /\ Dest(premise) = claimed
  BY <1>1, <1>3, AcceptedMember DEF SchedInv, Owned
<1>5. stored[claimed] \in SUBSET At(Accepted, claimed)
  BY <1>1, <1>3, AcceptedMember DEF At, SchedInv, Owned
<1>6. Accepted \subseteq Conclusion
  BY <1>1, AcceptedTyped DEF SchedInv
<1>7. Dispatch(stored[claimed], premise) \subseteq Dispatch(At(Accepted, claimed), premise)
  <2>1. At(Accepted, claimed) \in SUBSET Conclusion /\ premise \in Conclusion
    BY <1>4, <1>6 DEF At
  <2> QED BY <2>1, <1>5, DispatchAssumption
<1>8. c \in Dispatch(At(Accepted, Dest(premise)), premise)
  BY <1>3, <1>4, <1>7
<1> QED BY <1>1, <1>2, <1>3, <1>4, <1>8 DEF Abs!AbsDerive, Abs!At, At

\* Every other step is invisible, a new call, or a return on a fixed point.
LEMMA StepRefines ==
  ASSUME IInv, [Next]_vars
  PROVE  [Abs!AbsNext]_(Abs!absVars)
<1>1. CASE \E r \in Root : Demand(r) \/ SeedRoot(r)
  BY <1>1, EnsureRefines DEF Abs!AbsNext
<1>2. CASE \E c \in Conclusion : EnqueueProduct(c)
  BY <1>2, EnqueueRefines DEF Abs!AbsNext
<1>3. CASE \/ \E roots \in SUBSET Root, b \in Budget : Run(roots, b)
           \/ \E k \in Key, r \in Root : SaturateQueryRoot(k, r)
  <2>1. returned' = FALSE /\ UNCHANGED <<demanded, stored, todo>>
    BY <1>3 DEF Run, SaturateQueryRoot, ctxVars
  <2>2. Accepted' = Accepted
    BY <2>1 DEF Accepted
  <2> QED BY <2>1, <2>2 DEF Abs!AbsNext, Abs!AbsDemand
<1>4. CASE Return
  <2>1. /\ pc = "loop" /\ active = <<>> /\ returned' = TRUE
        /\ UNCHANGED <<demanded, stored, todo>>
    BY <1>4 DEF Return, ctxVars
  <2>2. claimed = NoRoot
    BY <2>1 DEF IInv, SchedInv, ControlExact
  <2>3. IsClosed(Accepted)
    BY <2>1, <2>2, QuietIsClosed
  <2>4. Accepted' = Accepted
    BY <2>1 DEF Accepted
  <2> QED BY <2>1, <2>3, <2>4 DEF Abs!AbsNext, Abs!AbsReturn, Abs!IsClosed, Abs!At, IsClosed, At
<1>5. CASE PopPremise
  <2> DEFINE p == Head(todo[claimed])
  <2>1. claimed \in Root /\ UNCHANGED <<demanded, returned>>
    BY <1>5, ClaimedFacts DEF PopPremise, histVars, IInv
  <2>2. todo \in [Root -> Seq(Conclusion)] /\ stored \in [Root -> SUBSET Conclusion]
    BY DEF IInv, SchedInv, TypeOK
  <2>3. Range(todo[claimed]) = {p} \cup Range(Tail(todo[claimed]))
    <3>1. todo[claimed] \in Seq(Conclusion) /\ todo[claimed] # <<>>
      BY <1>5, <2>1, <2>2 DEF PopPremise
    <3> QED BY <3>1, RangeTail
  <2>4. /\ todo' = [todo EXCEPT ![claimed] = Tail(todo[claimed])]
        /\ stored' = [stored EXCEPT ![claimed] = stored[claimed] \cup {p}]
    BY <1>5 DEF PopPremise
  <2> HIDE DEF p
  <2>5. \A q \in Root : stored'[q] \cup Range(todo'[q]) = stored[q] \cup Range(todo[q])
    BY <2>1, <2>2, <2>3, <2>4
  <2>6. Accepted' = Accepted
    BY <2>5 DEF Accepted
  <2> QED BY <2>1, <2>6 DEF Abs!absVars
<1>6. CASE \/ UNCHANGED vars \/ EnterLoop \/ Claim \/ RetryPremise \/ EndDispatch
           \/ MarkSaturated \/ ExceedBudget \/ Interrupt \/ FailDispatch
  <2>1. UNCHANGED <<demanded, returned, stored, todo>>
    BY <1>6 DEF vars, ctxVars, histVars, EnterLoop, Claim, RetryPremise, EndDispatch,
       MarkSaturated, ExceedBudget, Interrupt, FailDispatch, Abandon
  <2>2. Accepted' = Accepted
    BY <2>1 DEF Accepted
  <2> QED BY <2>1, <2>2 DEF Abs!absVars
<1> QED BY <1>1, <1>2, <1>3, <1>4, <1>5, <1>6 DEF Next, Engine

\* The engine implements the abstract closure.
THEOREM Refinement == Spec => ImplementsClosure
<1>1. Init => Abs!AbsInit
  BY RangeEmpty DEF Init, Abs!AbsInit, Accepted
<1>2. IInv /\ [Next]_vars => [Abs!AbsNext]_(Abs!absVars)
  BY StepRefines
<1> QED BY <1>1, <1>2, Inductive, PTL DEF Spec, ImplementsClosure, Abs!AbsSpec

(***************************************************************************)
(* Soundness and monotonicity, from the refinement                         *)
(***************************************************************************)

\* An abstract step stays inside every closed set that contains what is demanded.
LEMMA StepSound ==
  ASSUME NothingUnderivable, [Abs!AbsNext]_(Abs!absVars)
  PROVE  NothingUnderivable'
<1> SUFFICES ASSUME NEW C \in ClosedSets, \A r \in demanded' : InitOf(r) \in C
             PROVE  Accepted' \subseteq C
  BY DEF NothingUnderivable, ClosedSets, IsClosed, At
<1>1. C \in SUBSET Conclusion /\ IsClosed(C)
  BY DEF ClosedSets
<1>2. demanded \subseteq demanded'
  BY DEF Abs!AbsNext, Abs!absVars, Abs!AbsDemand, Abs!AbsDerive, Abs!AbsReturn
<1>3. Accepted \subseteq C
  BY <1>2 DEF NothingUnderivable
<1>4. CASE Abs!AbsDemand
  <2>1. CASE UNCHANGED <<demanded, Accepted>>
    BY <2>1, <1>3
  <2>2. CASE \E r \in Root : /\ demanded' = demanded \cup {r}
                            /\ Accepted' = Accepted \cup {InitOf(r)}
    BY <2>2, <1>3
  <2> QED BY <1>4, <2>1, <2>2 DEF Abs!AbsDemand
<1>5. CASE Abs!AbsDerive
  <2>1. PICK p \in Accepted : \E c \in Dispatch(At(Accepted, Dest(p)), p) :
                Accepted' = Accepted \cup {c, InitOf(Dest(c))}
    BY <1>5 DEF Abs!AbsDerive, Abs!At, At
  <2>2. PICK c \in Dispatch(At(Accepted, Dest(p)), p) :
                Accepted' = Accepted \cup {c, InitOf(Dest(c))}
    BY <2>1
  <2>3. At(Accepted, Dest(p)) \in SUBSET At(C, Dest(p)) /\ p \in C
    BY <1>3 DEF At
  <2>4. At(C, Dest(p)) \in SUBSET Conclusion /\ p \in Conclusion
    BY <1>1, <2>3 DEF At
  <2>5. c \in Dispatch(At(C, Dest(p)), p)
    BY <2>2, <2>3, <2>4, DispatchAssumption
  <2>6. c \in C /\ InitOf(Dest(c)) \in C
    BY <1>1, <2>3, <2>5 DEF IsClosed
  <2> QED BY <1>3, <2>2, <2>6
<1>6. CASE UNCHANGED <<demanded, Accepted>>
  BY <1>6, <1>3
<1> QED BY <1>4, <1>5, <1>6 DEF Abs!AbsNext, Abs!AbsReturn, Abs!absVars

\* The engine accepts only consequences of what was demanded: it never leaves a
\* closed set of conclusions that contains the demanded initialisations.
THEOREM Soundness == Spec => []NothingUnderivable
<1>1. Init => NothingUnderivable
  BY RangeEmpty DEF Init, NothingUnderivable, Accepted
<1>2. NothingUnderivable /\ [Abs!AbsNext]_(Abs!absVars) => NothingUnderivable'
  BY StepSound
<1>3. IInv /\ [Next]_vars => [Abs!AbsNext]_(Abs!absVars)
  BY StepRefines
<1> QED BY <1>1, <1>2, <1>3, Inductive, PTL DEF Spec

\* No step takes back an inserted conclusion.
LEMMA StoredGrows ==
  ASSUME TypeOK, [Next]_vars
  PROVE  Stored \subseteq Stored'
<1>1. CASE PopPremise
  <2>1. stored' = [stored EXCEPT ![claimed] = stored[claimed] \cup {Head(todo[claimed])}]
    BY <1>1 DEF PopPremise
  <2>2. \A r \in Root : stored[r] \subseteq stored'[r]
    BY <2>1 DEF TypeOK
  <2> QED BY <2>2 DEF Stored
<1>2. CASE ~PopPremise
  <2>1. stored' = stored
    BY <1>2 DEF Next, Engine, vars, ctxVars, Demand, Run, SaturateQueryRoot, SeedRoot,
       EnterLoop, Claim, Return, RetryPremise, EnqueueProduct, EndDispatch, MarkSaturated,
       ExceedBudget, Interrupt, FailDispatch, Abandon
  <2> QED BY <2>1 DEF Stored
<1> QED BY <1>1, <1>2

\* "Stopping preserves all completed monotone work."
THEOREM Monotone == Spec => WorkIsMonotone
<1>1. IInv /\ [Next]_vars => [Accepted \subseteq Accepted' /\ Stored \subseteq Stored']_vars
  <2> SUFFICES ASSUME IInv, [Next]_vars
               PROVE  Accepted \subseteq Accepted' /\ Stored \subseteq Stored'
    OBVIOUS
  <2>1. [Abs!AbsNext]_(Abs!absVars)
    BY StepRefines
  <2>2. Accepted \subseteq Accepted'
    BY <2>1 DEF Abs!AbsNext, Abs!absVars, Abs!AbsDemand, Abs!AbsDerive, Abs!AbsReturn
  <2> QED BY <2>2, StoredGrows DEF IInv, SchedInv
<1> QED BY <1>1, Inductive, PTL DEF Spec, WorkIsMonotone

=============================================================================
