--------------------------- MODULE WorkspaceProofs ---------------------------
(***************************************************************************)
(* The safety properties of the reused workspace, for every ontology whose *)
(* tables pass validation and every sequence of requests.                  *)
(***************************************************************************)
EXTENDS WorkspaceModels, RuleProofs

(***************************************************************************)
(* Listed puts every element of a finite set into the agenda               *)
(***************************************************************************)

\* The recursive function behind Listed.
Chosen(T) == CHOOSE y \in T : TRUE
ListsFrom(listed, T) == IF T = {} THEN <<>> ELSE Append(listed[T \ {Chosen(T)}], Chosen(T))

\* The function exists up to any size: the least size without one does not exist.
LEMMA ListingExists ==
  ASSUME NEW S, IsFiniteSet(S)
  PROVE  \E f : f = [T \in SUBSET S |-> ListsFrom(f, T)]
<1> DEFINE Small(n) == {T \in SUBSET S : Cardinality(T) <= n}
           Good(n) == \E f \in [Small(n) -> Seq(S)] : \A T \in Small(n) : f[T] = ListsFrom(f, T)
           Bad == {n \in Nat : ~Good(n)}
<1>1. \A T \in SUBSET S : /\ IsFiniteSet(T) /\ Cardinality(T) \in Nat
                          /\ Cardinality(T) <= Cardinality(S)
  BY FS_Subset, FS_CardinalityType
<1>2. \A T \in SUBSET S : T # {} =>
        /\ Chosen(T) \in S /\ Chosen(T) \in T
        /\ T \ {Chosen(T)} \in SUBSET S
        /\ Cardinality(T \ {Chosen(T)}) = Cardinality(T) - 1
  BY <1>1, FS_RemoveElement DEF Chosen
<1>3. Good(0)
  <2> DEFINE f == [T \in Small(0) |-> <<>>]
  <2>1. \A T \in Small(0) : T = {}
    BY <1>1, FS_EmptySet
  <2>2. f \in [Small(0) -> Seq(S)] /\ \A T \in Small(0) : f[T] = ListsFrom(f, T)
    BY <2>1 DEF ListsFrom
  <2>3. QED
    BY <2>2
<1>4. ASSUME NEW n \in Nat, Good(n)
      PROVE  Good(n + 1)
  <2>1. PICK f \in [Small(n) -> Seq(S)] : \A T \in Small(n) : f[T] = ListsFrom(f, T)
    BY <1>4
  <2> DEFINE g == [T \in Small(n + 1) |-> ListsFrom(f, T)]
  <2>2. ASSUME NEW T \in Small(n + 1), T # {}
        PROVE  T \ {Chosen(T)} \in Small(n) /\ T \ {Chosen(T)} \in Small(n + 1)
    <3>1. /\ T \in SUBSET S /\ Cardinality(T) <= n + 1 /\ Cardinality(T) \in Nat
          /\ T \ {Chosen(T)} \in SUBSET S
          /\ Cardinality(T \ {Chosen(T)}) = Cardinality(T) - 1
      BY <1>1, <1>2, <2>2
    <3>2. QED
      BY <3>1
  <2>3. ASSUME NEW T \in Small(n)
        PROVE  T \in Small(n + 1) /\ g[T] = f[T]
    <3>1. T \in SUBSET S /\ Cardinality(T) <= n /\ Cardinality(T) \in Nat
      BY <1>1
    <3>2. T \in Small(n + 1)
      BY <3>1
    <3>3. QED
      BY <2>1, <3>2
  <2>4. ASSUME NEW T \in Small(n + 1)
        PROVE  g[T] = ListsFrom(g, T)
    <3> HIDE DEF Small
    <3>1. g[T] = ListsFrom(f, T)
      OBVIOUS
    <3> HIDE DEF g
    <3>2. QED
      BY <2>2, <2>3, <3>1 DEF ListsFrom
  <2>5. ASSUME NEW T \in Small(n + 1)
        PROVE  ListsFrom(f, T) \in Seq(S)
    <3>1. CASE T = {}
      BY <3>1 DEF ListsFrom
    <3>2. CASE T # {}
      <4>1. f[T \ {Chosen(T)}] \in Seq(S) /\ Chosen(T) \in S
        BY <1>2, <2>2, <3>2
      <4>2. QED
        BY <3>2, <4>1 DEF ListsFrom
    <3>3. QED
      BY <3>1, <3>2
  <2>6. g \in [Small(n + 1) -> Seq(S)]
    BY <2>5
  <2>7. QED
    BY <2>4, <2>6
<1> HIDE DEF Good
<1>5. Good(Cardinality(S))
  <2>1. \A n \in Nat : Good(n)
    <3> SUFFICES ASSUME Bad # {}
                 PROVE  FALSE
      OBVIOUS
    <3>1. PICK n \in Bad : \A m \in Bad : ~ (<<m, n>> \in OpToRel(<, Nat))
      <4>1. Bad \subseteq Nat
        OBVIOUS
      <4> HIDE DEF Bad
      <4>2. QED
        BY <4>1, NatLessThanWellFounded, WFMin
    <3>2. n \in Nat /\ n # 0 /\ ~Good(n)
      BY <1>3
    <3>3. n - 1 \in Nat /\ n - 1 < n
      BY <3>2
    <3>4. Good(n - 1)
      BY <3>1, <3>2, <3>3 DEF OpToRel
    <3>5. QED
      BY <1>4, <3>2, <3>3, <3>4
  <2>2. QED
    BY <1>1, <2>1
<1>6. Small(Cardinality(S)) = SUBSET S
  BY <1>1
<1>7. PICK f \in [SUBSET S -> Seq(S)] : \A T \in SUBSET S : f[T] = ListsFrom(f, T)
  BY <1>5, <1>6 DEF Good
<1>8. f = [T \in SUBSET S |-> ListsFrom(f, T)]
  BY <1>7
<1>9. QED
  BY <1>8

\* Enqueueing a finite set loses nothing and adds nothing, whatever the order.
LEMMA ListedIsExact ==
  ASSUME NEW S, IsFiniteSet(S)
  PROVE  Listed(S) \in Seq(S) /\ Range(Listed(S)) = S
<1> DEFINE Equation(f) == f = [T \in SUBSET S |-> ListsFrom(f, T)]
           listed == CHOOSE f : Equation(f)
           Exact(T) == listed[T] \in Seq(T) /\ Range(listed[T]) = T
           Bad == {T \in SUBSET S : ~Exact(T)}
<1>1. Listed(S) = listed[S]
  BY DEF Listed, FoldSet, MapThenFoldSet, ListsFrom, Chosen
<1>2. Equation(listed)
  BY ListingExists
<1> HIDE DEF listed
<1>3. \A T \in SUBSET S : listed[T] = ListsFrom(listed, T)
  BY <1>2
<1>4. ASSUME Bad # {}
      PROVE  FALSE
  <2>1. PICK T \in Bad : \A Y \in Bad : Y \subseteq T => Y = T
    <3>1. Bad \in SUBSET SUBSET S
      OBVIOUS
    <3> HIDE DEF Bad
    <3>2. QED
      BY <1>4, <3>1, MinimalMember
  <2>2. T \in SUBSET S /\ ~Exact(T)
    OBVIOUS
  <2>3. T # {}
    <3>1. Range(<<>>) = {} /\ <<>> \in Seq({})
      BY DEF Range
    <3>2. QED
      BY <1>3, <2>2, <3>1 DEF ListsFrom
  <2> DEFINE x == Chosen(T)
             P == T \ {x}
  <2>4. x \in T
    BY <2>3 DEF Chosen
  <2>5. P \in SUBSET S /\ Exact(P)
    BY <2>1, <2>2, <2>4
  <2>6. listed[T] = Append(listed[P], x)
    BY <1>3, <2>2, <2>3 DEF ListsFrom
  <2>7. listed[P] \in Seq(P) /\ Range(listed[P]) = P
    BY <2>5
  <2> HIDE DEF x
  <2>8. ASSUME NEW s \in Seq(P), Range(s) = P
        PROVE  Append(s, x) \in Seq(T) /\ Range(Append(s, x)) = T
    <3>1. s \in Seq(T)
      BY <2>8
    <3>2. Append(s, x) \in Seq(T) /\ Len(Append(s, x)) = Len(s) + 1 /\ Len(s) \in Nat
          /\ \A i \in 1 .. Len(s) : Append(s, x)[i] = s[i]
          /\ Append(s, x)[Len(s) + 1] = x
          /\ DOMAIN s = 1 .. Len(s) /\ DOMAIN Append(s, x) = 1 .. Len(s) + 1
      BY <2>4, <3>1
    <3>3. Range(Append(s, x)) = Range(s) \cup {x}
      <4>1. 1 .. Len(s) + 1 = (1 .. Len(s)) \cup {Len(s) + 1}
        BY <3>2
      <4>2. QED
        BY <3>2, <4>1 DEF Range
    <3>4. QED
      BY <2>4, <2>8, <3>2, <3>3
  <2>9. QED
    BY <2>2, <2>6, <2>7, <2>8
<1>5. QED
  BY <1>1, <1>4

(***************************************************************************)
(* The invariant                                                           *)
(***************************************************************************)

\* The property view in use comes from validated tables.
LEMMA ViewPrepared ==
  ASSUME RequestOK
  PROVE  Prepared(k)
<1>1. ont \in Ontologies /\ k = Saturated(Compiled(ont))
  BY DEF RequestOK
<1>2. WellFormed(Compiled(ont))
  BY <1>1, CompiledAssumption
<1>3. k.rows = Compiled(ont)
  BY <1>1 DEF Saturated
<1>4. QED
  BY <1>1, <1>2, <1>3 DEF Prepared

\* What a root derives alone.
LEMMA DerivedAlone ==
  ASSUME RequestOK, NEW d
  PROVE  /\ Derived(k, {d}) \subseteq Conclusions(k, {d})
         /\ IsFiniteSet(Conclusions(k, {d}))
         /\ Initialization(d) \in Derived(k, {d})
         /\ Closed(k, Derived(k, {d}))
         /\ \A X : Initialization(d) \in X /\ Closed(k, X) => Derived(k, {d}) \subseteq X
<1>1. IsFiniteSet({d}) /\ Prepared(k)
  BY FS_Singleton, ViewPrepared
<1>2. QED
  BY <1>1, DerivedIsLeast, FiniteConclusions

\* A new workspace satisfies the invariant.
LEMMA InitInv == Init => WorkspaceInv
<1> SUFFICES ASSUME Init
             PROVE  WorkspaceInv
  OBVIOUS
<1>1. DOMAIN <<>> = {} /\ IsFiniteSet({})
  BY FS_EmptySet
<1>2. RequestOK
  BY <1>1 DEF Init, RequestOK
<1>3. RunExact /\ AcceptedExact /\ Discharged /\ OutcomesExact
  BY <1>1 DEF Init, RunExact, AcceptedExact, Discharged, OutcomesExact
<1>4. QED
  BY <1>2, <1>3 DEF WorkspaceInv

\* A request changes nothing but the roots that are missing.
LEMMA EnsureKeepsInv ==
  ASSUME WorkspaceInv, NEW roots \in Requests(ont), EnsureContexts(roots)
  PROVE  WorkspaceInv'
<1> USE DEF EnsureContexts, WorkspaceInv
<1>1. DOMAIN <<>> = {}
  OBVIOUS
<1>2. running = {}
  BY DEF RunExact
<1>3. RequestOK'
  <2>1. IsFiniteSet(roots)
    BY CompiledAssumption DEF RequestOK
  <2>2. IsFiniteSet(roots \ DOMAIN cache)
    BY <2>1, FS_Subset
  <2>3. QED
    BY <2>2 DEF RequestOK
<1>4. RunExact' /\ AcceptedExact' /\ Discharged'
  BY <1>2 DEF RunExact, AcceptedExact, Discharged
<1>5. OutcomesExact'
  BY <1>1 DEF OutcomesExact
<1>6. QED
  BY <1>3, <1>4, <1>5

\* A root starts in a workspace that was reset, so it holds the initialisation of the
\* root only.
LEMMA StartKeepsInv ==
  ASSUME WorkspaceInv, NEW d \in missing, StartRoot(d)
  PROVE  WorkspaceInv'
<1> USE DEF StartRoot, WorkspaceInv
<1> DEFINE init == {Initialization(t) : t \in {d}}
<1>1. /\ contexts' = {d} /\ stored' = {} /\ agenda' = Listed(init) /\ accepted' = init
      /\ running' = {d} /\ k' = k /\ cache' = cache /\ outcomes' = outcomes
  BY DEF Reset
<1>2. init = {Initialization(d)} /\ IsFiniteSet(init)
  <2>1. init = {Initialization(d)}
    OBVIOUS
  <2>2. IsFiniteSet({Initialization(d)})
    BY FS_Singleton
  <2> HIDE DEF init
  <2>3. QED
    BY <2>1, <2>2
<1>3. Listed(init) \in Seq(init) /\ Range(Listed(init)) = init
  BY <1>2, ListedIsExact
<1>4. RequestOK'
  BY DEF RequestOK
<1>5. RunExact'
  BY DEF RunExact
<1>6. AcceptedExact'
  <2>1. Initialization(d) \in Derived(k, {d})
    BY DerivedAlone
  <2> HIDE DEF init
  <2>2. {Destination(c) : c \in init} = {d}
    BY <1>2 DEF Destination, Initialization
  <2>3. QED
    BY <1>1, <1>2, <1>3, <2>1, <2>2 DEF AcceptedExact
<1>7. Discharged'
  BY <1>1 DEF Discharged
<1>8. OutcomesExact'
  BY <1>1 DEF OutcomesExact
<1>9. QED
  BY <1>4, <1>5, <1>6, <1>7, <1>8

\* A commit moves exact outcomes into the cache.
LEMMA CommitKeepsInv ==
  ASSUME WorkspaceInv, Commit
  PROVE  WorkspaceInv'
<1> USE DEF Commit, WorkspaceInv
<1>1. running = {} /\ running' = {} /\ agenda' = <<>>
  BY DEF RunExact, wsVars
<1>2. RequestOK'
  <2>1. DOMAIN cache' = DOMAIN cache \cup missing
    OBVIOUS
  <2>2. IsFiniteSet(DOMAIN cache \cup missing)
    BY FS_Union DEF RequestOK
  <2>3. IsFiniteSet({})
    BY FS_EmptySet
  <2>4. QED
    BY <2>1, <2>2, <2>3 DEF RequestOK
<1>3. RunExact' /\ AcceptedExact' /\ Discharged'
  BY <1>1 DEF RunExact, AcceptedExact, Discharged
<1>4. OutcomesExact'
  <2>1. \A d \in DOMAIN cache' : cache'[d] = At(Derived(k, {d}), d)
    BY DEF OutcomesExact
  <2>2. QED
    BY <2>1 DEF OutcomesExact
<1>5. QED
  BY <1>2, <1>3, <1>4

\* A drained run holds exactly what its root derives alone.
LEMMA DrainedIsDerived ==
  ASSUME WorkspaceInv, NEW d, running = {d}, agenda = <<>>
  PROVE  /\ stored = accepted
         /\ Closed(k, accepted)
         /\ accepted = Derived(k, {d})
<1> USE DEF WorkspaceInv
<1>1. stored = accepted
  <2>1. Range(<<>>) = {}
    BY DEF Range
  <2>2. QED
    BY <2>1 DEF AcceptedExact
<1>2. Closed(k, accepted)
  <2>1. \A p \in accepted : Initialization(Destination(p)) \in accepted
    BY DEF AcceptedExact
  <2>2. \A p \in accepted : DispatchRule(k, At(accepted, Destination(p)), p) \subseteq accepted
    BY <1>1 DEF Discharged
  <2>3. QED
    BY <2>1, <2>2, ClosedMeans
<1>3. Derived(k, {d}) \subseteq accepted
  BY <1>2, DerivedAlone DEF AcceptedExact
<1>4. QED
  BY <1>1, <1>2, <1>3 DEF AcceptedExact

\* The context taken from a drained run is the one the root derives alone.
LEMMA TakeKeepsInv ==
  ASSUME WorkspaceInv, NEW d \in running, TakeRoot(d)
  PROVE  WorkspaceInv'
<1> USE DEF TakeRoot, WorkspaceInv
<1>1. stored = Derived(k, {d})
  BY DrainedIsDerived
<1>2. RequestOK'
  BY DEF RequestOK
<1>3. RunExact' /\ AcceptedExact' /\ Discharged'
  BY DEF RunExact, AcceptedExact, Discharged
<1>4. OutcomesExact'
  <2>1. \A x \in DOMAIN outcomes' : outcomes'[x] = At(Derived(k, {x}), x)
    BY <1>1 DEF OutcomesExact
  <2>2. QED
    BY <2>1 DEF OutcomesExact
<1>5. QED
  BY <1>2, <1>3, <1>4

\* One iteration of the agenda loop: what it accepts follows from the root, and what older
\* premises newly derive, the dispatched premise derives as well.
LEMMA StepKeepsInv ==
  ASSUME WorkspaceInv, Step
  PROVE  WorkspaceInv'
<1> DEFINE p == Head(agenda)
           t == Destination(p)
           inserted == stored \cup {p}
           products == DispatchRule(k, At(inserted, t), p)
           novel == Novel(products)
<1>0. agenda # <<>> /\ RequestOK /\ Prepared(k)
  BY ViewPrepared DEF Step, WorkspaceInv
<1>1. PICK d \in missing \ DOMAIN outcomes : running = {d}
  BY <1>0 DEF WorkspaceInv, RunExact
<1> DEFINE U == Conclusions(k, {d})
           D == Derived(k, {d})
<1>2. /\ Initialization(d) \in accepted /\ accepted \subseteq D /\ agenda \in Seq(accepted)
      /\ accepted = stored \cup Range(agenda) /\ contexts = {Destination(c) : c \in accepted}
      /\ \A x \in contexts : Initialization(x) \in accepted
  BY <1>1 DEF WorkspaceInv, AcceptedExact
<1>3. D \subseteq U /\ IsFiniteSet(U) /\ Closed(k, D)
  BY <1>0, DerivedAlone
<1>4. /\ stored' = inserted
      /\ contexts' = contexts \cup {Destination(c) : c \in products}
      /\ accepted' = accepted \cup novel
      /\ agenda' = Tail(agenda) \o Listed(novel)
      /\ UNCHANGED <<ont, k, missing, outcomes, running, cache>>
  BY DEF Step
<1>5. /\ p \in accepted /\ Tail(agenda) \in Seq(accepted)
      /\ Range(agenda) = {p} \cup Range(Tail(agenda))
  BY <1>0, <1>2, RangeTail, RangeNonEmpty
<1> HIDE DEF p
<1>6. inserted \subseteq accepted
  BY <1>2, <1>5
<1>7. novel = (products \cup {Initialization(Destination(c)) :
                                c \in {q \in products : Destination(q) \notin contexts}}) \ accepted
  BY DEF Novel
<1>8. products \subseteq D
  <2>1. At(inserted, t) \in SUBSET At(D, t)
    BY <1>2, <1>6 DEF At
  <2>2. p \in D /\ p[1] \in Tags
    BY <1>2, <1>3, <1>5, HasTag
  <2>3. products \subseteq DispatchRule(k, At(D, t), p)
    BY <2>1, <2>2, DispatchMonotone
  <2>4. DispatchRule(k, At(D, t), p) \subseteq D
    BY <1>3, <2>2, ClosedMeans
  <2>5. QED
    BY <2>3, <2>4
<1> HIDE DEF products, D, U
<1>9. novel \subseteq D
  <2>1. \A c \in D : Initialization(Destination(c)) \in D
    BY <1>3, ClosedMeans
  <2>2. QED
    BY <1>7, <1>8, <2>1
<1>10. IsFiniteSet(novel)
  BY <1>3, <1>9, FS_Subset
<1> HIDE DEF novel
<1>11. Listed(novel) \in Seq(novel) /\ Range(Listed(novel)) = novel
  BY <1>10, ListedIsExact
<1>12. products \subseteq accepted'
  BY <1>4, <1>7
<1>13. RequestOK' /\ RunExact' /\ OutcomesExact'
  BY <1>1, <1>4 DEF WorkspaceInv, RequestOK, RunExact, OutcomesExact
<1>14. agenda' \in Seq(accepted') /\ accepted' = stored' \cup Range(agenda')
  <2> DEFINE rest == Tail(agenda)
             added == Listed(novel)
  <2>1. rest \in Seq(accepted') /\ added \in Seq(accepted')
    BY <1>4, <1>5, <1>11
  <2> HIDE DEF rest, added
  <2>2. rest \o added \in Seq(accepted') /\ Range(rest \o added) = Range(rest) \cup Range(added)
    BY <2>1, RangeConcat
  <2>3. QED
    BY <1>2, <1>4, <1>5, <1>11, <2>2 DEF rest, added
<1>15. contexts' = {Destination(c) : c \in accepted'}
  <2>1. \A c \in products : Destination(c) \in {Destination(q) : q \in accepted'}
    BY <1>12
  <2>2. \A x : Destination(Initialization(x)) = x
    BY DEF Destination, Initialization
  <2>3. \A c \in novel : Destination(c) \in {Destination(q) : q \in products}
    BY <1>7, <2>2
  <2>4. QED
    BY <1>2, <1>4, <2>1, <2>3
<1>16. \A x \in contexts' : Initialization(x) \in accepted'
  <2>1. \A c \in products : Destination(c) \notin contexts =>
            Initialization(Destination(c)) \in novel \cup accepted
    BY <1>7
  <2>2. QED
    BY <1>2, <1>4, <2>1
<1>17. AcceptedExact'
  <2>1. running' = {d} /\ Derived(k, {d})' = D
    BY <1>1, <1>4 DEF D
  <2>2. Initialization(d) \in accepted' /\ accepted' \subseteq D
    BY <1>2, <1>4, <1>9
  <2>3. QED
    BY <2>1, <2>2, <1>14, <1>15, <1>16 DEF AcceptedExact
<1>18. Discharged'
  <2> SUFFICES ASSUME NEW q \in inserted
               PROVE  DispatchRule(k, At(inserted, Destination(q)), q) \subseteq accepted'
    BY <1>4 DEF Discharged
  <2>1. CASE q = p
    BY <1>12, <2>1 DEF products
  <2>2. CASE q # p
    <3>1. q \in stored /\ DispatchRule(k, At(stored, Destination(q)), q) \subseteq accepted
      BY <1>1, <2>2 DEF WorkspaceInv, Discharged
    <3>2. CASE Destination(q) # t
      <4>1. At(inserted, Destination(q)) = At(stored, Destination(q))
        BY <3>2 DEF At
      <4>2. QED
        BY <1>4, <3>1, <4>1
    <3>3. CASE Destination(q) = t
      <4>1. At(inserted, t) = At(stored, t) \cup {p}
        BY DEF At
      <4>2. q \in At(stored, t) /\ q \in U /\ p \in U /\ q[2] = p[2]
        BY <1>2, <1>3, <1>5, <1>6, <3>1, <3>3 DEF At, Destination
      <4>3. DispatchRule(k, At(stored, t) \cup {p}, q)
                \subseteq DispatchRule(k, At(stored, t), q) \cup DispatchRule(k, At(stored, t) \cup {p}, p)
        BY <1>0, <4>2, LastPremise DEF U
      <4>4. DispatchRule(k, At(stored, t) \cup {p}, p) = products
        BY <4>1 DEF products
      <4>5. QED
        BY <1>4, <1>12, <3>1, <3>3, <4>1, <4>3, <4>4
    <3>4. QED
      BY <3>2, <3>3
  <2>3. QED
    BY <2>1, <2>2
<1>19. QED
  BY <1>13, <1>17, <1>18 DEF WorkspaceInv

\* The workspace invariant holds in every reachable state.
THEOREM WorkspaceInvariant == Spec => []WorkspaceInv
<1>1. Init => WorkspaceInv
  BY InitInv
<1>2. WorkspaceInv /\ [Next]_vars => WorkspaceInv'
  <2> SUFFICES ASSUME WorkspaceInv, [Next]_vars
               PROVE  WorkspaceInv'
    OBVIOUS
  <2>1. CASE Next
    BY <2>1, EnsureKeepsInv, StartKeepsInv, StepKeepsInv, TakeKeepsInv, CommitKeepsInv DEF Next
  <2>2. CASE UNCHANGED vars
    BY <2>2 DEF vars, wsVars, WorkspaceInv, RequestOK, RunExact, AcceptedExact, Discharged,
                OutcomesExact
  <2>3. QED
    BY <2>1, <2>2
<1>3. QED
  BY <1>1, <1>2, PTL DEF Spec

(***************************************************************************)
(* The properties                                                          *)
(***************************************************************************)

\* A run of saturate ends only on a fixed point of the rules.
THEOREM DrainedRunsAreClosed == Spec => []DrainedIsClosed
<1>1. WorkspaceInv => DrainedIsClosed
  <2> SUFFICES ASSUME WorkspaceInv, Quiescent
               PROVE  \A p \in accepted :
                        /\ Initialization(Destination(p)) \in accepted
                        /\ DispatchRule(k, At(accepted, Destination(p)), p) \subseteq accepted
    BY DEF DrainedIsClosed
  <2>1. PICK d : running = {d}
    BY DEF Quiescent, WorkspaceInv, RunExact
  <2>2. QED
    BY <2>1, DrainedIsDerived, ClosedMeans DEF Quiescent
<1>2. QED
  BY <1>1, WorkspaceInvariant, PTL

\* In no reachable context does it matter which of two premises arrived last.
THEOREM PremisesCommute == Spec => []EitherPremiseLast
<1>1. WorkspaceInv => EitherPremiseLast
  <2> SUFFICES ASSUME WorkspaceInv, Quiescent, NEW p \in stored, NEW q \in stored,
                      Destination(p) = Destination(q)
               PROVE  DispatchRule(k, {p, q}, p)
                        \subseteq DispatchRule(k, {p}, p) \cup DispatchRule(k, {p, q}, q)
    BY DEF EitherPremiseLast
  <2>1. PICK d : running = {d}
    BY DEF Quiescent, WorkspaceInv, RunExact
  <2>2. Prepared(k) /\ p \in Conclusions(k, {d}) /\ q \in Conclusions(k, {d})
    BY <2>1, ViewPrepared, DerivedAlone DEF WorkspaceInv, AcceptedExact
  <2>3. {p, q} = {p} \cup {q} /\ p \in {p} /\ p[2] = q[2]
    BY DEF Destination
  <2>4. QED
    BY <2>2, <2>3, LastPremise
<1>2. QED
  BY <1>1, WorkspaceInvariant, PTL

\* What is cached for a root is what the root derives alone, whatever its workspace served
\* before and whatever else was requested.
THEOREM CachedContextsAreExact == Spec => []CacheIsExact
<1>1. WorkspaceInv => CacheIsExact
  BY DEF WorkspaceInv, OutcomesExact, CacheIsExact
<1>2. QED
  BY <1>1, WorkspaceInvariant, PTL

\* Without ranges the isolated workspaces and one shared engine agree on every root.
THEOREM BackendsAgree == Spec => []SharedAgreesWithIsolated
<1>1. WorkspaceInv => SharedAgreesWithIsolated
  <2> SUFFICES ASSUME WorkspaceInv, Table(k, "range") = {}, NEW d \in DOMAIN cache
               PROVE  /\ Subsumers(cache[d], d) = Subsumers(Derived(k, DOMAIN cache), d)
                      /\ Contradictory(cache[d], d) = Contradictory(Derived(k, DOMAIN cache), d)
    BY DEF SharedAgreesWithIsolated
  <2> DEFINE shared == Derived(k, DOMAIN cache)
  <2>1. cache[d] = At(Derived(k, {d}), d)
    BY DEF WorkspaceInv, OutcomesExact
  <2>2. Prepared(k) /\ IsFiniteSet(DOMAIN cache)
    BY ViewPrepared DEF WorkspaceInv, RequestOK
  <2>3. \A c : c[1] \in {"dec", "com", "bot"} /\ c[2] = d =>
            (c \in Derived(k, {d}) <=> c \in shared)
    BY <2>2, RootsAreIndependent
  <2>4. \A c : c[1] \in {"dec", "com", "bot"} /\ c[2] = d => (c \in cache[d] <=> c \in shared)
    BY <2>1, <2>3 DEF At, Destination
  <2> HIDE DEF shared
  <2>5. Subsumers(cache[d], d) = Subsumers(shared, d)
    <3>1. {q \in At(cache[d], d) : q[1] \in {"dec", "com"}} = {q \in At(shared, d) : q[1] \in {"dec", "com"}}
      BY <2>4 DEF At, Destination
    <3>2. QED
      BY <3>1 DEF Subsumers
  <2>6. Contradictory(cache[d], d) = Contradictory(shared, d)
    <3>1. <<"bot", d>>[1] = "bot" /\ <<"bot", d>>[2] = d
      OBVIOUS
    <3>2. <<"bot", d>> \in cache[d] <=> <<"bot", d>> \in shared
      BY <2>4, <3>1
    <3>3. QED
      BY <3>2 DEF Contradictory
  <2>7. QED
    BY <2>5, <2>6 DEF shared
<1>2. QED
  BY <1>1, WorkspaceInvariant, PTL

\* Without ranges every conclusion of a drained run, links and propagations included, holds
\* in every model of the compiled tables.
THEOREM ConclusionsAreSound == Spec => []Sound
<1>1. WorkspaceInv => Sound
  <2> SUFFICES ASSUME WorkspaceInv, Quiescent, Table(k, "range") = {}, NEW I \in Models(ont)
               PROVE  \A c \in accepted : Holds(I, c)
    BY DEF Sound
  <2>1. PICK d : running = {d}
    BY DEF Quiescent, WorkspaceInv, RunExact
  <2>2. accepted \subseteq Derived(k, {d})
    BY <2>1 DEF WorkspaceInv, AcceptedExact
  <2>3. d \in UNION Requests(ont)
    BY <2>1 DEF WorkspaceInv, RequestOK, RunExact
  <2>4. ModelOf(I, Compiled(ont), UNION Requests(ont))
    BY ModelsAssumption DEF WorkspaceInv, RequestOK
  <2>5. Prepared(k) /\ k.rows = Compiled(ont)
    BY ViewPrepared DEF WorkspaceInv, RequestOK, Saturated
  <2>6. ModelOf(I, k.rows, {d})
    BY <2>3, <2>4, <2>5 DEF ModelOf
  <2>7. IsFiniteSet({d})
    BY FS_Singleton
  <2>8. \A c \in Derived(k, {d}) : Holds(I, c)
    BY <2>5, <2>6, <2>7, RulesAreSound
  <2>9. QED
    BY <2>2, <2>8
<1>2. QED
  BY <1>1, WorkspaceInvariant, PTL

\* A root saturated alone keeps correct consequences as long as no property has a range:
\* the shared target of a link with a range is the only way to lose soundness.
THEOREM OnlyRangesAreUnsound == Spec => [](Table(k, "range") = {} => RootConsequenceIsSound)
<1>1. WorkspaceInv => (Table(k, "range") = {} => RootConsequenceIsSound)
  <2> SUFFICES ASSUME WorkspaceInv, Table(k, "range") = {},
                      NEW d \in DOMAIN cache, NEW I \in Models(ont)
               PROVE  /\ \A x \in Subsumers(cache[d], d) : I.ext[d] \subseteq I.ext[x]
                      /\ Contradictory(cache[d], d) => I.ext[d] = {}
    BY DEF RootConsequenceIsSound
  <2>1. cache[d] \subseteq Derived(k, {d})
    BY DEF WorkspaceInv, OutcomesExact, At
  <2>2. d \in UNION Requests(ont)
    BY DEF WorkspaceInv, RequestOK
  <2>3. ModelOf(I, Compiled(ont), UNION Requests(ont))
    BY ModelsAssumption DEF WorkspaceInv, RequestOK
  <2>4. Prepared(k) /\ k.rows = Compiled(ont)
    BY ViewPrepared DEF WorkspaceInv, RequestOK, Saturated
  <2>5. ModelOf(I, k.rows, {d})
    BY <2>2, <2>3, <2>4 DEF ModelOf
  <2>6. IsFiniteSet({d})
    BY FS_Singleton
  <2>7. \A c \in cache[d] : Holds(I, c)
    BY <2>1, <2>4, <2>5, <2>6, RulesAreSound
  <2>8. \A x \in Subsumers(cache[d], d) : I.ext[d] \subseteq I.ext[x]
    <3> SUFFICES ASSUME NEW x \in Subsumers(cache[d], d)
                 PROVE  I.ext[d] \subseteq I.ext[x]
      OBVIOUS
    <3>1. PICK c \in cache[d] : c[1] \in {"dec", "com"} /\ c[2] = d /\ c[3] = x
      BY DEF Subsumers, At, Destination
    <3>2. QED
      BY <2>7, <3>1, Claims
  <2>9. Contradictory(cache[d], d) => I.ext[d] = {}
    <3>1. <<"bot", d>>[1] = "bot" /\ <<"bot", d>>[2] = d
      OBVIOUS
    <3>2. QED
      BY <2>7, <3>1, Claims DEF Contradictory
  <2>10. QED
    BY <2>8, <2>9
<1>2. QED
  BY <1>1, WorkspaceInvariant, PTL

=============================================================================
