---------------------------- MODULE FacadeProofs ----------------------------
(***************************************************************************)
(* One reasoner under any number of threads and calls, with any number of  *)
(* backend calls that raise.  The invariant FacadeInv is shown action by   *)
(* action; from it follow the safety properties and, with the refinement   *)
(* mapping of module Facade, that a reasoner implements ReasonerContract.  *)
(*                                                                         *)
(* The first lemmas are about the steps a call has left: what uses a value *)
(* comes after what supplies it (Supplied), and the locked regions nest as *)
(* the methods write them (Entering, Working, Closing, Returning).         *)
(***************************************************************************)
EXTENDS Facade, SequenceTheorems, TLAPS

\* A step is known by its name.
LEMMA StepByName ==
    ASSUME NEW x \in AllSteps
    PROVE  /\ \A name \in {"verdict", "fresh", "query", "engine", "run", "entails", "inspect"} :
                x[1] = name => x = <<name>> /\ x \in InnerSteps
           /\ \A name \in {"lock", "unlock", "reply", "close", "closing"} :
                x[1] = name => x = <<name>> /\ x \notin InnerSteps
           /\ x \in InnerSteps => x[1] \notin {"lock", "unlock", "reply", "close", "closing"}
  BY DEF AllSteps, InnerSteps

\* The suppliers of what the remaining steps use, after the first one is done.
LEMMA SuppliedTail ==
    ASSUME NEW S, NEW s \in Seq(S), s # <<>>, NEW uses, NEW by,
           Supplied(s, uses, by), s[1] \notin by
    PROVE  Supplied(Tail(s), uses, by)
<1> SUFFICES ASSUME NEW i \in 1..Len(Tail(s)), Tail(s)[i] \in uses
             PROVE  \E j \in 1..(i - 1) : Tail(s)[j] \in by
  BY DEF Supplied
<1>1. /\ Len(Tail(s)) = Len(s) - 1
      /\ \A n \in 1..Len(Tail(s)) : Tail(s)[n] = s[n + 1]
  OBVIOUS
<1>2. i + 1 \in 1..Len(s) /\ s[i + 1] \in uses
  BY <1>1
<1>3. PICK j \in 1..(i + 1 - 1) : s[j] \in by
  BY <1>2 DEF Supplied
<1>4. j - 1 \in 1..(i - 1) /\ Tail(s)[j - 1] = s[j]
  BY <1>1, <1>3
<1> QED
  BY <1>3, <1>4

\* The same when the first step is replaced by others.
LEMMA SuppliedPush ==
    ASSUME NEW S, NEW s \in Seq(S), s # <<>>, NEW uses, NEW by, NEW new \in Seq(S),
           Supplied(s, uses, by), Supplied(new, uses, by),
           s[1] \in by => \E j \in 1..Len(new) : new[j] \in by
    PROVE  Supplied(new \o Tail(s), uses, by)
<1> DEFINE r == new \o Tail(s)
<1>1. /\ Len(new) \in Nat /\ Len(s) \in Nat /\ Len(s) >= 1
      /\ Len(r) = Len(new) + Len(s) - 1
      /\ \A n \in 1..Len(new) : r[n] = new[n]
      /\ \A n \in 2..Len(s) : r[Len(new) + n - 1] = s[n]
  OBVIOUS
<1> SUFFICES ASSUME NEW i \in 1..Len(r), r[i] \in uses
             PROVE  \E j \in 1..(i - 1) : r[j] \in by
  BY DEF Supplied
<1> HIDE DEF r
<1>2. CASE i <= Len(new)
  <2>1. new[i] \in uses /\ i \in 1..Len(new)
    BY <1>1, <1>2
  <2>2. PICK j \in 1..(i - 1) : new[j] \in by
    BY <2>1 DEF Supplied
  <2>3. j \in 1..Len(new) /\ r[j] = new[j]
    BY <1>1, <1>2, <2>2
  <2> QED
    BY <2>2, <2>3
<1>3. CASE i > Len(new)
  <2> DEFINE m == i - Len(new) + 1
  <2>1. m \in 2..Len(s) /\ s[m] \in uses
    BY <1>1, <1>3
  <2>2. PICK j \in 1..(m - 1) : s[j] \in by
    BY <2>1 DEF Supplied
  <2>3. CASE j = 1
    <3>1. PICK k \in 1..Len(new) : new[k] \in by
      BY <2>2, <2>3
    <3> QED
      BY <1>1, <1>3, <3>1
  <2>4. CASE j # 1
    <3>1. j \in 2..Len(s) /\ r[Len(new) + j - 1] = s[j] /\ Len(new) + j - 1 \in 1..(i - 1)
      BY <1>1, <2>1, <2>2, <2>4
    <3> QED
      BY <2>2, <3>1
  <2> QED
    BY <2>3, <2>4
<1> QED
  BY <1>1, <1>2, <1>3

\* The end of a method stays where it is while steps before it are done or replaced.
LEMMA OneLockKept ==
    ASSUME NEW s \in Seq(AllSteps), s # <<>>, OneLock(s), s[1] \in InnerSteps,
           NEW new \in Seq(InnerSteps)
    PROVE  OneLock(Tail(s)) /\ OneLock(new \o Tail(s))
<1>1. PICK n \in 0..Len(s) : Inner(s, n) /\ EndsWith(s, n)
  BY DEF OneLock
<1>2. s[1] # <<"reply">>
  BY StepByName
<1>3. n >= 1
  BY <1>1, <1>2 DEF EndsWith
<1>4. OneLock(Tail(s))
  <2>1. n - 1 \in 0..Len(Tail(s)) /\ Len(Tail(s)) = Len(s) - 1
    BY <1>1, <1>3 DEF EndsWith
  <2>2. Inner(Tail(s), n - 1)
    BY <1>1, <1>3, <2>1 DEF Inner, EndsWith
  <2>3. EndsWith(Tail(s), n - 1)
    BY <1>1, <1>3, <2>1 DEF EndsWith, Unlock
  <2> QED
    BY <2>1, <2>2, <2>3 DEF OneLock
<1>5. OneLock(new \o Tail(s))
  <2> DEFINE r == new \o Tail(s)
             m == Len(new) + n - 1
  <2>1. /\ Len(new) \in Nat /\ Len(s) = n + 2
        /\ Len(r) = Len(new) + Len(s) - 1
        /\ \A k \in 1..Len(new) : r[k] = new[k]
        /\ \A k \in 2..Len(s) : r[Len(new) + k - 1] = s[k]
    BY <1>1 DEF EndsWith
  <2>2. \A k \in 1..Len(new) : new[k] \in InnerSteps
    OBVIOUS
  <2>3. m \in 0..Len(r)
    BY <1>3, <2>1
  <2> HIDE DEF r
  <2>4. Inner(r, m)
    <3> SUFFICES ASSUME NEW i \in 1..m PROVE r[i] \in InnerSteps
      BY DEF Inner
    <3>1. CASE i <= Len(new)
      BY <2>1, <2>2, <3>1
    <3>2. CASE i > Len(new)
      <4>1. i - Len(new) + 1 \in 2..n /\ r[i] = s[i - Len(new) + 1]
        BY <1>3, <2>1, <3>2
      <4> QED
        BY <1>1, <1>3, <4>1 DEF Inner
    <3> QED
      BY <2>1, <3>1, <3>2
  <2>5. EndsWith(r, m)
    <3>1. n + 1 \in 2..Len(s) /\ n + 2 \in 2..Len(s)
      BY <1>3, <2>1
    <3>2. r[Len(new) + (n + 1) - 1] = s[n + 1] /\ r[Len(new) + (n + 2) - 1] = s[n + 2]
      BY <2>1, <3>1
    <3>3. Len(new) + (n + 1) - 1 = m + 1 /\ Len(new) + (n + 2) - 1 = m + 2
      BY <2>1
    <3> QED
      BY <1>1, <2>1, <3>2, <3>3 DEF EndsWith
  <2> QED
    BY <2>3, <2>4, <2>5 DEF OneLock, r
<1> QED
  BY <1>4, <1>5

\* The same inside the inner lock.
LEMMA TwoLocksKept ==
    ASSUME NEW s \in Seq(AllSteps), s # <<>>, TwoLocks(s), s[1] \in InnerSteps,
           NEW new \in Seq(InnerSteps)
    PROVE  TwoLocks(Tail(s)) /\ TwoLocks(new \o Tail(s))
<1>1. PICK n \in 0..Len(s) : Inner(s, n) /\ EndsWith(s, n + 1) /\ s[n + 1] = Unlock
  BY DEF TwoLocks
<1>2. s[1] # Unlock
  BY StepByName DEF Unlock
<1>3. n >= 1
  BY <1>1, <1>2 DEF EndsWith
<1>4. TwoLocks(Tail(s))
  <2>1. n - 1 \in 0..Len(Tail(s)) /\ Len(Tail(s)) = Len(s) - 1 /\ Len(s) = n + 3
    BY <1>1, <1>3 DEF EndsWith
  <2>2. Inner(Tail(s), n - 1)
    BY <1>1, <1>3, <2>1 DEF Inner
  <2>3. \A k \in 1..(Len(s) - 1) : Tail(s)[k] = s[k + 1]
    OBVIOUS
  <2>4. Tail(s)[n] = s[n + 1] /\ Tail(s)[n + 1] = s[n + 2] /\ Tail(s)[n + 2] = s[n + 3]
    BY <1>3, <2>1, <2>3
  <2>5. EndsWith(Tail(s), n - 1 + 1) /\ Tail(s)[n - 1 + 1] = Unlock
    BY <1>1, <1>3, <2>1, <2>4 DEF EndsWith
  <2> QED
    BY <2>1, <2>2, <2>5 DEF TwoLocks
<1>5. TwoLocks(new \o Tail(s))
  <2> DEFINE r == new \o Tail(s)
             m == Len(new) + n - 1
  <2>1. /\ Len(new) \in Nat /\ Len(s) = n + 3
        /\ Len(r) = Len(new) + Len(s) - 1
        /\ \A k \in 1..Len(new) : r[k] = new[k]
        /\ \A k \in 2..Len(s) : r[Len(new) + k - 1] = s[k]
    BY <1>1 DEF EndsWith
  <2>2. \A k \in 1..Len(new) : new[k] \in InnerSteps
    OBVIOUS
  <2>3. m \in 0..Len(r)
    BY <1>3, <2>1
  <2> HIDE DEF r
  <2>4. Inner(r, m)
    <3> SUFFICES ASSUME NEW i \in 1..m PROVE r[i] \in InnerSteps
      BY DEF Inner
    <3>1. CASE i <= Len(new)
      BY <2>1, <2>2, <3>1
    <3>2. CASE i > Len(new)
      <4>1. i - Len(new) + 1 \in 2..n /\ r[i] = s[i - Len(new) + 1]
        BY <1>3, <2>1, <3>2
      <4> QED
        BY <1>1, <1>3, <4>1 DEF Inner
    <3> QED
      BY <2>1, <3>1, <3>2
  <2>5. EndsWith(r, m + 1) /\ r[m + 1] = Unlock
    <3>1. n + 1 \in 2..Len(s) /\ n + 2 \in 2..Len(s) /\ n + 3 \in 2..Len(s)
      BY <1>3, <2>1
    <3>2. /\ r[Len(new) + (n + 1) - 1] = s[n + 1] /\ r[Len(new) + (n + 2) - 1] = s[n + 2]
          /\ r[Len(new) + (n + 3) - 1] = s[n + 3]
      BY <2>1, <3>1
    <3>3. /\ Len(new) + (n + 1) - 1 = m + 1 /\ Len(new) + (n + 2) - 1 = m + 1 + 1
          /\ Len(new) + (n + 3) - 1 = m + 1 + 2
          /\ n + 1 + 1 = n + 2 /\ n + 1 + 2 = n + 3
      BY <2>1
    <3> QED
      BY <1>1, <2>1, <3>2, <3>3 DEF EndsWith
  <2> QED
    BY <2>3, <2>4, <2>5 DEF TwoLocks, r
<1> QED
  BY <1>4, <1>5

\* The method bodies, written out to the release of the lock.
LEMMA Bodies ==
    /\ Body("consistency") = <<<<"verdict">>, <<"reply">>>>
    /\ \A m \in Tasks \ {"consistency"} :
         \E kind \in Kinds : KindOf(m) = kind /\ Body(m) = <<<<"verdict">>, <<"public", kind>>, <<"reply">>>>
    /\ Body("class_query") = ClassQuerySteps
    /\ Body("types") = TypesSteps
    /\ Body("property_query") = PropertyQuerySteps
    /\ Body("equivalent_property") = EquivalentPropertySteps
    /\ Body("entailed") = EntailmentSteps
    /\ Body("inspect") = InspectionSteps
    /\ Body("close") = <<<<"close">>>>
  BY DEF Body, TaskSteps, Tasks, Kinds, KindOf

\* The body of every method consists of steps.
LEMMA BodyTyped ==
    ASSUME NEW r \in Requests
    PROVE  Body(r.method) \in Seq(AllSteps)
<1>1. r.method \in Methods
  BY RequestsAssumption
<1>2. \A kind \in Kinds : <<<<"verdict">>, <<"public", kind>>, <<"reply">>>> \in Seq(AllSteps)
  BY DEF AllSteps, InnerSteps
<1>3. \A m \in Tasks \ {"consistency"} : Body(m) \in Seq(AllSteps)
  BY <1>2, Bodies
<1>4. Body("consistency") \in Seq(AllSteps) /\ Body("close") \in Seq(AllSteps)
  <2>1. <<<<"verdict">>, <<"reply">>>> \in Seq(AllSteps) /\ <<<<"close">>>> \in Seq(AllSteps)
    BY DEF AllSteps, InnerSteps
  <2> QED
    BY <2>1, Bodies
<1>5. /\ ClassQuerySteps \in Seq(AllSteps) /\ InspectionSteps \in Seq(AllSteps)
      /\ EntailmentSteps \in Seq(AllSteps)
  BY DEF AllSteps, InnerSteps, ClassQuerySteps, InspectionSteps, EntailmentSteps
<1>6. TypesSteps \in Seq(AllSteps) /\ PropertyQuerySteps \in Seq(AllSteps)
  BY DEF AllSteps, InnerSteps, TypesSteps, PropertyQuerySteps, Kinds
<1>7. EquivalentPropertySteps \in Seq(AllSteps)
  BY DEF AllSteps, InnerSteps, EquivalentPropertySteps, Kinds
<1> QED
  BY <1>1, <1>3, <1>4, <1>5, <1>6, <1>7, Bodies DEF Methods, Queries

\* A sequence of one.
LEMMA Single ==
    ASSUME NEW S, NEW s \in Seq(S), Len(s) = 1
    PROVE  s = <<s[1]>>
<1>1. s[1] \in S
  OBVIOUS
<1>2. <<s[1]>> \in Seq(S) /\ Len(<<s[1]>>) = 1
  BY <1>1
<1> QED
  BY <1>2, SeqEqual

\* Sequences of two and of three.
LEMMA Short ==
    ASSUME NEW S, NEW s \in Seq(S)
    PROVE  /\ Len(s) = 2 => s = <<s[1], s[2]>> /\ Tail(s) = <<s[2]>>
           /\ Len(s) = 3 => s = <<s[1], s[2], s[3]>>
<1>0. \A i \in 1..Len(s) : s[i] \in S
  OBVIOUS
<1>1. ASSUME Len(s) = 2 PROVE s = <<s[1], s[2]>>
  <2>0. s[1] \in S /\ s[2] \in S
    BY <1>0, <1>1
  <2>1. <<s[1], s[2]>> \in Seq(S) /\ Len(<<s[1], s[2]>>) = 2
    BY <2>0
  <2> QED
    BY <1>1, <2>1, SeqEqual
<1>2. ASSUME Len(s) = 2 PROVE Tail(s) = <<s[2]>>
  <2>1. Tail(s) \in Seq(S) /\ Len(Tail(s)) = 1 /\ Tail(s)[1] = s[2]
    <3>1. s # <<>>
      BY <1>2
    <3> QED
      BY <1>2, <3>1, HeadTailProperties
  <2> QED
    BY <2>1, Single
<1>3. ASSUME Len(s) = 3 PROVE s = <<s[1], s[2], s[3]>>
  <2>0. s[1] \in S /\ s[2] \in S /\ s[3] \in S
    BY <1>0, <1>3
  <2>1. <<s[1], s[2], s[3]>> \in Seq(S) /\ Len(<<s[1], s[2], s[3]>>) = 3
    BY <2>0
  <2> QED
    BY <1>3, <2>1, SeqEqual
<1> QED
  BY <1>1, <1>2, <1>3

\* Where a call is in its method, by its next step: only the owner of the lock is past the
\* first one.
LEMMA Phases ==
    ASSUME FacadeInv, NEW t \in Threads, stack[t] # <<>>
    PROVE  /\ stack[t] \in Seq(AllSteps)
           /\ stack[t][1] \in AllSteps
           /\ request[t] \in Requests
           /\ stack[t][1] \in InnerSteps =>
                /\ lock.owner = t /\ Working(t)
                /\ (lock.depth = 1 /\ OneLock(stack[t])) \/ (lock.depth = 2 /\ TwoLocks(stack[t]))
           /\ stack[t][1] = <<"reply">> =>
                lock.owner = t /\ Working(t) /\ lock.depth = 1 /\ Tail(stack[t]) = <<Unlock>>
           /\ stack[t][1] \in {<<"close">>, <<"closing">>} =>
                lock.owner = t /\ Closing(t) /\ Tail(stack[t]) = <<Unlock>>
           /\ stack[t][1] = Unlock =>
                /\ lock.owner = t
                /\ \/ Returning(t)
                   \/ Working(t) /\ lock.depth = 2 /\ stack[t] = <<Unlock, <<"reply">>, Unlock>>
           /\ stack[t][1] = <<"lock">> =>
                \/ lock.owner # t /\ Outside(t) /\ stack[t] = Locked(Body(request[t].method))
                \/ lock.owner = t /\ Working(t) /\ lock.depth = 1 /\ Entering(stack[t])
<1> DEFINE s == stack[t]
<1>1. s \in Seq(AllSteps) /\ s[1] \in AllSteps
  <2>1. s \in Seq(AllSteps)
    BY DEF FacadeInv, FacadeTypeOK
  <2> QED
    BY <2>1
<1>2. IF lock.owner = t THEN request[t] \in Requests /\ (Working(t) \/ Closing(t) \/ Returning(t))
                        ELSE Outside(t)
  BY DEF FacadeInv, LockIsKept
<1>3. CASE lock.owner # t
  <2>1. request[t] \in Requests /\ s = Locked(Body(request[t].method)) /\ Outside(t)
    BY <1>2, <1>3 DEF Outside
  <2>2. s[1] = <<"lock">>
    <3>1. Body(request[t].method) \in Seq(AllSteps)
      BY <2>1, BodyTyped
    <3> QED
      BY <2>1, <3>1 DEF Locked
  <2>3. s[1] \notin InnerSteps /\ s[1] # <<"reply">> /\ s[1] \notin {<<"close">>, <<"closing">>} /\ s[1] # Unlock
    BY <1>1, <2>2, StepByName DEF Unlock
  <2> QED
    BY <1>1, <1>3, <2>1, <2>2, <2>3
<1>4. CASE lock.owner = t /\ Working(t)
  <2>0. request[t] \in Requests
    BY <1>2, <1>4
  <2>1. CASE lock.depth = 1 /\ Entering(s)
    <3>1. s[1] = <<"lock">>
      BY <2>1 DEF Entering, EquivalentPropertySteps
    <3>2. s[1] \notin InnerSteps /\ s[1] # <<"reply">> /\ s[1] \notin {<<"close">>, <<"closing">>} /\ s[1] # Unlock
      BY <1>1, <3>1, StepByName DEF Unlock
    <3> QED
      BY <1>1, <1>4, <2>0, <2>1, <3>1, <3>2
  <2>2. CASE lock.depth = 1 /\ OneLock(s)
    <3>1. PICK n \in 0..Len(s) : Inner(s, n) /\ EndsWith(s, n)
      BY <2>2 DEF OneLock
    <3>2. CASE n = 0
      <4>1. Len(s) = 2 /\ s[1] = <<"reply">> /\ s[2] = Unlock
        BY <3>1, <3>2 DEF EndsWith
      <4>2. Tail(s) = <<Unlock>>
        BY <4>1, <1>1, Short
      <4>3. s[1] \notin InnerSteps /\ s[1] # <<"lock">> /\ s[1] \notin {<<"close">>, <<"closing">>} /\ s[1] # Unlock
        BY <1>1, <4>1, StepByName DEF Unlock
      <4> QED
        BY <1>1, <1>4, <2>0, <2>2, <4>1, <4>2, <4>3
    <3>3. CASE n # 0
      <4>1. s[1] \in InnerSteps
        BY <3>1, <3>3 DEF Inner
      <4>2. s[1] # <<"reply">> /\ s[1] # <<"lock">> /\ s[1] \notin {<<"close">>, <<"closing">>} /\ s[1] # Unlock
        BY <1>1, <4>1, StepByName DEF Unlock
      <4> QED
        BY <1>1, <1>4, <2>0, <2>2, <4>1, <4>2
    <3> QED
      BY <3>2, <3>3
  <2>3. CASE lock.depth = 2 /\ TwoLocks(s)
    <3>1. PICK n \in 0..Len(s) : Inner(s, n) /\ EndsWith(s, n + 1) /\ s[n + 1] = Unlock
      BY <2>3 DEF TwoLocks
    <3>2. CASE n = 0
      <4>1. Len(s) = 3 /\ s[1] = Unlock /\ s[2] = <<"reply">> /\ s[3] = Unlock
        BY <3>1, <3>2 DEF EndsWith
      <4>2. s = <<Unlock, <<"reply">>, Unlock>>
        BY <4>1, <1>1, Short
      <4>3. s[1] \notin InnerSteps /\ s[1] # <<"lock">> /\ s[1] \notin {<<"close">>, <<"closing">>} /\ s[1] # <<"reply">>
        BY <1>1, <4>1, StepByName DEF Unlock
      <4> QED
        BY <1>1, <1>4, <2>0, <2>3, <4>1, <4>2, <4>3
    <3>3. CASE n # 0
      <4>1. s[1] \in InnerSteps
        BY <3>1, <3>3 DEF Inner
      <4>2. s[1] # <<"reply">> /\ s[1] # <<"lock">> /\ s[1] \notin {<<"close">>, <<"closing">>} /\ s[1] # Unlock
        BY <1>1, <4>1, StepByName DEF Unlock
      <4> QED
        BY <1>1, <1>4, <2>0, <2>3, <4>1, <4>2
    <3> QED
      BY <3>2, <3>3
  <2> QED
    BY <1>4, <2>1, <2>2, <2>3 DEF Working
<1>5. CASE lock.owner = t /\ Closing(t)
  <2>0. request[t] \in Requests
    BY <1>2, <1>5
  <2>1. Len(s) = 2 /\ s[1] \in {<<"close">>, <<"closing">>} /\ s[2] = Unlock
    <3>1. s = <<<<"close">>, Unlock>> \/ s = <<<<"closing">>, Unlock>>
      BY <1>5 DEF Closing
    <3>2. ASSUME NEW x, s = <<x, Unlock>> PROVE Len(s) = 2 /\ s[1] = x /\ s[2] = Unlock
      BY <3>2
    <3> QED
      BY <3>1, <3>2
  <2>3. Tail(s) = <<Unlock>>
    BY <1>1, <2>1, Short
  <2>2. s[1] \notin InnerSteps /\ s[1] # <<"reply">> /\ s[1] # <<"lock">> /\ s[1] # Unlock
    BY <1>1, <2>1, StepByName DEF Unlock
  <2> QED
    BY <1>1, <1>5, <2>0, <2>1, <2>2, <2>3
<1>6. CASE lock.owner = t /\ Returning(t)
  <2>0. request[t] \in Requests
    BY <1>2, <1>6
  <2>1. s[1] = Unlock
    BY <1>6 DEF Returning
  <2>2. s[1] \notin InnerSteps /\ s[1] # <<"reply">> /\ s[1] # <<"lock">> /\ s[1] \notin {<<"close">>, <<"closing">>}
    BY <1>1, <2>1, StepByName DEF Unlock
  <2> QED
    BY <1>1, <1>6, <2>0, <2>1, <2>2
<1> QED
  BY <1>2, <1>3, <1>4, <1>5, <1>6

\* A call goes on: its next step is done, or replaced by the steps in new.
LEMMA WorkGoesOn ==
    ASSUME FacadeInv, NEW t \in Threads, stack[t] # <<>>, stack[t][1] \in InnerSteps,
           NEW new \in Seq(InnerSteps),
           stack'[t] = Tail(stack[t]) \/ stack'[t] = new \o Tail(stack[t]),
           UNCHANGED <<lock, request, reply, setting>>,
           \A kind \in Kinds :
             /\ got[t][kind] # NoValue => got'[t][kind] # NoValue
             /\ raw[kind] # NoValue => raw'[kind] # NoValue
             /\ backend'.cache[kind] = backend.cache[kind] \/ stack[t][1] = <<"build", kind>>,
           stack[t][1] # <<"verdict">> => flag'[t] = flag[t],
           stack[t][1] = <<"verdict">> => flag'[t] \in Verdicts,
           stack'[t] = Tail(stack[t]) =>
             /\ \A kind \in Kinds :
                  /\ stack[t][1] \in Fills(kind) => got'[t][kind] # NoValue
                  /\ stack[t][1] \in Stores(kind) => raw'[kind] # NoValue
             /\ stack[t][1] = <<"fresh">> => FreshPasses(t),
           stack'[t] # Tail(stack[t]) =>
             /\ stack[t][1] \notin {<<"verdict">>, <<"fresh">>}
             /\ \A i \in 1..Len(new) : new[i] # <<"verdict">> /\ new[i] # <<"fresh">>
             /\ \A kind \in Kinds :
                  /\ Supplied(new, UsesGot(t, kind), Fills(kind))
                  /\ Supplied(new, UsesRaw(kind), Stores(kind))
                  /\ stack[t][1] \in Fills(kind) => \E j \in 1..Len(new) : new[j] \in Fills(kind)
                  /\ stack[t][1] \in Stores(kind) => \E j \in 1..Len(new) : new[j] \in Stores(kind)
             /\ \A i \in 1..Len(new), kind \in Kinds :
                  new[i] = <<"build", kind>> =>
                    /\ backend.cache[kind] = NoValue
                    /\ i = 1 \/ (i = 2 /\ kind = "realization"
                                   /\ new[1] \in {<<"backend", "classes">>, <<"build", "classes">>})
             /\ stack[t][1][1] # "build"
             /\ stack[t][1] = <<"backend", "classes">> => new = <<<<"build", "classes">>>>
    PROVE  Working(t)' /\ lock.owner = t
<1> DEFINE s == stack[t]
           r == stack'[t]
<1>1. /\ s \in Seq(AllSteps)
      /\ lock.owner = t /\ Working(t)
      /\ (lock.depth = 1 /\ OneLock(s)) \/ (lock.depth = 2 /\ TwoLocks(s))
  BY Phases
<1>2. new \in Seq(AllSteps)
  BY DEF AllSteps
<1>3. /\ lock.depth = 1 => OneLock(r)
      /\ lock.depth = 2 => TwoLocks(r)
  <2>1. ASSUME OneLock(s) PROVE OneLock(r)
    BY <1>1, <2>1, OneLockKept
  <2>2. ASSUME TwoLocks(s) PROVE TwoLocks(r)
    BY <1>1, <2>2, TwoLocksKept
  <2> HIDE DEF s, r
  <2> QED
    BY <1>1, <2>1, <2>2
<1>4. ASSUME NEW uses, NEW by, Supplied(s, uses, by), r = Tail(s), s[1] \notin by
      PROVE  Supplied(r, uses, by)
  BY <1>1, <1>4, SuppliedTail
<1>5. ASSUME NEW uses, NEW by, Supplied(s, uses, by), Supplied(new, uses, by), r = new \o Tail(s),
             s[1] \in by => \E j \in 1..Len(new) : new[j] \in by
      PROVE  Supplied(r, uses, by)
  BY <1>1, <1>2, <1>5, SuppliedPush
<1>6. ASSUME NEW kind \in Kinds, got'[t][kind] = NoValue
      PROVE  Supplied(r, UsesGot(t, kind), Fills(kind))
  <2>1. Supplied(s, UsesGot(t, kind), Fills(kind))
    BY <1>1, <1>6 DEF Working, Ready
  <2>2. CASE r = Tail(s)
    BY <1>4, <1>6, <2>1, <2>2
  <2>3. CASE r # Tail(s)
    BY <1>5, <2>1, <2>3
  <2> QED
    BY <2>2, <2>3
<1>7. ASSUME NEW kind \in Kinds, raw'[kind] = NoValue
      PROVE  Supplied(r, UsesRaw(kind), Stores(kind))
  <2>1. Supplied(s, UsesRaw(kind), Stores(kind))
    BY <1>1, <1>7 DEF Working, Ready
  <2>2. CASE r = Tail(s)
    BY <1>4, <1>7, <2>1, <2>2
  <2>3. CASE r # Tail(s)
    BY <1>5, <2>1, <2>3
  <2> QED
    BY <2>2, <2>3
<1>10. ASSUME r # Tail(s), \A i \in 1..Len(new) : new[i] \in InnerSteps
       PROVE  /\ Supplied(new, UsesFlag(t), {<<"verdict">>})
              /\ Supplied(new, {<<"reply">>}, {<<"fresh">>})
              /\ Supplied(new, {<<"verdict">>}, {})
  <2>1. ASSUME NEW i \in 1..Len(new) PROVE new[i] # <<"reply">> /\ new[i] # <<"verdict">> /\ new[i] # <<"fresh">>
    BY <1>2, <1>10, <2>1, StepByName
  <2> QED
    BY <2>1 DEF Supplied, UsesFlag
<1>11. \A i \in 1..Len(new) : new[i] \in InnerSteps
  OBVIOUS
<1>12. flag'[t] \in Verdicts \/ Supplied(r, UsesFlag(t), {<<"verdict">>})
  <2>1. CASE s[1] = <<"verdict">>
    BY <2>1
  <2>2. CASE s[1] # <<"verdict">> /\ flag[t] \in Verdicts
    BY <2>2
  <2>3. CASE s[1] # <<"verdict">> /\ flag[t] \notin Verdicts
    <3>1. Supplied(s, UsesFlag(t), {<<"verdict">>})
      BY <1>1, <2>3 DEF Working, Ready
    <3>2. CASE r = Tail(s)
      BY <1>4, <2>3, <3>1, <3>2
    <3>3. CASE r # Tail(s)
      BY <1>5, <1>10, <1>11, <2>3, <3>1, <3>3
    <3> QED
      BY <3>2, <3>3
  <2> QED
    BY <2>1, <2>2, <2>3
<1>13. FreshPasses(t) \/ Supplied(r, {<<"reply">>}, {<<"fresh">>})
  <2>1. CASE ~FreshPasses(t)
    <3>1. Supplied(s, {<<"reply">>}, {<<"fresh">>})
      BY <1>1, <2>1 DEF Working, Ready
    <3>2. CASE r = Tail(s)
      BY <1>4, <2>1, <3>1, <3>2
    <3>3. CASE r # Tail(s)
      BY <1>5, <1>10, <1>11, <3>1, <3>3
    <3> QED
      BY <3>2, <3>3
  <2> QED
    BY <2>1
<1>14. ASSUME request[t].method = "inspect"
       PROVE  flag'[t] = flag[t] /\ ~flag[t] /\ Supplied(r, {<<"verdict">>}, {})
  <2>1. ~flag[t] /\ Supplied(s, {<<"verdict">>}, {})
    BY <1>1, <1>14 DEF Working, Ready
  <2>2. 1 \in 1..Len(s)
    BY <1>1
  <2>3. s[1] # <<"verdict">>
    BY <2>1, <2>2 DEF Supplied
  <2>4. CASE r = Tail(s)
    BY <1>4, <2>1, <2>3, <2>4
  <2>5. CASE r # Tail(s)
    BY <1>5, <1>10, <1>11, <2>1, <2>3, <2>5
  <2> QED
    BY <2>1, <2>3, <2>4, <2>5
<1>15. Ready(t)'
  <2>1. /\ \A kind \in Kinds : UsesGot(t, kind)' = UsesGot(t, kind)
        /\ UsesFlag(t)' = UsesFlag(t) /\ Verdicts' = Verdicts /\ FreshPasses(t)' = FreshPasses(t)
        /\ request'[t] = request[t]
    BY DEF UsesGot, UsesFlag, Verdicts, FreshPasses
  <2>2. \A kind \in Kinds :
          /\ got'[t][kind] # NoValue \/ Supplied(r, UsesGot(t, kind)', Fills(kind))
          /\ raw'[kind] # NoValue \/ Supplied(r, UsesRaw(kind), Stores(kind))
    BY <1>6, <1>7, <2>1
  <2>3. flag'[t] \in Verdicts' \/ Supplied(r, UsesFlag(t)', {<<"verdict">>})
    BY <1>12, <2>1
  <2>4. FreshPasses(t)' \/ Supplied(r, {<<"reply">>}, {<<"fresh">>})
    BY <1>13, <2>1
  <2>5. request'[t].method = "inspect" => ~flag'[t] /\ Supplied(r, {<<"verdict">>}, {})
    BY <1>14, <2>1
  <2> QED
    BY <2>2, <2>3, <2>4, <2>5 DEF Ready
<1>16. BuildsOnce(t)'
  <2> SUFFICES ASSUME NEW i \in 1..Len(r), NEW kind \in Kinds, r[i] = <<"build", kind>>
               PROVE  /\ backend'.cache[kind] = NoValue
                      /\ i = 1 \/ (i = 2 /\ kind = "realization"
                                     /\ r[1] \in {<<"backend", "classes">>, <<"build", "classes">>})
    BY DEF BuildsOnce
  <2>1. \A j \in 1..Len(s) : s[j] = <<"build", kind>> =>
            /\ backend.cache[kind] = NoValue
            /\ j = 1 \/ (j = 2 /\ kind = "realization"
                           /\ s[1] \in {<<"backend", "classes">>, <<"build", "classes">>})
    BY <1>1 DEF Working, BuildsOnce
  <2>2. CASE r = Tail(s)
    <3>1. i + 1 \in 1..Len(s) /\ s[i + 1] = <<"build", kind>>
      BY <1>1, <2>2
    <3>2. i = 1 /\ kind = "realization" /\ s[1] \in {<<"backend", "classes">>, <<"build", "classes">>}
      BY <2>1, <3>1
    <3>3. s[1] # <<"build", kind>>
      BY <3>2
    <3> QED
      BY <2>1, <3>1, <3>2, <3>3
  <2>3. CASE r # Tail(s)
    <3>1. /\ Len(new) \in Nat /\ Len(s) \in Nat /\ Len(s) >= 1
          /\ Len(r) = Len(new) + Len(s) - 1
          /\ \A n \in 1..Len(new) : r[n] = new[n]
          /\ \A n \in 2..Len(s) : r[Len(new) + n - 1] = s[n]
      <4>1. r = new \o Tail(s)
        BY <2>3
      <4> HIDE DEF r
      <4> QED
        BY <1>1, <1>2, <4>1
    <3>2. s[1] # <<"build", kind>> /\ s[1][1] # "build"
      BY <2>3
    <3>3. CASE i <= Len(new)
      <4>1. new[i] = <<"build", kind>> /\ r[1] = new[1]
        BY <3>1, <3>3
      <4> QED
        BY <2>3, <3>1, <3>2, <3>3, <4>1
    <3>4. CASE i > Len(new)
      <4>1. i - Len(new) + 1 \in 2..Len(s) /\ s[i - Len(new) + 1] = <<"build", kind>>
        BY <3>1, <3>4
      <4>2. i - Len(new) + 1 = 2 /\ kind = "realization" /\ s[1] = <<"backend", "classes">>
        BY SMTT(30), <2>1, <3>2, <4>1
      <4>3. new = <<<<"build", "classes">>>>
        BY <2>3, <4>2
      <4>4. Len(new) = 1 /\ new[1] = <<"build", "classes">>
        BY <4>3
      <4>5. i = 2 /\ r[1] = <<"build", "classes">>
        BY <3>1, <4>2, <4>4
      <4>6. backend.cache[kind] = NoValue
        BY <2>1, <4>1
      <4> QED
        BY <3>2, <4>2, <4>5, <4>6
    <3> QED
      BY <3>1, <3>3, <3>4
  <2> QED
    BY <2>2, <2>3
<1> QED
  BY <1>1, <1>3, <1>15, <1>16 DEF Working

\* Taking or leaving the inner lock does not change what the remaining steps need.
LEMMA WorkPastLock ==
    ASSUME FacadeInv, NEW t \in Threads, Working(t), stack[t] # <<>>,
           stack[t][1] \in {<<"lock">>, Unlock}, stack'[t] = Tail(stack[t]),
           UNCHANGED <<request, setting, flag, got, raw, backend>>
    PROVE  Ready(t)' /\ BuildsOnce(t)'
<1> DEFINE s == stack[t]
           r == stack'[t]
<1>1. s \in Seq(AllSteps)
  BY DEF FacadeInv, FacadeTypeOK
<1>2. \A kind \in Kinds : s[1] \notin Fills(kind) /\ s[1] \notin Stores(kind)
  BY DEF Fills, Stores, Unlock
<1>3. s[1] # <<"verdict">> /\ s[1] # <<"fresh">>
  BY DEF Unlock
<1>4. ASSUME NEW uses, NEW by, Supplied(s, uses, by), s[1] \notin by
      PROVE  Supplied(r, uses, by)
  BY <1>1, <1>4, SuppliedTail
<1>5. Ready(t)'
  <2>1. /\ \A kind \in Kinds : UsesGot(t, kind)' = UsesGot(t, kind)
        /\ UsesFlag(t)' = UsesFlag(t) /\ Verdicts' = Verdicts /\ FreshPasses(t)' = FreshPasses(t)
        /\ request'[t] = request[t] /\ got'[t] = got[t] /\ flag'[t] = flag[t] /\ raw' = raw
    BY DEF UsesGot, UsesFlag, Verdicts, FreshPasses
  <2>2. \A kind \in Kinds :
          /\ got'[t][kind] # NoValue \/ Supplied(r, UsesGot(t, kind)', Fills(kind))
          /\ raw'[kind] # NoValue \/ Supplied(r, UsesRaw(kind), Stores(kind))
    BY <1>2, <1>4, <2>1 DEF Working, Ready
  <2>3. flag'[t] \in Verdicts' \/ Supplied(r, UsesFlag(t)', {<<"verdict">>})
    BY <1>3, <1>4, <2>1 DEF Working, Ready
  <2>4. FreshPasses(t)' \/ Supplied(r, {<<"reply">>}, {<<"fresh">>})
    BY <1>3, <1>4, <2>1 DEF Working, Ready
  <2>5. request'[t].method = "inspect" => ~flag'[t] /\ Supplied(r, {<<"verdict">>}, {})
    BY <1>4, <2>1 DEF Working, Ready
  <2> QED
    BY <2>2, <2>3, <2>4, <2>5 DEF Ready
<1>6. BuildsOnce(t)'
  <2> SUFFICES ASSUME NEW i \in 1..Len(r), NEW kind \in Kinds, r[i] = <<"build", kind>>
               PROVE  FALSE
    BY DEF BuildsOnce
  <2>1. i + 1 \in 1..Len(s) /\ s[i + 1] = <<"build", kind>>
    BY <1>1
  <2>2. s[1] \in {<<"backend", "classes">>, <<"build", "classes">>}
    BY <2>1 DEF Working, BuildsOnce
  <2> QED
    BY <2>2 DEF Unlock
<1> QED
  BY <1>5, <1>6

\* The phase of a thread depends on its own data and on the shared state.
LEMMA PhaseKept ==
    ASSUME NEW u \in Threads, request'[u] = request[u], stack'[u] = stack[u], flag'[u] = flag[u],
           got'[u] = got[u], reply'[u] = reply[u], UNCHANGED <<lock, setting, closed, raw, backend>>
    PROVE  /\ Working(u) => Working(u)'
           /\ Closing(u) => Closing(u)'
           /\ Returning(u) => Returning(u)'
           /\ Outside(u) => Outside(u)'
<1>1. Working(u) => Working(u)'
  <2>1. /\ \A kind \in Kinds : UsesGot(u, kind)' = UsesGot(u, kind)
        /\ UsesFlag(u)' = UsesFlag(u) /\ Verdicts' = Verdicts /\ FreshPasses(u)' = FreshPasses(u)
    BY DEF UsesGot, UsesFlag, Verdicts, FreshPasses
  <2>2. Ready(u) => Ready(u)'
    BY <2>1 DEF Ready
  <2>3. BuildsOnce(u) => BuildsOnce(u)'
    BY DEF BuildsOnce
  <2> QED
    BY <2>2, <2>3 DEF Working
<1>2. Closing(u) => Closing(u)'
  BY DEF Closing
<1>3. Returning(u) => Returning(u)'
  BY DEF Returning
<1>4. Outside(u) => Outside(u)'
  BY DEF Outside
<1> QED
  BY <1>1, <1>2, <1>3, <1>4

\* The threads without the lock do not see what its owner does.
LEMMA OthersKept ==
    ASSUME FacadeInv, NEW t \in Threads, lock.owner \in {t, NoThread}, lock'.owner = t,
           \A u \in Threads \ {t} :
             /\ request'[u] = request[u] /\ stack'[u] = stack[u] /\ flag'[u] = flag[u]
             /\ got'[u] = got[u] /\ reply'[u] = reply[u],
           request'[t] \in Requests,
           Working(t)' \/ Closing(t)' \/ Returning(t)'
    PROVE  LockIsKept'
<1>1. NoThread \notin Threads
  BY MarkersAssumption
<1>2. \A u \in Threads \ {t} : Outside(u)
  BY <1>1 DEF FacadeInv, LockIsKept
<1>3. \A u \in Threads \ {t} : Outside(u)'
  BY <1>2 DEF Outside
<1> QED
  BY <1>1, <1>3 DEF LockIsKept

\* One thread's steps are replaced.
LEMMA StackChanged ==
    ASSUME FacadeInv, NEW t \in Threads, NEW r, stack' = [stack EXCEPT ![t] = r]
    PROVE  /\ stack'[t] = r
           /\ \A u \in Threads \ {t} : stack'[u] = stack[u]
           /\ r \in Seq(AllSteps) => stack' \in [Threads -> Seq(AllSteps)]
  BY DEF FacadeInv, FacadeTypeOK

\* What the threads share is kept.
LEMMA SharedKept ==
    ASSUME FacadeInv, FacadeTypeOK', LockIsKept', UNCHANGED <<setting, closed, raw, public>>,
           backend'.cache = backend.cache, backend'.closed = backend.closed,
           backend'.closes = backend.closes, backend'.verdict \in Verdicts \cup {NoValue},
           \A u \in Threads, kind \in Kinds : got'[u][kind] \in {NoValue, backend.cache[kind]}
    PROVE  FacadeInv'
<1>1. Verdicts' = Verdicts
  BY DEF Verdicts
<1>2. ValuesAreBuilt'
  <2>1. \A kind \in Kinds : backend'.cache[kind] = backend.cache[kind]
    OBVIOUS
  <2>2. \A kind \in Kinds : backend.cache[kind] # NoValue =>
            backend.cache[kind].shape \in {Shape(v) : v \in Verdicts}
    BY DEF FacadeInv, ValuesAreBuilt
  <2> QED
    BY <1>1, <2>1, <2>2 DEF ValuesAreBuilt
<1>3. ClosedTogether'
  BY DEF FacadeInv, ClosedTogether
<1>4. CachesAgree'
  BY DEF FacadeInv, CachesAgree
<1>5. (backend.closes = (IF closed THEN 1 ELSE 0))'
  BY DEF FacadeInv
<1> QED
  BY <1>2, <1>3, <1>4, <1>5 DEF FacadeInv

\* The end of a locked method.
LEMMA LockedTail ==
    ASSUME NEW b \in Seq(AllSteps)
    PROVE  /\ Locked(b) \in Seq(AllSteps)
           /\ Locked(b) # <<>>
           /\ Locked(b)[1] = <<"lock">>
           /\ Tail(Locked(b)) = b \o <<Unlock>>
           /\ b \o <<Unlock>> \in Seq(AllSteps)
           /\ Len(b \o <<Unlock>>) = Len(b) + 1
           /\ \A i \in 1..Len(b) : (b \o <<Unlock>>)[i] = b[i]
           /\ (b \o <<Unlock>>)[Len(b) + 1] = Unlock
<1>1. Unlock \in AllSteps /\ <<"lock">> \in AllSteps
  BY DEF Unlock, AllSteps
<1>2. <<Unlock>> \in Seq(AllSteps) /\ <<<<"lock">>>> \in Seq(AllSteps)
  BY <1>1
<1> DEFINE c == b \o <<Unlock>>
<1>3. /\ c \in Seq(AllSteps) /\ Len(c) = Len(b) + 1
      /\ \A i \in 1..Len(b) : c[i] = b[i]
      /\ c[Len(b) + 1] = Unlock
  BY <1>2
<1>4. Locked(b) = <<<<"lock">>>> \o c
  BY <1>2 DEF Locked, Unlock
<1> HIDE DEF c
<1> DEFINE l == <<<<"lock">>>> \o c
<1>5. l \in Seq(AllSteps) /\ l # <<>> /\ l[1] = <<"lock">> /\ Len(l) = Len(c) + 1
  BY <1>2, <1>3
<1>6. \A i \in 1..Len(c) : l[i + 1] = c[i]
  BY <1>2, <1>3
<1> HIDE DEF l
<1>7. Tail(l) = c
  <2>1. /\ Tail(l) \in Seq(AllSteps) /\ Len(Tail(l)) = Len(c)
        /\ \A i \in 1..Len(Tail(l)) : Tail(l)[i] = l[i + 1]
    BY <1>3, <1>5, HeadTailProperties
  <2> QED
    BY <1>3, <1>6, <2>1, SeqEqual
<1> QED
  BY <1>3, <1>4, <1>5, <1>7 DEF c, l

\* One step, then the release of the lock.
LEMMA StepThenUnlock ==
    ASSUME NEW x \in AllSteps
    PROVE  <<x>> \o <<Unlock>> = <<x, Unlock>> /\ <<x, Unlock>> \in Seq(AllSteps)
<1>1. <<x>> \in Seq(AllSteps) /\ Len(<<x>>) = 1 /\ <<x>>[1] = x
  OBVIOUS
<1> DEFINE b == <<x>>
           c == b \o <<Unlock>>
<1>2. ASSUME NEW d \in Seq(AllSteps), Len(d) = 1
      PROVE  /\ d \o <<Unlock>> \in Seq(AllSteps) /\ Len(d \o <<Unlock>>) = 2
             /\ (d \o <<Unlock>>)[1] = d[1] /\ (d \o <<Unlock>>)[2] = Unlock
  <2> DEFINE e == d \o <<Unlock>>
  <2>1. /\ e \in Seq(AllSteps) /\ Len(e) = Len(d) + 1
        /\ \A i \in 1..Len(d) : e[i] = d[i]
        /\ e[Len(d) + 1] = Unlock
    BY <1>2, LockedTail
  <2> HIDE DEF e
  <2>2. e \in Seq(AllSteps) /\ Len(e) = 2 /\ e[1] = d[1] /\ e[2] = Unlock
    BY <1>2, <2>1
  <2> QED
    BY <2>2 DEF e
<1>3. b \in Seq(AllSteps) /\ Len(b) = 1 /\ b[1] = x
  BY <1>1
<1> HIDE DEF b
<1>4. c \in Seq(AllSteps) /\ Len(c) = 2 /\ c[1] = x /\ c[2] = Unlock
  BY <1>2, <1>3
<1> HIDE DEF c
<1>5. c = <<x, Unlock>>
  BY <1>4, Short
<1> QED
  BY <1>4, <1>5 DEF b, c

\* The steps of every method are supplied with what they need, in order.
LEMMA BodyIsReady ==
    ASSUME NEW t \in Threads, request[t] \in Requests, request[t].method # "close"
    PROVE  LET r == Body(request[t].method) \o <<Unlock>>
           IN  /\ OneLock(r) \/ Entering(r)
               /\ \A kind \in Kinds :
                    Supplied(r, UsesGot(t, kind), Fills(kind)) /\ Supplied(r, UsesRaw(kind), Stores(kind))
               /\ Supplied(r, UsesFlag(t), {<<"verdict">>})
               /\ FreshPasses(t) \/ Supplied(r, {<<"reply">>}, {<<"fresh">>})
               /\ request[t].method = "inspect" => Supplied(r, {<<"verdict">>}, {})
               /\ \A i \in 1..Len(r), kind \in Kinds : r[i] # <<"build", kind>>
<1> DEFINE m == request[t].method
           r == Body(m) \o <<Unlock>>
<1>1. m \in Methods /\ request[t].fresh \in BOOLEAN /\ (request[t].fresh => m \in Queries)
  BY RequestsAssumption
<1>2. ASSUME m \notin Queries PROVE FreshPasses(t)
  BY <1>1, <1>2 DEF FreshPasses
<1>3. CASE m = "consistency"
  <2>1. Body(m) = <<<<"verdict">>, <<"reply">>>> /\ KindOf(m) = "none" /\ m \notin Queries
    BY <1>3, Bodies DEF KindOf, Queries
  <2>2. <<<<"verdict">>, <<"reply">>>> \in Seq(AllSteps)
    BY DEF AllSteps, InnerSteps
  <2>3. Len(r) = 3 /\ r[1] = <<"verdict">> /\ r[2] = <<"reply">> /\ r[3] = Unlock
    BY <2>1, <2>2, LockedTail
  <2> HIDE DEF r
  <2>4. OneLock(r)
    <3>1. Inner(r, 1) /\ EndsWith(r, 1)
      BY <2>3 DEF Inner, EndsWith, InnerSteps
    <3> QED
      BY <2>3, <3>1 DEF OneLock
  <2>5. \A kind \in Kinds :
          Supplied(r, UsesGot(t, kind), Fills(kind)) /\ Supplied(r, UsesRaw(kind), Stores(kind))
    BY <2>1, <2>3 DEF Supplied, UsesGot, UsesRaw, Fills, Stores, Unlock, Kinds
  <2>6. Supplied(r, UsesFlag(t), {<<"verdict">>})
    BY <1>3, <2>3 DEF Supplied, UsesFlag, Unlock
  <2>7. \A i \in 1..Len(r), kind \in Kinds : r[i] # <<"build", kind>>
    BY <2>3 DEF Unlock
  <2> QED
    BY <1>2, <1>3, <2>1, <2>4, <2>5, <2>6, <2>7 DEF r
<1>4. CASE m \in Tasks \ {"consistency"}
  <2>1. PICK k \in Kinds : KindOf(m) = k /\ Body(m) = <<<<"verdict">>, <<"public", k>>, <<"reply">>>>
    BY <1>4, Bodies
  <2>2. <<<<"verdict">>, <<"public", k>>, <<"reply">>>> \in Seq(AllSteps)
    BY DEF AllSteps, InnerSteps
  <2>3. Len(r) = 4 /\ r[1] = <<"verdict">> /\ r[2] = <<"public", k>> /\ r[3] = <<"reply">> /\ r[4] = Unlock
    BY <2>1, <2>2, LockedTail
  <2>8. m \notin Queries /\ m # "inspect"
    BY <1>4 DEF Queries, Tasks
  <2> HIDE DEF r
  <2>4. OneLock(r)
    <3>1. Inner(r, 2) /\ EndsWith(r, 2)
      BY <2>3 DEF Inner, EndsWith, InnerSteps
    <3> QED
      BY <2>3, <3>1 DEF OneLock
  <2>5. \A kind \in Kinds :
          Supplied(r, UsesGot(t, kind), Fills(kind)) /\ Supplied(r, UsesRaw(kind), Stores(kind))
    BY <2>1, <2>3 DEF Supplied, UsesGot, UsesRaw, Fills, Stores, Unlock, Kinds
  <2>6. Supplied(r, UsesFlag(t), {<<"verdict">>})
    BY <2>3 DEF Supplied, UsesFlag, Unlock
  <2>7. \A i \in 1..Len(r), kind \in Kinds : r[i] # <<"build", kind>>
    BY <2>3 DEF Unlock
  <2> QED
    BY <1>2, <2>4, <2>5, <2>6, <2>7, <2>8 DEF r
<1>5. CASE m = "class_query"
  <2>1. Body(m) = ClassQuerySteps /\ KindOf(m) = "none"
    BY <1>5, Bodies DEF KindOf
  <2>2. ClassQuerySteps \in Seq(AllSteps)
    BY DEF AllSteps, InnerSteps, ClassQuerySteps
  <2>3. /\ Len(r) = 5 /\ r[1] = <<"verdict">> /\ r[2] = <<"fresh">> /\ r[3] = <<"query">>
        /\ r[4] = <<"reply">> /\ r[5] = Unlock
    BY <2>1, <2>2, LockedTail DEF ClassQuerySteps
  <2> HIDE DEF r
  <2>4. OneLock(r)
    <3>1. Inner(r, 3) /\ EndsWith(r, 3)
      BY <2>3 DEF Inner, EndsWith, InnerSteps
    <3> QED
      BY <2>3, <3>1 DEF OneLock
  <2>5. \A kind \in Kinds :
          Supplied(r, UsesGot(t, kind), Fills(kind)) /\ Supplied(r, UsesRaw(kind), Stores(kind))
    BY <2>1, <2>3 DEF Supplied, UsesGot, UsesRaw, Fills, Stores, Unlock, Kinds
  <2>6. Supplied(r, UsesFlag(t), {<<"verdict">>}) /\ Supplied(r, {<<"reply">>}, {<<"fresh">>})
    BY <1>5, <2>3 DEF Supplied, UsesFlag, Unlock
  <2>7. \A i \in 1..Len(r), kind \in Kinds : r[i] # <<"build", kind>>
    BY <2>3 DEF Unlock
  <2> QED
    BY <1>5, <2>4, <2>5, <2>6, <2>7 DEF r
<1>6. CASE m = "types"
  <2>1. Body(m) = TypesSteps /\ KindOf(m) = "realization"
    BY <1>6, Bodies DEF KindOf
  <2>2. TypesSteps \in Seq(AllSteps)
    BY DEF AllSteps, InnerSteps, TypesSteps, Kinds
  <2>3. /\ Len(r) = 5 /\ r[1] = <<"verdict">> /\ r[2] = <<"fresh">> /\ r[3] = <<"raw", "realization">>
        /\ r[4] = <<"reply">> /\ r[5] = Unlock
    BY <2>1, <2>2, LockedTail DEF TypesSteps
  <2> HIDE DEF r
  <2>4. OneLock(r)
    <3>1. Inner(r, 3) /\ EndsWith(r, 3)
      BY <2>3 DEF Inner, EndsWith, InnerSteps, Kinds
    <3> QED
      BY <2>3, <3>1 DEF OneLock
  <2>5. \A kind \in Kinds :
          Supplied(r, UsesGot(t, kind), Fills(kind)) /\ Supplied(r, UsesRaw(kind), Stores(kind))
    BY <2>1, <2>3 DEF Supplied, UsesGot, UsesRaw, Fills, Stores, Unlock, Kinds
  <2>6. Supplied(r, UsesFlag(t), {<<"verdict">>}) /\ Supplied(r, {<<"reply">>}, {<<"fresh">>})
    BY <1>6, <2>3 DEF Supplied, UsesFlag, Unlock
  <2>7. \A i \in 1..Len(r), kind \in Kinds : r[i] # <<"build", kind>>
    BY <2>3 DEF Unlock
  <2> QED
    BY <1>6, <2>4, <2>5, <2>6, <2>7 DEF r
<1>7. CASE m = "property_query"
  <2>1. Body(m) = PropertyQuerySteps /\ KindOf(m) = "properties"
    BY <1>7, Bodies DEF KindOf
  <2>2. PropertyQuerySteps \in Seq(AllSteps)
    BY DEF AllSteps, InnerSteps, PropertyQuerySteps, Kinds
  <2>3. /\ Len(r) = 5 /\ r[1] = <<"verdict">> /\ r[2] = <<"raw", "properties">> /\ r[3] = <<"fresh">>
        /\ r[4] = <<"reply">> /\ r[5] = Unlock
    BY <2>1, <2>2, LockedTail DEF PropertyQuerySteps
  <2> HIDE DEF r
  <2>4. OneLock(r)
    <3>1. Inner(r, 3) /\ EndsWith(r, 3)
      BY <2>3 DEF Inner, EndsWith, InnerSteps, Kinds
    <3> QED
      BY <2>3, <3>1 DEF OneLock
  <2>5. \A kind \in Kinds :
          Supplied(r, UsesGot(t, kind), Fills(kind)) /\ Supplied(r, UsesRaw(kind), Stores(kind))
    BY <2>1, <2>3 DEF Supplied, UsesGot, UsesRaw, Fills, Stores, Unlock, Kinds
  <2>6. Supplied(r, UsesFlag(t), {<<"verdict">>}) /\ Supplied(r, {<<"reply">>}, {<<"fresh">>})
    BY <1>7, <2>3 DEF Supplied, UsesFlag, Unlock
  <2>7. \A i \in 1..Len(r), kind \in Kinds : r[i] # <<"build", kind>>
    BY <2>3 DEF Unlock
  <2> QED
    BY <1>7, <2>4, <2>5, <2>6, <2>7 DEF r
<1>8. CASE m = "equivalent_property"
  <2>1. Body(m) = EquivalentPropertySteps /\ KindOf(m) = "properties"
    BY <1>8, Bodies DEF KindOf
  <2>2. EquivalentPropertySteps \in Seq(AllSteps)
    BY DEF AllSteps, InnerSteps, EquivalentPropertySteps, Kinds
  <2>3. /\ Len(r) = 7 /\ r[1] = <<"lock">> /\ r[2] = <<"verdict">> /\ r[3] = <<"raw", "properties">>
        /\ r[4] = <<"fresh">> /\ r[5] = Unlock /\ r[6] = <<"reply">> /\ r[7] = Unlock
    BY <2>1, <2>2, LockedTail DEF EquivalentPropertySteps, Unlock
  <2>4. Entering(r)
    BY <2>1 DEF Entering
  <2> HIDE DEF r
  <2>5. \A kind \in Kinds :
          Supplied(r, UsesGot(t, kind), Fills(kind)) /\ Supplied(r, UsesRaw(kind), Stores(kind))
    BY <2>1, <2>3 DEF Supplied, UsesGot, UsesRaw, Fills, Stores, Unlock, Kinds
  <2>6. Supplied(r, UsesFlag(t), {<<"verdict">>}) /\ Supplied(r, {<<"reply">>}, {<<"fresh">>})
    BY <1>8, <2>3 DEF Supplied, UsesFlag, Unlock
  <2>7. \A i \in 1..Len(r), kind \in Kinds : r[i] # <<"build", kind>>
    BY <2>3 DEF Unlock
  <2> QED
    BY <1>8, <2>4, <2>5, <2>6, <2>7 DEF r
<1>9. CASE m = "entailed"
  <2>1. Body(m) = EntailmentSteps /\ KindOf(m) = "none"
    BY <1>9, Bodies DEF KindOf
  <2>2. EntailmentSteps \in Seq(AllSteps)
    BY DEF AllSteps, InnerSteps, EntailmentSteps
  <2>3. /\ Len(r) = 5 /\ r[1] = <<"fresh">> /\ r[2] = <<"entails">> /\ r[3] = <<"verdict">>
        /\ r[4] = <<"reply">> /\ r[5] = Unlock
    BY <2>1, <2>2, LockedTail DEF EntailmentSteps
  <2> HIDE DEF r
  <2>4. OneLock(r)
    <3>1. Inner(r, 3) /\ EndsWith(r, 3)
      BY <2>3 DEF Inner, EndsWith, InnerSteps
    <3> QED
      BY <2>3, <3>1 DEF OneLock
  <2>5. \A kind \in Kinds :
          Supplied(r, UsesGot(t, kind), Fills(kind)) /\ Supplied(r, UsesRaw(kind), Stores(kind))
    BY <2>1, <2>3 DEF Supplied, UsesGot, UsesRaw, Fills, Stores, Unlock, Kinds
  <2>6. Supplied(r, UsesFlag(t), {<<"verdict">>}) /\ Supplied(r, {<<"reply">>}, {<<"fresh">>})
    BY <1>9, <2>3 DEF Supplied, UsesFlag, Unlock
  <2>7. \A i \in 1..Len(r), kind \in Kinds : r[i] # <<"build", kind>>
    BY <2>3 DEF Unlock
  <2> QED
    BY <1>9, <2>4, <2>5, <2>6, <2>7 DEF r
<1>10. CASE m = "inspect"
  <2>1. Body(m) = InspectionSteps /\ KindOf(m) = "none" /\ m \notin Queries
    BY <1>10, Bodies DEF KindOf, Queries
  <2>2. InspectionSteps \in Seq(AllSteps)
    BY DEF AllSteps, InnerSteps, InspectionSteps
  <2>3. Len(r) = 3 /\ r[1] = <<"inspect">> /\ r[2] = <<"reply">> /\ r[3] = Unlock
    BY <2>1, <2>2, LockedTail DEF InspectionSteps
  <2> HIDE DEF r
  <2>4. OneLock(r)
    <3>1. Inner(r, 1) /\ EndsWith(r, 1)
      BY <2>3 DEF Inner, EndsWith, InnerSteps
    <3> QED
      BY <2>3, <3>1 DEF OneLock
  <2>5. \A kind \in Kinds :
          Supplied(r, UsesGot(t, kind), Fills(kind)) /\ Supplied(r, UsesRaw(kind), Stores(kind))
    BY <2>1, <2>3 DEF Supplied, UsesGot, UsesRaw, Fills, Stores, Unlock, Kinds
  <2>6. Supplied(r, UsesFlag(t), {<<"verdict">>}) /\ Supplied(r, {<<"verdict">>}, {})
    BY <1>10, <2>3 DEF Supplied, UsesFlag, Unlock
  <2>7. \A i \in 1..Len(r), kind \in Kinds : r[i] # <<"build", kind>>
    BY <2>3 DEF Unlock
  <2> QED
    BY <1>2, <2>1, <2>4, <2>5, <2>6, <2>7 DEF r
<1> QED
  BY <1>1, <1>3, <1>4, <1>5, <1>6, <1>7, <1>8, <1>9, <1>10 DEF Methods, Queries

\* Where the invariant puts the values: verdicts of the setting, caches of the session.
LEMMA Reached ==
    ASSUME FacadeInv
    PROVE  /\ Verdicts \subseteq BOOLEAN
           /\ Ensured \in Verdicts
           /\ \A kind \in Kinds : AfterRun(kind) \subseteq Verdicts
           /\ backend.verdict \in Verdicts \cup {NoValue}
           /\ \A u \in Threads, kind \in Kinds : got[u][kind] \in {NoValue, backend.cache[kind]}
<1>1. setting.inconsistent \in BOOLEAN /\ setting.ranges \in BOOLEAN
  BY SettingsAssumption DEF FacadeInv, FacadeTypeOK
<1>2. backend.verdict \in Verdicts \cup {NoValue}
  BY DEF FacadeInv, ValuesAreBuilt
<1>3. setting.inconsistent \in Verdicts /\ (setting.ranges => TRUE \in Verdicts)
  BY DEF Verdicts
<1>4. Verdicts \subseteq BOOLEAN
  BY <1>1 DEF Verdicts
<1>5. Ensured \in Verdicts
  BY <1>2, <1>3 DEF Ensured
<1> QED
  BY <1>2, <1>3, <1>4, <1>5 DEF AfterRun, FacadeInv, ValuesAreBuilt

\* A call keeps the invariant: its thread waits for the lock.
LEMMA CallStep ==
    ASSUME FacadeInv, NEW t \in Threads, NEW r \in Requests, Call(t, r)
    PROVE  FacadeInv'
<1>1. NoRequest \notin Requests /\ NoThread \notin Threads
  BY MarkersAssumption
<1>2. lock.owner # t /\ Outside(t)
  BY <1>1 DEF Call, FacadeInv, LockIsKept
<1>3. /\ request'[t] = r /\ request' \in [Threads -> Requests \cup {NoRequest}]
      /\ \A u \in Threads \ {t} : request'[u] = request[u]
  BY DEF Call, FacadeInv, FacadeTypeOK
<1>4. Locked(Body(r.method)) \in Seq(AllSteps)
  <2>1. Body(r.method) \in Seq(AllSteps)
    BY BodyTyped
  <2> QED
    BY <2>1, LockedTail
<1>5. /\ stack'[t] = Locked(Body(r.method)) /\ stack' \in [Threads -> Seq(AllSteps)]
      /\ \A u \in Threads \ {t} : stack'[u] = stack[u]
  BY <1>4, StackChanged DEF Call
<1>6. UNCHANGED <<setting, lock, flag, got, reply, closed, raw, public, backend, failures>>
  BY DEF Call, caches
<1>7. FacadeTypeOK'
  <2>1. calls' \in Nat
    BY DEF Call, FacadeInv, FacadeTypeOK
  <2> QED
    BY <1>3, <1>5, <1>6, <2>1 DEF FacadeInv, FacadeTypeOK
<1>8. LockIsKept'
  <2>1. Outside(t)'
    BY <1>2, <1>3, <1>5, <1>6 DEF Outside
  <2>2. ASSUME NEW u \in Threads, u # t
        PROVE  IF lock'.owner = u
               THEN request'[u] \in Requests /\ (Working(u)' \/ Closing(u)' \/ Returning(u)')
               ELSE Outside(u)'
    <3>1. IF lock.owner = u
          THEN request[u] \in Requests /\ (Working(u) \/ Closing(u) \/ Returning(u))
          ELSE Outside(u)
      BY DEF FacadeInv, LockIsKept
    <3>2. /\ request'[u] = request[u] /\ stack'[u] = stack[u] /\ flag'[u] = flag[u]
          /\ got'[u] = got[u] /\ reply'[u] = reply[u]
      BY <1>3, <1>5, <1>6, <2>2
    <3>3. /\ Working(u) => Working(u)'
          /\ Closing(u) => Closing(u)'
          /\ Returning(u) => Returning(u)'
          /\ Outside(u) => Outside(u)'
      BY <1>6, <3>2, PhaseKept
    <3>4. lock' = lock
      BY <1>6
    <3> QED
      BY <3>1, <3>2, <3>3, <3>4
  <2>3. lock'.owner = NoThread => lock'.depth = 0
    BY <1>6 DEF FacadeInv, LockIsKept
  <2>4. lock'.owner # t
    BY <1>2, <1>6
  <2> QED
    BY <2>1, <2>2, <2>3, <2>4 DEF LockIsKept
<1> QED
  BY <1>6, <1>7, <1>8, Reached, SharedKept

\* Taking the lock, free or already owned, keeps the invariant.
LEMMA AcquireStep ==
    ASSUME FacadeInv, NEW t \in Threads, Acquire(t)
    PROVE  FacadeInv'
<1> DEFINE s == stack[t]
           m == request[t].method
<1>1. /\ s # <<>> /\ s[1][1] = "lock"
      /\ lock.owner \in {NoThread, t}
      /\ lock' = [owner |-> t, depth |-> lock.depth + 1]
      /\ stack' = [stack EXCEPT ![t] = Tail(s)]
      /\ UNCHANGED <<setting, request, flag, got, reply, closed, raw, public, backend, calls, failures>>
  BY DEF Acquire, AtStep, Pop, caches
<1>2. s[1] = <<"lock">> /\ s \in Seq(AllSteps) /\ request[t] \in Requests
  BY <1>1, Phases, StepByName
<1>3. /\ stack'[t] = Tail(s) /\ \A u \in Threads \ {t} : stack'[u] = stack[u]
      /\ stack' \in [Threads -> Seq(AllSteps)] /\ Tail(s) \in Seq(AllSteps)
  <2>1. Tail(s) \in Seq(AllSteps)
    BY <1>1, <1>2, HeadTailProperties
  <2> QED
    BY <1>1, <2>1, StackChanged
<1>4. CASE lock.owner # t
  <2>1. lock.owner = NoThread /\ lock.depth = 0
    BY <1>1, <1>4 DEF FacadeInv, LockIsKept
  <2>2. Outside(t) /\ s = Locked(Body(m))
    BY <1>1, <1>2, <1>4, Phases
  <2>3. lock'.owner = t /\ lock'.depth = 1 /\ lock' \in [owner : Threads \cup {NoThread}, depth : 0..2]
    BY <1>1, <2>1
  <2>4. Tail(s) = Body(m) \o <<Unlock>>
    BY <1>2, <2>2, BodyTyped, LockedTail
  <2>5. FacadeTypeOK'
    BY <1>1, <1>3, <2>3 DEF FacadeInv, FacadeTypeOK
  <2>6. CASE m = "close"
    <3>1. Body(m) = <<<<"close">>>>
      BY <2>6, Bodies
    <3>2. <<<<"close">>>> \o <<Unlock>> = <<<<"close">>, Unlock>>
      <4>1. <<"close">> \in AllSteps
        BY DEF AllSteps
      <4> QED
        BY <4>1, StepThenUnlock
    <3>3. Closing(t)'
      BY <1>1, <1>3, <2>2, <2>3, <2>4, <2>6, <3>1, <3>2 DEF Closing, Outside
    <3>4. LockIsKept'
      BY <1>1, <1>2, <1>3, <2>3, <3>3, OthersKept
    <3> QED
      BY <1>1, <2>5, <3>4, Reached, SharedKept
  <2>7. CASE m # "close"
    <3> DEFINE r == Body(m) \o <<Unlock>>
    <3>1. /\ OneLock(r) \/ Entering(r)
          /\ \A kind \in Kinds :
               Supplied(r, UsesGot(t, kind), Fills(kind)) /\ Supplied(r, UsesRaw(kind), Stores(kind))
          /\ Supplied(r, UsesFlag(t), {<<"verdict">>})
          /\ FreshPasses(t) \/ Supplied(r, {<<"reply">>}, {<<"fresh">>})
          /\ m = "inspect" => Supplied(r, {<<"verdict">>}, {})
          /\ \A i \in 1..Len(r), kind \in Kinds : r[i] # <<"build", kind>>
      BY <1>2, <2>7, BodyIsReady
    <3>2. r = stack'[t]
      BY <1>3, <2>4
    <3> HIDE DEF r
    <3>3. Ready(t)'
      <4>1. /\ \A kind \in Kinds : UsesGot(t, kind)' = UsesGot(t, kind)
            /\ UsesFlag(t)' = UsesFlag(t) /\ Verdicts' = Verdicts /\ FreshPasses(t)' = FreshPasses(t)
            /\ request'[t] = request[t] /\ flag'[t] = FALSE
        BY <1>1, <2>2 DEF UsesGot, UsesFlag, Verdicts, FreshPasses, Outside
      <4> QED
        BY <3>1, <3>2, <4>1 DEF Ready
    <3>4. BuildsOnce(t)'
      BY <3>1, <3>2 DEF BuildsOnce
    <3>5. Working(t)'
      BY <1>1, <2>2, <2>3, <2>7, <3>1, <3>2, <3>3, <3>4 DEF Working, Outside
    <3>6. LockIsKept'
      BY <1>1, <1>2, <1>3, <2>3, <3>5, OthersKept
    <3> QED
      BY <1>1, <2>5, <3>6, Reached, SharedKept
  <2> QED
    BY <2>6, <2>7
<1>5. CASE lock.owner = t
  <2>1. Working(t) /\ lock.depth = 1 /\ Entering(s)
    BY <1>1, <1>2, <1>5, Phases
  <2>2. lock'.owner = t /\ lock'.depth = 2 /\ lock' \in [owner : Threads \cup {NoThread}, depth : 0..2]
    BY <1>1, <2>1
  <2>3. FacadeTypeOK'
    BY <1>1, <1>3, <2>2 DEF FacadeInv, FacadeTypeOK
  <2>4. TwoLocks(Tail(s))
    <3>1. EquivalentPropertySteps \in Seq(AllSteps)
      BY DEF AllSteps, InnerSteps, EquivalentPropertySteps, Kinds
    <3>2. /\ Len(s) = 7 /\ s[2] = <<"verdict">> /\ s[3] = <<"raw", "properties">>
          /\ s[4] = <<"fresh">> /\ s[5] = Unlock /\ s[6] = <<"reply">> /\ s[7] = Unlock
      BY <2>1, <3>1, LockedTail DEF EquivalentPropertySteps, Unlock, Entering
    <3> DEFINE r == Tail(s)
    <3>3. Len(r) = 6 /\ \A i \in 1..6 : r[i] = s[i + 1]
      BY SMTT(30), <1>1, <1>2, <3>2, HeadTailProperties
    <3>4. /\ r[1] = <<"verdict">> /\ r[2] = <<"raw", "properties">>
          /\ r[3] = <<"fresh">> /\ r[4] = Unlock /\ r[5] = <<"reply">> /\ r[6] = Unlock
      BY <3>2, <3>3
    <3> HIDE DEF r
    <3>5. Inner(r, 3) /\ EndsWith(r, 3 + 1) /\ r[3 + 1] = Unlock
      BY <3>3, <3>4 DEF Inner, EndsWith, InnerSteps, Kinds
    <3> QED
      BY <3>3, <3>5 DEF TwoLocks, r
  <2>5. Ready(t)' /\ BuildsOnce(t)'
    BY <1>1, <1>2, <1>3, <2>1, WorkPastLock
  <2>6. Working(t)'
    BY <1>1, <1>3, <2>1, <2>2, <2>4, <2>5 DEF Working
  <2>7. LockIsKept'
    BY <1>1, <1>2, <1>3, <1>5, <2>2, <2>6, OthersKept
  <2> QED
    BY <1>1, <2>3, <2>7, Reached, SharedKept
<1> QED
  BY <1>4, <1>5

\* An exception ends the work of its call.
LEMMA Unwound ==
    ASSUME FacadeInv, NEW t \in Threads, lock.owner = t, request[t] \in Requests,
           NEW e \in {"error", "ReasonerClosedError", "FreshEntityError"}, Unwind(t, e)
    PROVE  /\ stack' \in [Threads -> Seq(AllSteps)]
           /\ reply' \in [Threads -> Replies \cup {NoReply}]
           /\ lock' \in [owner : Threads \cup {NoThread}, depth : 0..2]
           /\ lock'.owner = t
           /\ Returning(t)'
           /\ \A u \in Threads \ {t} : stack'[u] = stack[u] /\ reply'[u] = reply[u]
<1>1. Raised(e) \in Replies
  BY DEF Raised, Replies
<1>2. NoReply \notin Replies
  BY MarkersAssumption
<1>3. <<Unlock>> \in Seq(AllSteps)
  BY DEF AllSteps, Unlock
<1>4. stack' = [stack EXCEPT ![t] = <<Unlock>>]
  BY DEF Unwind, Unlock
<1>5. /\ stack'[t] = <<Unlock>> /\ \A u \in Threads \ {t} : stack'[u] = stack[u]
      /\ stack' \in [Threads -> Seq(AllSteps)]
  BY <1>3, <1>4, StackChanged
<1>6. /\ reply'[t] = Raised(e) /\ \A u \in Threads \ {t} : reply'[u] = reply[u]
      /\ reply' \in [Threads -> Replies \cup {NoReply}]
  BY <1>1 DEF Unwind, FacadeInv, FacadeTypeOK
<1>7. lock'.owner = t /\ lock'.depth = 1 /\ lock' \in [owner : Threads \cup {NoThread}, depth : 0..2]
  <2>1. lock \in [owner : Threads \cup {NoThread}, depth : 0..2]
    BY DEF FacadeInv, FacadeTypeOK
  <2>2. lock' = [lock EXCEPT !.depth = 1]
    BY DEF Unwind
  <2> QED
    BY <2>1, <2>2
<1>8. Returning(t)'
  BY <1>1, <1>2, <1>5, <1>6, <1>7 DEF Returning
<1> QED
  BY <1>5, <1>6, <1>7, <1>8

\* The end of a method, and of its inner lock, keeps the invariant.
LEMMA ReleaseStep ==
    ASSUME FacadeInv, NEW t \in Threads, Release(t)
    PROVE  FacadeInv'
<1> DEFINE s == stack[t]
<1>1. /\ s # <<>> /\ s[1][1] = "unlock"
      /\ lock' = IF lock.depth = 1 THEN [owner |-> NoThread, depth |-> 0]
                                   ELSE [lock EXCEPT !.depth = @ - 1]
      /\ stack' = [stack EXCEPT ![t] = Tail(s)]
      /\ UNCHANGED <<setting, closed, raw, public, backend, calls, failures>>
  BY DEF Release, AtStep, Pop, caches
<1>2. s[1] = Unlock /\ s \in Seq(AllSteps) /\ request[t] \in Requests
  BY <1>1, Phases, StepByName DEF Unlock
<1>3. /\ stack'[t] = Tail(s) /\ \A u \in Threads \ {t} : stack'[u] = stack[u]
      /\ stack' \in [Threads -> Seq(AllSteps)] /\ Tail(s) \in Seq(AllSteps)
  <2>1. Tail(s) \in Seq(AllSteps)
    BY <1>1, <1>2, HeadTailProperties
  <2> QED
    BY <1>1, <2>1, StackChanged
<1>4. lock.owner = t /\ lock \in [owner : Threads \cup {NoThread}, depth : 0..2]
  BY <1>1, <1>2, Phases DEF FacadeInv, FacadeTypeOK
<1>5. CASE Returning(t)
  <2>1. s = <<Unlock>> /\ lock.depth = 1
    BY <1>5 DEF Returning
  <2>2. Tail(s) = <<>> /\ Len(s) = 1
    BY <2>1
  <2>3. lock' = [owner |-> NoThread, depth |-> 0]
    BY <1>1, <2>1
  <2>4. /\ request' = [request EXCEPT ![t] = NoRequest]
        /\ flag' = [flag EXCEPT ![t] = FALSE]
        /\ got' = [got EXCEPT ![t] = Nothing]
        /\ reply' = [reply EXCEPT ![t] = NoReply]
    BY <2>2 DEF Release
  <2>5. Nothing \in [Kinds -> Values \cup {NoValue}]
    BY DEF Nothing
  <2>6. FacadeTypeOK'
    <3>1. lock' \in [owner : Threads \cup {NoThread}, depth : 0..2]
      BY <2>3
    <3>2. /\ request' \in [Threads -> Requests \cup {NoRequest}]
          /\ flag' \in [Threads -> BOOLEAN]
          /\ got' \in [Threads -> [Kinds -> Values \cup {NoValue}]]
          /\ reply' \in [Threads -> Replies \cup {NoReply}]
      BY <2>4, <2>5 DEF FacadeInv, FacadeTypeOK
    <3> QED
      BY <1>1, <1>3, <3>1, <3>2 DEF FacadeInv, FacadeTypeOK
  <2>7. /\ request'[t] = NoRequest /\ flag'[t] = FALSE /\ got'[t] = Nothing /\ reply'[t] = NoReply
        /\ \A u \in Threads \ {t} : request'[u] = request[u] /\ flag'[u] = flag[u]
                                    /\ got'[u] = got[u] /\ reply'[u] = reply[u]
    BY <2>4 DEF FacadeInv, FacadeTypeOK
  <2>8. LockIsKept'
    <3>1. NoThread \notin Threads
      BY MarkersAssumption
    <3>2. \A u \in Threads \ {t} : Outside(u)
      BY <1>4 DEF FacadeInv, LockIsKept
    <3>3. \A u \in Threads \ {t} : Outside(u)'
      BY <1>3, <2>7, <3>2 DEF Outside
    <3>4. Outside(t)'
      BY <1>3, <2>2, <2>7 DEF Outside
    <3>5. lock'.owner = NoThread /\ lock'.depth = 0
      BY <2>3
    <3> QED
      BY <3>1, <3>3, <3>4, <3>5 DEF LockIsKept
  <2>9. \A u \in Threads, kind \in Kinds : got'[u][kind] \in {NoValue, backend.cache[kind]}
    <3>1. \A kind \in Kinds : got'[t][kind] = NoValue
      BY <2>7 DEF Nothing
    <3> QED
      BY <2>7, <3>1, Reached
  <2>10. /\ backend'.cache = backend.cache /\ backend'.closed = backend.closed
         /\ backend'.closes = backend.closes /\ backend'.verdict \in Verdicts \cup {NoValue}
    BY <1>1, Reached
  <2> QED
    BY <1>1, <2>6, <2>8, <2>9, <2>10, SharedKept
<1>6. CASE Working(t) /\ lock.depth = 2 /\ s = <<Unlock, <<"reply">>, Unlock>>
  <2>1. Len(s) = 3 /\ s[2] = <<"reply">> /\ s[3] = Unlock
    BY <1>6
  <2>2. UNCHANGED <<request, flag, got, reply>>
    BY <2>1 DEF Release
  <2>3. lock'.owner = t /\ lock'.depth = 1 /\ lock' \in [owner : Threads \cup {NoThread}, depth : 0..2]
    BY <1>1, <1>4, <1>6
  <2>4. OneLock(Tail(s))
    <3>1. Len(Tail(s)) = 2 /\ Tail(s)[1] = <<"reply">> /\ Tail(s)[2] = Unlock
      BY <1>1, <1>2, <2>1, HeadTailProperties
    <3>2. Inner(Tail(s), 0) /\ EndsWith(Tail(s), 0)
      BY <3>1 DEF Inner, EndsWith
    <3> QED
      BY <3>1, <3>2 DEF OneLock
  <2>5. Ready(t)' /\ BuildsOnce(t)'
    BY <1>1, <1>2, <1>3, <1>6, <2>2, WorkPastLock
  <2>6. Working(t)'
    BY <1>3, <1>6, <2>2, <2>3, <2>4, <2>5 DEF Working
  <2>7. LockIsKept'
    BY <1>2, <1>3, <1>4, <2>2, <2>3, <2>6, OthersKept
  <2>8. FacadeTypeOK'
    BY <1>1, <1>3, <2>2, <2>3 DEF FacadeInv, FacadeTypeOK
  <2> QED
    BY <1>1, <2>2, <2>7, <2>8, Reached, SharedKept
<1> QED
  BY <1>1, <1>2, <1>5, <1>6, Phases

\* An exception keeps the invariant, whatever verdict the session had reached.
LEMMA UnwindStep ==
    ASSUME FacadeInv, NEW t \in Threads, lock.owner = t, request[t] \in Requests,
           NEW e \in {"error", "ReasonerClosedError", "FreshEntityError"}, Unwind(t, e),
           UNCHANGED <<setting, request, flag, got, closed, raw, public, calls>>, failures' \in Nat,
           NEW v \in Verdicts \cup {NoValue}, backend' = [backend EXCEPT !.verdict = v]
    PROVE  FacadeInv'
<1>1. /\ stack' \in [Threads -> Seq(AllSteps)]
      /\ reply' \in [Threads -> Replies \cup {NoReply}]
      /\ lock' \in [owner : Threads \cup {NoThread}, depth : 0..2]
      /\ lock'.owner = t
      /\ Returning(t)'
      /\ \A u \in Threads \ {t} : stack'[u] = stack[u] /\ reply'[u] = reply[u]
  BY Unwound
<1>2. /\ backend' \in [closed : BOOLEAN, verdict : BOOLEAN \cup {NoValue},
                       cache : [Kinds -> Values \cup {NoValue}], engine : BOOLEAN, closes : 0..1]
      /\ backend'.cache = backend.cache /\ backend'.closed = backend.closed
      /\ backend'.closes = backend.closes /\ backend'.verdict = v
  <2>1. v \in BOOLEAN \cup {NoValue}
    BY Reached
  <2> QED
    BY <2>1 DEF FacadeInv, FacadeTypeOK
<1>3. FacadeTypeOK'
  BY <1>1, <1>2 DEF FacadeInv, FacadeTypeOK
<1>4. LockIsKept'
  BY <1>1, OthersKept
<1> QED
  BY <1>2, <1>3, <1>4, Reached, SharedKept

\* A closed reasoner refuses.
LEMMA RefuseStep ==
    ASSUME FacadeInv, NEW t \in Threads, Refuse(t)
    PROVE  FacadeInv'
<1>1. /\ stack[t] # <<>> /\ stack[t][1][1] \notin {"lock", "unlock", "close"}
      /\ Unwind(t, "ReasonerClosedError")
      /\ UNCHANGED <<setting, request, flag, got, closed, raw, public, backend, calls, failures>>
  BY DEF Refuse, caches
<1>2. lock.owner = t /\ request[t] \in Requests
  <2>1. stack[t][1] \in AllSteps /\ request[t] \in Requests
    BY <1>1, Phases
  <2>2. stack[t][1] \in InnerSteps \/ stack[t][1] = <<"reply">> \/ stack[t][1] = <<"closing">>
    BY <1>1, <2>1 DEF AllSteps
  <2> QED
    BY <1>1, <2>1, <2>2, Phases
<1>3. backend' = [backend EXCEPT !.verdict = backend.verdict] /\ failures' \in Nat
  BY <1>1 DEF FacadeInv, FacadeTypeOK
<1> QED
  BY <1>1, <1>2, <1>3, Reached, UnwindStep

\* A call of the backend that fails.
LEMMA FailStep ==
    ASSUME FacadeInv, NEW t \in Threads, Fail(t)
    PROVE  FacadeInv'
<1>1. /\ stack[t] # <<>> /\ stack[t][1][1] \in BackendSteps \cup CheckedSteps
      /\ Unwind(t, "error")
      /\ UNCHANGED <<setting, request, flag, got, closed, raw, public, calls>>
      /\ failures' = failures + 1
  BY DEF Fail, caches
<1>2. stack[t][1] \in AllSteps /\ request[t] \in Requests
  BY <1>1, Phases
<1>3. lock.owner = t
  <2>1. stack[t][1] \in InnerSteps \/ stack[t][1] = <<"reply">>
    BY <1>1, <1>2 DEF AllSteps, BackendSteps, CheckedSteps
  <2> QED
    BY <1>1, <1>2, <2>1, Phases
<1>4. \E v \in Verdicts \cup {NoValue} : backend' = [backend EXCEPT !.verdict = v]
  <2>1. PICK v \in {backend.verdict} \cup (IF AtStep(t, "build") THEN AfterRun(stack[t][1][2]) ELSE {}) :
            backend' = [backend EXCEPT !.verdict = v]
    BY DEF Fail
  <2>2. ASSUME AtStep(t, "build") PROVE stack[t][1][2] \in Kinds
    BY <1>2, <2>2 DEF AtStep, AllSteps, InnerSteps
  <2>3. v \in Verdicts \cup {NoValue}
    BY <2>1, <2>2, Reached
  <2> QED
    BY <2>1, <2>3
<1>5. failures' \in Nat
  BY <1>1 DEF FacadeInv, FacadeTypeOK
<1> QED
  BY <1>1, <1>2, <1>3, <1>4, <1>5, UnwindStep

\* A step of the call is done.
LEMMA PopKeeps ==
    ASSUME FacadeInv, NEW t \in Threads, stack[t] # <<>>, stack[t][1] \in InnerSteps, Pop(t),
           UNCHANGED <<lock, request, reply, setting>>,
           \A u \in Threads \ {t} : flag'[u] = flag[u] /\ got'[u] = got[u],
           \A kind \in Kinds :
             /\ got[t][kind] # NoValue \/ stack[t][1] \in Fills(kind) => got'[t][kind] # NoValue
             /\ raw[kind] # NoValue \/ stack[t][1] \in Stores(kind) => raw'[kind] # NoValue
             /\ backend'.cache[kind] = backend.cache[kind] \/ stack[t][1] = <<"build", kind>>,
           stack[t][1] # <<"verdict">> => flag'[t] = flag[t],
           stack[t][1] = <<"verdict">> => flag'[t] \in Verdicts,
           stack[t][1] = <<"fresh">> => FreshPasses(t)
    PROVE  LockIsKept' /\ stack' \in [Threads -> Seq(AllSteps)]
<1>1. stack[t] \in Seq(AllSteps) /\ lock.owner = t /\ request[t] \in Requests
  BY Phases
<1>2. Tail(stack[t]) \in Seq(AllSteps)
  BY <1>1, HeadTailProperties
<1>3. stack' = [stack EXCEPT ![t] = Tail(stack[t])]
  BY DEF Pop
<1>4. /\ stack'[t] = Tail(stack[t]) /\ \A u \in Threads \ {t} : stack'[u] = stack[u]
      /\ stack' \in [Threads -> Seq(AllSteps)]
  BY <1>2, <1>3, StackChanged
<1>5. <<>> \in Seq(InnerSteps)
  OBVIOUS
<1>6. Working(t)'
  BY <1>4, <1>5, WorkGoesOn
<1> QED
  BY <1>1, <1>4, <1>6, OthersKept

\* A step of the call is replaced by others.
LEMMA PushKeeps ==
    ASSUME FacadeInv, NEW t \in Threads, stack[t] # <<>>,
           stack[t][1] \in InnerSteps \ {<<"verdict">>, <<"fresh">>},
           NEW new \in Seq(InnerSteps), new # <<>>, Push(t, new),
           UNCHANGED <<lock, request, reply, setting, flag, got, raw, backend>>,
           \A i \in 1..Len(new) : new[i] # <<"verdict">> /\ new[i] # <<"fresh">>,
           \A kind \in Kinds :
             /\ Supplied(new, UsesGot(t, kind), Fills(kind))
             /\ Supplied(new, UsesRaw(kind), Stores(kind))
             /\ stack[t][1] \in Fills(kind) => \E j \in 1..Len(new) : new[j] \in Fills(kind)
             /\ stack[t][1] \in Stores(kind) => \E j \in 1..Len(new) : new[j] \in Stores(kind),
           \A i \in 1..Len(new), kind \in Kinds :
             new[i] = <<"build", kind>> =>
               /\ backend.cache[kind] = NoValue
               /\ i = 1 \/ (i = 2 /\ kind = "realization"
                              /\ new[1] \in {<<"backend", "classes">>, <<"build", "classes">>}),
           stack[t][1][1] # "build",
           stack[t][1] = <<"backend", "classes">> => new = <<<<"build", "classes">>>>
    PROVE  LockIsKept' /\ stack' \in [Threads -> Seq(AllSteps)]
<1>1. stack[t] \in Seq(AllSteps) /\ lock.owner = t /\ request[t] \in Requests
  BY Phases
<1>2. Tail(stack[t]) \in Seq(AllSteps) /\ new \in Seq(AllSteps)
  BY <1>1, HeadTailProperties DEF AllSteps
<1>3. stack' = [stack EXCEPT ![t] = new \o Tail(stack[t])] /\ new \o Tail(stack[t]) \in Seq(AllSteps)
  BY <1>2, ConcatProperties DEF Push
<1>4. /\ stack'[t] = new \o Tail(stack[t]) /\ \A u \in Threads \ {t} : stack'[u] = stack[u]
      /\ stack' \in [Threads -> Seq(AllSteps)]
  BY <1>3, StackChanged
<1>5. new \o Tail(stack[t]) # Tail(stack[t])
  <2>1. Len(new) # 0 /\ Len(new) \in Nat /\ Len(Tail(stack[t])) \in Nat
    BY <1>2
  <2>2. Len(new \o Tail(stack[t])) = Len(new) + Len(Tail(stack[t]))
    BY <1>2, ConcatProperties
  <2> QED
    BY <2>1, <2>2
<1>6. Working(t)'
  BY <1>4, <1>5, WorkGoesOn
<1> QED
  BY <1>1, <1>4, <1>6, OthersKept

\* The verdict is read and kept.
LEMMA ReadVerdictStep ==
    ASSUME FacadeInv, NEW t \in Threads, ReadVerdict(t)
    PROVE  FacadeInv'
<1>1. /\ stack[t] # <<>> /\ stack[t][1][1] = "verdict" /\ Pop(t)
      /\ backend' = [backend EXCEPT !.verdict = Ensured]
      /\ flag' = [flag EXCEPT ![t] = Ensured]
      /\ UNCHANGED <<setting, lock, request, got, reply, closed, raw, public, calls, failures>>
  BY DEF ReadVerdict, AtStep, caches
<1>2. stack[t][1] = <<"verdict">> /\ stack[t][1] \in InnerSteps
  BY <1>1, Phases, StepByName
<1>3. Ensured \in Verdicts /\ Ensured \in BOOLEAN
  BY Reached
<1>4. /\ backend' \in [closed : BOOLEAN, verdict : BOOLEAN \cup {NoValue},
                       cache : [Kinds -> Values \cup {NoValue}], engine : BOOLEAN, closes : 0..1]
      /\ backend'.cache = backend.cache /\ backend'.closed = backend.closed
      /\ backend'.closes = backend.closes /\ backend'.verdict = Ensured
  BY <1>1, <1>3 DEF FacadeInv, FacadeTypeOK
<1>5. /\ flag' \in [Threads -> BOOLEAN] /\ flag'[t] = Ensured
      /\ \A u \in Threads \ {t} : flag'[u] = flag[u]
  BY <1>1, <1>3 DEF FacadeInv, FacadeTypeOK
<1>6. \A kind \in Kinds : stack[t][1] \notin Fills(kind) /\ stack[t][1] \notin Stores(kind)
  BY <1>2 DEF Fills, Stores
<1>7. LockIsKept' /\ stack' \in [Threads -> Seq(AllSteps)]
  BY <1>1, <1>2, <1>3, <1>4, <1>5, <1>6, PopKeeps
<1>8. FacadeTypeOK'
  BY <1>1, <1>4, <1>5, <1>7 DEF FacadeInv, FacadeTypeOK
<1> QED
  BY <1>1, <1>3, <1>4, <1>7, <1>8, Reached, SharedKept

\* A fresh entity is accepted or refused.
LEMMA CheckFreshStep ==
    ASSUME FacadeInv, NEW t \in Threads, CheckFresh(t)
    PROVE  FacadeInv'
<1>1. /\ stack[t] # <<>> /\ stack[t][1][1] = "fresh"
      /\ UNCHANGED <<setting, request, flag, got, closed, raw, public, backend, calls, failures>>
  BY DEF CheckFresh, AtStep, caches
<1>2. stack[t][1] = <<"fresh">> /\ stack[t][1] \in InnerSteps
  BY <1>1, Phases, StepByName
<1>3. lock.owner = t /\ request[t] \in Requests /\ Working(t) /\ stack[t] \in Seq(AllSteps)
  BY <1>1, <1>2, Phases
<1> DEFINE refused == request[t].fresh /\ ~setting.allowFresh /\ (request[t].method = "entailed" \/ ~flag[t])
<1>4. CASE refused
  <2>1. Unwind(t, "FreshEntityError")
    BY <1>4 DEF CheckFresh
  <2>2. backend' = [backend EXCEPT !.verdict = backend.verdict] /\ failures' \in Nat
    BY <1>1 DEF FacadeInv, FacadeTypeOK
  <2> QED
    BY <1>1, <1>3, <2>1, <2>2, Reached, UnwindStep
<1>5. CASE ~refused
  <2>1. Pop(t) /\ UNCHANGED <<lock, reply>>
    BY <1>5 DEF CheckFresh
  <2>2. FreshPasses(t)
    <3>1. SUFFICES ASSUME request[t].fresh, ~setting.allowFresh, request[t].method # "entailed"
                   PROVE  TRUE \in Verdicts
      BY <1>5 DEF FreshPasses
    <3>2. flag[t] = TRUE
      <4>1. flag[t] \in BOOLEAN
        BY DEF FacadeInv, FacadeTypeOK
      <4> QED
        BY <1>5, <3>1, <4>1
    <3>3. <<"fresh">> \in UsesFlag(t)
      BY <3>1 DEF UsesFlag
    <3>4. ~Supplied(stack[t], UsesFlag(t), {<<"verdict">>})
      <4>1. 1 \in 1..Len(stack[t])
        BY <1>1, <1>3
      <4> QED
        BY <1>2, <3>3, <4>1 DEF Supplied
    <3>5. flag[t] \in Verdicts
      BY <1>3, <3>4 DEF Working, Ready
    <3> QED
      BY <3>2, <3>5
  <2>3. \A kind \in Kinds : stack[t][1] \notin Fills(kind) /\ stack[t][1] \notin Stores(kind)
    BY <1>2 DEF Fills, Stores
  <2>4. LockIsKept' /\ stack' \in [Threads -> Seq(AllSteps)]
    BY <1>1, <1>2, <2>1, <2>2, <2>3, PopKeeps
  <2>5. FacadeTypeOK'
    BY <1>1, <2>1, <2>4 DEF FacadeInv, FacadeTypeOK
  <2> QED
    BY <1>1, <2>4, <2>5, Reached, SharedKept
<1> QED
  BY <1>4, <1>5

\* An answer is reached, and the engine created.
LEMMA RunStep ==
    ASSUME FacadeInv, NEW t \in Threads, Run(t) \/ CreateEngine(t)
    PROVE  FacadeInv'
<1>1. /\ stack[t] # <<>> /\ stack[t][1][1] \in {"run", "entails", "inspect", "engine"} /\ Pop(t)
      /\ UNCHANGED <<setting, lock, request, flag, got, reply, closed, raw, public, calls, failures>>
  BY DEF Run, CreateEngine, AtStep, caches
<1>2. /\ stack[t][1] \in {<<"run">>, <<"entails">>, <<"inspect">>, <<"engine">>}
      /\ stack[t][1] \in InnerSteps
  BY <1>1, Phases, StepByName
<1>3. Ensured \in Verdicts /\ Ensured \in BOOLEAN /\ backend.verdict \in Verdicts \cup {NoValue}
  BY Reached
<1>4. \/ backend' = [backend EXCEPT !.verdict = Ensured]
      \/ backend' = [backend EXCEPT !.engine = TRUE]
      \/ backend' = backend
  BY DEF Run, CreateEngine
<1>5. /\ backend' \in [closed : BOOLEAN, verdict : BOOLEAN \cup {NoValue},
                       cache : [Kinds -> Values \cup {NoValue}], engine : BOOLEAN, closes : 0..1]
      /\ backend'.cache = backend.cache /\ backend'.closed = backend.closed
      /\ backend'.closes = backend.closes /\ backend'.verdict \in Verdicts \cup {NoValue}
  BY <1>3, <1>4 DEF FacadeInv, FacadeTypeOK
<1>6. \A kind \in Kinds : stack[t][1] \notin Fills(kind) /\ stack[t][1] \notin Stores(kind)
  BY <1>2 DEF Fills, Stores
<1>7. stack[t][1] # <<"verdict">> /\ stack[t][1] # <<"fresh">>
  BY <1>2
<1>8. LockIsKept' /\ stack' \in [Threads -> Seq(AllSteps)]
  BY <1>1, <1>2, <1>5, <1>6, <1>7, PopKeeps
<1>9. FacadeTypeOK'
  BY <1>1, <1>5, <1>8 DEF FacadeInv, FacadeTypeOK
<1> QED
  BY <1>1, <1>5, <1>8, <1>9, Reached, SharedKept

\* The steps that fill and store a kind.
LEMMA Suppliers ==
    ASSUME NEW name, NEW k, NEW kind
    PROVE  /\ <<name, k>> \in Fills(kind) <=> k = kind /\ name \in {"public", "raw", "backend", "build"}
           /\ <<name, k>> \in Stores(kind) <=> k = kind /\ name \in {"public", "raw", "accept"}
  BY DEF Fills, Stores

\* The next step of a call has what it needs.
LEMMA HeadIsReady ==
    ASSUME FacadeInv, NEW t \in Threads, stack[t] # <<>>, Working(t)
    PROVE  /\ \A kind \in Kinds : stack[t][1] \in UsesGot(t, kind) =>
                got[t][kind] # NoValue /\ got[t][kind] = backend.cache[kind]
           /\ \A kind \in Kinds : stack[t][1] \in UsesRaw(kind) => raw[kind] # NoValue
           /\ stack[t][1] \in UsesFlag(t) => flag[t] \in Verdicts
           /\ stack[t][1] = <<"reply">> => FreshPasses(t)
<1>1. 1 \in 1..Len(stack[t])
  BY DEF FacadeInv, FacadeTypeOK
<1>2. ASSUME NEW uses, NEW by, stack[t][1] \in uses PROVE ~Supplied(stack[t], uses, by)
  BY <1>1, <1>2 DEF Supplied
<1>3. Ready(t)
  BY DEF Working
<1>4. ASSUME NEW kind \in Kinds, stack[t][1] \in UsesGot(t, kind)
      PROVE  got[t][kind] # NoValue /\ got[t][kind] = backend.cache[kind]
  <2>1. got[t][kind] # NoValue
    BY <1>2, <1>3, <1>4 DEF Ready
  <2> QED
    BY <2>1, Reached
<1>5. ASSUME NEW kind \in Kinds, stack[t][1] \in UsesRaw(kind)
      PROVE  raw[kind] # NoValue
  BY <1>2, <1>3, <1>5 DEF Ready
<1>6. ASSUME stack[t][1] \in UsesFlag(t) PROVE flag[t] \in Verdicts
  BY <1>2, <1>3, <1>6 DEF Ready
<1>7. ASSUME stack[t][1] = <<"reply">> PROVE FreshPasses(t)
  <2>1. stack[t][1] \in {<<"reply">>}
    BY <1>7
  <2> QED
    BY <1>2, <1>3, <2>1 DEF Ready
<1> QED
  BY <1>4, <1>5, <1>6, <1>7

\* One value of one call is replaced.
LEMMA GotChanged ==
    ASSUME FacadeInv, NEW t \in Threads, NEW kind \in Kinds, NEW v \in Values,
           got' = [got EXCEPT ![t][kind] = v]
    PROVE  /\ got' \in [Threads -> [Kinds -> Values \cup {NoValue}]]
           /\ got'[t][kind] = v
           /\ \A k \in Kinds \ {kind} : got'[t][k] = got[t][k]
           /\ \A u \in Threads \ {t} : got'[u] = got[u]
           /\ v # NoValue
  BY MarkersAssumption DEF FacadeInv, FacadeTypeOK

\* The values of a call that reads a cache.
LEMMA GotFromCache ==
    ASSUME FacadeInv, NEW t \in Threads, NEW kind \in Kinds, NEW v \in Values, v = backend.cache[kind],
           got' = [got EXCEPT ![t][kind] = v],
           stack[t] # <<>>, stack[t][1] \in {<<"public", kind>>, <<"raw", kind>>, <<"backend", kind>>},
           stack[t][1] \notin Stores(kind) \/ raw[kind] # NoValue,
           Pop(t),
           UNCHANGED <<setting, lock, request, flag, reply, closed, raw, public, backend, calls, failures>>
    PROVE  FacadeInv'
<1>1. /\ got' \in [Threads -> [Kinds -> Values \cup {NoValue}]]
      /\ got'[t][kind] = v
      /\ \A k \in Kinds \ {kind} : got'[t][k] = got[t][k]
      /\ \A u \in Threads \ {t} : got'[u] = got[u]
      /\ v # NoValue
  BY ZenonT(60), GotChanged
<1>2. /\ stack[t][1] \in InnerSteps
      /\ stack[t][1] # <<"verdict">> /\ stack[t][1] # <<"fresh">>
      /\ \A k \in Kinds \ {kind} : stack[t][1] \notin Fills(k) /\ stack[t][1] \notin Stores(k)
  BY DEF InnerSteps, Fills, Stores
<1>3. \A k \in Kinds :
          /\ got[t][k] # NoValue \/ stack[t][1] \in Fills(k) => got'[t][k] # NoValue
          /\ raw[k] # NoValue \/ stack[t][1] \in Stores(k) => raw'[k] # NoValue
  BY <1>1, <1>2
<1>4. LockIsKept' /\ stack' \in [Threads -> Seq(AllSteps)]
  BY <1>1, <1>2, <1>3, PopKeeps
<1>5. FacadeTypeOK'
  BY <1>1, <1>4 DEF FacadeInv, FacadeTypeOK
<1>6. \A u \in Threads, k \in Kinds : got'[u][k] \in {NoValue, backend.cache[k]}
  BY <1>1, Reached
<1> QED
  BY <1>4, <1>5, <1>6, Reached, SharedKept

\* A step replaced by others keeps the invariant.
LEMMA PushedStep ==
    ASSUME FacadeInv, LockIsKept', stack' \in [Threads -> Seq(AllSteps)],
           UNCHANGED <<setting, lock, request, flag, got, reply, closed, raw, public, backend, calls, failures>>
    PROVE  FacadeInv'
<1>1. FacadeTypeOK'
  BY DEF FacadeInv, FacadeTypeOK
<1> QED
  BY <1>1, Reached, SharedKept

\* The public caches are read.
LEMMA UsePublicStep ==
    ASSUME FacadeInv, NEW t \in Threads, NEW kind \in Kinds, UsePublic(t, kind)
    PROVE  FacadeInv'
<1>1. /\ stack[t] # <<>> /\ stack[t][1] = <<"public", kind>>
      /\ UNCHANGED <<setting, lock, request, flag, reply, closed, raw, public, backend, calls, failures>>
  BY DEF UsePublic, AtKind, caches
<1>2. CASE public[kind] # NoValue
  <2>1. /\ public[kind] \in Values /\ raw[kind] # NoValue /\ public[kind] = backend.cache[kind]
    BY <1>2 DEF FacadeInv, FacadeTypeOK, CachesAgree
  <2>2. Pop(t) /\ got' = [got EXCEPT ![t][kind] = public[kind]]
    BY <1>2 DEF UsePublic
  <2> QED
    BY <1>1, <2>1, <2>2, GotFromCache
<1>3. CASE public[kind] = NoValue
  <2> DEFINE new == <<<<"raw", kind>>>>
                      \o (IF kind = "realization" THEN <<<<"public", "classes">>>> ELSE <<>>)
                      \o <<<<"publish", kind>>>>
  <2>1. Push(t, new) /\ got' = got
    BY <1>3 DEF UsePublic
  <2>2. CASE kind = "realization"
    <3>1. new \in Seq(InnerSteps)
      BY <2>2 DEF InnerSteps, Kinds
    <3>2. /\ Len(new) = 3 /\ new[1] = <<"raw", kind>> /\ new[2] = <<"public", "classes">>
          /\ new[3] = <<"publish", kind>>
      BY <2>2
    <3> HIDE DEF new
    <3>3. new # <<>> /\ \A i \in 1..Len(new) : new[i] # <<"verdict">> /\ new[i] # <<"fresh">>
      BY <3>2
    <3>4. \A k \in Kinds :
            /\ Supplied(new, UsesGot(t, k), Fills(k))
            /\ Supplied(new, UsesRaw(k), Stores(k))
      BY <2>2, <3>2 DEF Supplied, UsesGot, UsesRaw, Fills, Stores, Kinds
    <3>5. \A k \in Kinds :
            /\ stack[t][1] \in Fills(k) => \E j \in 1..Len(new) : new[j] \in Fills(k)
            /\ stack[t][1] \in Stores(k) => \E j \in 1..Len(new) : new[j] \in Stores(k)
      BY <1>1, <3>2, Suppliers
    <3>6. \A i \in 1..Len(new), k \in Kinds : new[i] # <<"build", k>>
      BY <3>2
    <3>7. /\ stack[t][1] \in InnerSteps \ {<<"verdict">>, <<"fresh">>}
          /\ stack[t][1][1] # "build" /\ stack[t][1] # <<"backend", "classes">>
      BY <1>1 DEF InnerSteps
    <3>8. LockIsKept' /\ stack' \in [Threads -> Seq(AllSteps)]
      BY <1>1, <2>1, <3>1, <3>3, <3>4, <3>5, <3>6, <3>7, PushKeeps
    <3> QED
      BY <1>1, <2>1, <3>8, PushedStep
  <2>3. CASE kind # "realization"
    <3>1. new \in Seq(InnerSteps)
      BY <2>3 DEF InnerSteps
    <3>2. Len(new) = 2 /\ new[1] = <<"raw", kind>> /\ new[2] = <<"publish", kind>>
      BY <2>3
    <3> HIDE DEF new
    <3>3. new # <<>> /\ \A i \in 1..Len(new) : new[i] # <<"verdict">> /\ new[i] # <<"fresh">>
      BY <3>2
    <3>4. \A k \in Kinds :
            /\ Supplied(new, UsesGot(t, k), Fills(k))
            /\ Supplied(new, UsesRaw(k), Stores(k))
      BY <2>3, <3>2 DEF Supplied, UsesGot, UsesRaw, Fills, Stores, Kinds
    <3>5. \A k \in Kinds :
            /\ stack[t][1] \in Fills(k) => \E j \in 1..Len(new) : new[j] \in Fills(k)
            /\ stack[t][1] \in Stores(k) => \E j \in 1..Len(new) : new[j] \in Stores(k)
      BY <1>1, <3>2, Suppliers
    <3>6. \A i \in 1..Len(new), k \in Kinds : new[i] # <<"build", k>>
      BY <3>2
    <3>7. /\ stack[t][1] \in InnerSteps \ {<<"verdict">>, <<"fresh">>}
          /\ stack[t][1][1] # "build" /\ stack[t][1] # <<"backend", "classes">>
      BY <1>1 DEF InnerSteps
    <3>8. LockIsKept' /\ stack' \in [Threads -> Seq(AllSteps)]
      BY <1>1, <2>1, <3>1, <3>3, <3>4, <3>5, <3>6, <3>7, PushKeeps
    <3> QED
      BY <1>1, <2>1, <3>8, PushedStep
  <2> QED
    BY <2>2, <2>3
<1> QED
  BY <1>2, <1>3

\* The raw caches are read.
LEMMA UseRawStep ==
    ASSUME FacadeInv, NEW t \in Threads, NEW kind \in Kinds, UseRaw(t, kind)
    PROVE  FacadeInv'
<1>1. /\ stack[t] # <<>> /\ stack[t][1] = <<"raw", kind>>
      /\ UNCHANGED <<setting, lock, request, flag, reply, closed, raw, public, backend, calls, failures>>
  BY DEF UseRaw, AtKind, caches
<1>2. CASE raw[kind] # NoValue
  <2>1. raw[kind] \in Values /\ raw[kind] = backend.cache[kind]
    BY <1>2 DEF FacadeInv, FacadeTypeOK, CachesAgree
  <2>2. Pop(t) /\ got' = [got EXCEPT ![t][kind] = raw[kind]]
    BY <1>2 DEF UseRaw
  <2> QED
    BY <1>1, <1>2, <2>1, <2>2, GotFromCache
<1>3. CASE raw[kind] = NoValue
  <2> DEFINE new == <<<<"backend", kind>>>>
                      \o (IF kind = "realization" THEN <<<<"raw", "classes">>>> ELSE <<>>)
                      \o <<<<"accept", kind>>>>
  <2>1. Push(t, new) /\ got' = got
    BY <1>3 DEF UseRaw
  <2>2. CASE kind = "realization"
    <3>1. new \in Seq(InnerSteps)
      BY <2>2 DEF InnerSteps, Kinds
    <3>2. /\ Len(new) = 3 /\ new[1] = <<"backend", kind>> /\ new[2] = <<"raw", "classes">>
          /\ new[3] = <<"accept", kind>>
      BY <2>2
    <3> HIDE DEF new
    <3>3. new # <<>> /\ \A i \in 1..Len(new) : new[i] # <<"verdict">> /\ new[i] # <<"fresh">>
      BY <3>2
    <3>4. \A k \in Kinds :
            /\ Supplied(new, UsesGot(t, k), Fills(k))
            /\ Supplied(new, UsesRaw(k), Stores(k))
      BY <2>2, <3>2 DEF Supplied, UsesGot, UsesRaw, Fills, Stores, Kinds
    <3>5. \A k \in Kinds :
            /\ stack[t][1] \in Fills(k) => \E j \in 1..Len(new) : new[j] \in Fills(k)
            /\ stack[t][1] \in Stores(k) => \E j \in 1..Len(new) : new[j] \in Stores(k)
      BY <1>1, <3>2, Suppliers
    <3>6. \A i \in 1..Len(new), k \in Kinds : new[i] # <<"build", k>>
      BY <3>2
    <3>7. /\ stack[t][1] \in InnerSteps \ {<<"verdict">>, <<"fresh">>}
          /\ stack[t][1][1] # "build" /\ stack[t][1] # <<"backend", "classes">>
      BY <1>1 DEF InnerSteps
    <3>8. LockIsKept' /\ stack' \in [Threads -> Seq(AllSteps)]
      BY <1>1, <2>1, <3>1, <3>3, <3>4, <3>5, <3>6, <3>7, PushKeeps
    <3> QED
      BY <1>1, <2>1, <3>8, PushedStep
  <2>3. CASE kind # "realization"
    <3>1. new \in Seq(InnerSteps)
      BY <2>3 DEF InnerSteps
    <3>2. Len(new) = 2 /\ new[1] = <<"backend", kind>> /\ new[2] = <<"accept", kind>>
      BY <2>3
    <3> HIDE DEF new
    <3>3. new # <<>> /\ \A i \in 1..Len(new) : new[i] # <<"verdict">> /\ new[i] # <<"fresh">>
      BY <3>2
    <3>4. \A k \in Kinds :
            /\ Supplied(new, UsesGot(t, k), Fills(k))
            /\ Supplied(new, UsesRaw(k), Stores(k))
      BY <2>3, <3>2 DEF Supplied, UsesGot, UsesRaw, Fills, Stores, Kinds
    <3>5. \A k \in Kinds :
            /\ stack[t][1] \in Fills(k) => \E j \in 1..Len(new) : new[j] \in Fills(k)
            /\ stack[t][1] \in Stores(k) => \E j \in 1..Len(new) : new[j] \in Stores(k)
      BY <1>1, <3>2, Suppliers
    <3>6. \A i \in 1..Len(new), k \in Kinds : new[i] # <<"build", k>>
      BY <3>2
    <3>7. /\ stack[t][1] \in InnerSteps \ {<<"verdict">>, <<"fresh">>}
          /\ stack[t][1][1] # "build" /\ stack[t][1] # <<"backend", "classes">>
      BY <1>1 DEF InnerSteps
    <3>8. LockIsKept' /\ stack' \in [Threads -> Seq(AllSteps)]
      BY <1>1, <2>1, <3>1, <3>3, <3>4, <3>5, <3>6, <3>7, PushKeeps
    <3> QED
      BY <1>1, <2>1, <3>8, PushedStep
  <2> QED
    BY <2>2, <2>3
<1> QED
  BY <1>2, <1>3

\* The caches of the session are read.
LEMMA UseBackendStep ==
    ASSUME FacadeInv, NEW t \in Threads, NEW kind \in Kinds, UseBackend(t, kind)
    PROVE  FacadeInv'
<1>1. /\ stack[t] # <<>> /\ stack[t][1] = <<"backend", kind>>
      /\ UNCHANGED <<setting, lock, request, flag, reply, closed, raw, public, backend, calls, failures>>
  BY DEF UseBackend, AtKind, caches
<1>2. CASE backend.cache[kind] # NoValue
  <2>1. backend.cache[kind] \in Values
    BY <1>2 DEF FacadeInv, FacadeTypeOK
  <2>2. Pop(t) /\ got' = [got EXCEPT ![t][kind] = backend.cache[kind]]
    BY <1>2 DEF UseBackend
  <2>3. stack[t][1] \notin Stores(kind)
    BY <1>1 DEF Stores
  <2> QED
    BY <1>1, <2>1, <2>2, <2>3, GotFromCache
<1>3. CASE backend.cache[kind] = NoValue
  <2> DEFINE new == (IF kind = "realization" THEN <<<<"backend", "classes">>>> ELSE <<>>)
                      \o <<<<"build", kind>>>>
  <2>1. Push(t, new) /\ got' = got
    BY <1>3 DEF UseBackend
  <2>2. CASE kind = "realization"
    <3>1. new \in Seq(InnerSteps)
      BY <2>2 DEF InnerSteps, Kinds
    <3>2. Len(new) = 2 /\ new[1] = <<"backend", "classes">> /\ new[2] = <<"build", kind>>
      BY <2>2
    <3> HIDE DEF new
    <3>3. new # <<>> /\ \A i \in 1..Len(new) : new[i] # <<"verdict">> /\ new[i] # <<"fresh">>
      BY <3>2
    <3>4. \A k \in Kinds :
            /\ Supplied(new, UsesGot(t, k), Fills(k))
            /\ Supplied(new, UsesRaw(k), Stores(k))
      BY <2>2, <3>2 DEF Supplied, UsesGot, UsesRaw, Fills, Stores, Kinds
    <3>5. \A k \in Kinds :
            /\ stack[t][1] \in Fills(k) => \E j \in 1..Len(new) : new[j] \in Fills(k)
            /\ stack[t][1] \in Stores(k) => \E j \in 1..Len(new) : new[j] \in Stores(k)
      BY <1>1, <3>2, Suppliers
    <3>6. \A i \in 1..Len(new), k \in Kinds :
            new[i] = <<"build", k>> =>
              /\ backend.cache[k] = NoValue
              /\ i = 1 \/ (i = 2 /\ k = "realization"
                             /\ new[1] \in {<<"backend", "classes">>, <<"build", "classes">>})
      <4>1. \A i \in 1..Len(new), k \in Kinds : new[i] = <<"build", k>> => i = 2 /\ k = kind
        BY <3>2
      <4> QED
        BY <1>3, <2>2, <3>2, <4>1
    <3>7. /\ stack[t][1] \in InnerSteps \ {<<"verdict">>, <<"fresh">>}
          /\ stack[t][1][1] # "build" /\ stack[t][1] # <<"backend", "classes">>
      BY <1>1, <2>2 DEF InnerSteps
    <3>8. LockIsKept' /\ stack' \in [Threads -> Seq(AllSteps)]
      BY <1>1, <2>1, <3>1, <3>3, <3>4, <3>5, <3>6, <3>7, PushKeeps
    <3> QED
      BY <1>1, <2>1, <3>8, PushedStep
  <2>3. CASE kind # "realization"
    <3>1. new = <<<<"build", kind>>>>
      BY <2>3
    <3>2. new \in Seq(InnerSteps) /\ Len(new) = 1 /\ new[1] = <<"build", kind>>
      BY <3>1 DEF InnerSteps
    <3> HIDE DEF new
    <3>3. new # <<>> /\ \A i \in 1..Len(new) : new[i] # <<"verdict">> /\ new[i] # <<"fresh">>
      <4>1. new # <<>> /\ \A i \in 1..Len(new) : i = 1
        BY <3>2
      <4>2. new[1] # <<"verdict">> /\ new[1] # <<"fresh">>
        BY <3>2
      <4> QED BY <4>1, <4>2
    <3>4. \A k \in Kinds :
            /\ Supplied(new, UsesGot(t, k), Fills(k))
            /\ Supplied(new, UsesRaw(k), Stores(k))
      BY <2>3, <3>2 DEF Supplied, UsesGot, UsesRaw, Fills, Stores, Kinds
    <3>5. \A k \in Kinds :
            /\ stack[t][1] \in Fills(k) => \E j \in 1..Len(new) : new[j] \in Fills(k)
            /\ stack[t][1] \in Stores(k) => \E j \in 1..Len(new) : new[j] \in Stores(k)
      BY <1>1, <3>2, Suppliers
    <3>6. \A i \in 1..Len(new), k \in Kinds :
            new[i] = <<"build", k>> =>
              /\ backend.cache[k] = NoValue
              /\ i = 1 \/ (i = 2 /\ k = "realization"
                             /\ new[1] \in {<<"backend", "classes">>, <<"build", "classes">>})
      <4>1. \A i \in 1..Len(new), k \in Kinds : new[i] = <<"build", k>> => i = 1 /\ k = kind
        BY <3>2
      <4> QED
        BY <1>3, <4>1
    <3>7. /\ stack[t][1] \in InnerSteps \ {<<"verdict">>, <<"fresh">>}
          /\ stack[t][1][1] # "build"
          /\ stack[t][1] = <<"backend", "classes">> => new = <<<<"build", "classes">>>>
      BY <1>1, <3>1 DEF InnerSteps
    <3>8. LockIsKept' /\ stack' \in [Threads -> Seq(AllSteps)]
      BY <1>1, <2>1, <3>2, <3>3, <3>4, <3>5, <3>6, <3>7, PushKeeps
    <3> QED
      BY <1>1, <2>1, <3>8, PushedStep
  <2> QED
    BY <2>2, <2>3
<1> QED
  BY <1>2, <1>3

\* A class query asks for what its engine stands on.
LEMMA QueryStep ==
    ASSUME FacadeInv, NEW t \in Threads, Query(t)
    PROVE  FacadeInv'
<1> DEFINE new == (IF backend.engine THEN <<>>
                   ELSE <<<<"backend", "classes">>, <<"backend", "realization">>, <<"engine">>>>)
                    \o <<<<"run">>>>
<1>1. /\ stack[t] # <<>> /\ stack[t][1][1] = "query" /\ Push(t, new)
      /\ UNCHANGED <<setting, lock, request, flag, got, reply, closed, raw, public, backend, calls, failures>>
  BY DEF Query, AtStep, caches
<1>2. stack[t][1] = <<"query">> /\ stack[t][1] \in InnerSteps
  BY <1>1, Phases, StepByName
<1>3. new \in Seq(InnerSteps) /\ new # <<>>
  <2>1. CASE backend.engine
    BY <2>1 DEF InnerSteps
  <2>2. CASE ~backend.engine
    BY <2>2 DEF InnerSteps, Kinds
  <2> QED
    BY <2>1, <2>2
<1>4. \A i \in 1..Len(new) :
          new[i] \in {<<"backend", "classes">>, <<"backend", "realization">>, <<"engine">>, <<"run">>}
  <2>1. CASE backend.engine
    BY <2>1
  <2>2. CASE ~backend.engine
    <3>1. /\ Len(new) = 4 /\ new[1] = <<"backend", "classes">> /\ new[2] = <<"backend", "realization">>
          /\ new[3] = <<"engine">> /\ new[4] = <<"run">>
      BY <2>2
    <3> HIDE DEF new
    <3> QED
      BY <3>1
  <2> QED
    BY <2>1, <2>2
<1> HIDE DEF new
<1>5. /\ \A i \in 1..Len(new) : new[i] # <<"verdict">> /\ new[i] # <<"fresh">>
      /\ \A i \in 1..Len(new), k \in Kinds : new[i] # <<"build", k>>
      /\ \A i \in 1..Len(new), k \in Kinds : new[i] \notin UsesGot(t, k) /\ new[i] \notin UsesRaw(k)
  BY <1>4 DEF UsesGot, UsesRaw
<1>6. \A k \in Kinds : Supplied(new, UsesGot(t, k), Fills(k)) /\ Supplied(new, UsesRaw(k), Stores(k))
  BY <1>5 DEF Supplied
<1>7. /\ stack[t][1] # <<"verdict">> /\ stack[t][1] # <<"fresh">>
      /\ stack[t][1][1] # "build" /\ stack[t][1] # <<"backend", "classes">>
      /\ \A k \in Kinds : stack[t][1] \notin Fills(k) /\ stack[t][1] \notin Stores(k)
  BY <1>2 DEF Fills, Stores
<1>8. LockIsKept' /\ stack' \in [Threads -> Seq(AllSteps)]
  BY <1>1, <1>2, <1>3, <1>5, <1>6, <1>7, PushKeeps
<1> QED
  BY <1>1, <1>8, PushedStep

\* The invariant of an open reasoner, from its parts.
LEMMA OpenKept ==
    ASSUME FacadeInv, ~closed, FacadeTypeOK', LockIsKept', UNCHANGED <<setting, closed>>,
           backend'.closed = backend.closed, backend'.closes = backend.closes,
           ValuesAreBuilt', CachesAgree'
    PROVE  FacadeInv'
<1>1. ClosedTogether'
  <2>1. closed' = backend'.closed
    BY DEF FacadeInv, ClosedTogether
  <2>2. ~closed'
    OBVIOUS
  <2> QED
    BY <2>1, <2>2 DEF ClosedTogether
<1>2. (backend.closes = (IF closed THEN 1 ELSE 0))'
  BY DEF FacadeInv
<1> QED
  BY <1>1, <1>2 DEF FacadeInv

\* A public result is the raw one.
LEMMA PublishStep ==
    ASSUME FacadeInv, NEW t \in Threads, NEW kind \in Kinds, Publish(t, kind)
    PROVE  FacadeInv'
<1>1. /\ stack[t] # <<>> /\ stack[t][1] = <<"publish", kind>> /\ ~closed
      /\ public' = [public EXCEPT ![kind] = got[t][kind]] /\ Pop(t)
      /\ UNCHANGED <<setting, lock, request, flag, got, reply, closed, raw, backend, calls, failures>>
  BY DEF Publish, AtKind
<1>2. /\ stack[t][1] \in InnerSteps /\ stack[t][1] # <<"verdict">> /\ stack[t][1] # <<"fresh">>
      /\ \A k \in Kinds : stack[t][1] \notin Fills(k) /\ stack[t][1] \notin Stores(k)
  BY <1>1, Suppliers DEF InnerSteps
<1>3. Working(t)
  BY <1>1, <1>2, Phases
<1>4. got[t][kind] # NoValue /\ got[t][kind] = backend.cache[kind] /\ raw[kind] # NoValue
  <2>1. stack[t][1] \in UsesGot(t, kind) /\ stack[t][1] \in UsesRaw(kind)
    BY <1>1 DEF UsesGot, UsesRaw
  <2> QED
    BY <1>1, <1>3, <2>1, HeadIsReady
<1>5. got[t][kind] = raw[kind]
  BY <1>4 DEF FacadeInv, CachesAgree
<1>6. LockIsKept' /\ stack' \in [Threads -> Seq(AllSteps)]
  BY <1>1, <1>2, PopKeeps
<1>7. /\ public' \in [Kinds -> Values \cup {NoValue}] /\ public'[kind] = raw[kind]
      /\ \A k \in Kinds \ {kind} : public'[k] = public[k]
  BY <1>1, <1>5 DEF FacadeInv, FacadeTypeOK
<1>8. FacadeTypeOK'
  BY <1>1, <1>6, <1>7 DEF FacadeInv, FacadeTypeOK
<1>9. CachesAgree'
  <2>1. \A k \in Kinds : public'[k] # NoValue => public'[k] = raw[k]
    BY <1>7 DEF FacadeInv, CachesAgree
  <2> QED
    BY <1>1, <2>1 DEF FacadeInv, CachesAgree
<1>10. ValuesAreBuilt'
  <2>1. Verdicts' = Verdicts
    BY <1>1 DEF Verdicts
  <2> QED
    BY <1>1, <2>1 DEF FacadeInv, ValuesAreBuilt
<1> QED
  BY <1>1, <1>6, <1>8, <1>9, <1>10, OpenKept

\* A raw result is the backend's, and a realization agrees with the classes.
LEMMA AcceptStep ==
    ASSUME FacadeInv, NEW t \in Threads, NEW kind \in Kinds, Accept(t, kind)
    PROVE  FacadeInv'
<1>1. /\ stack[t] # <<>> /\ stack[t][1] = <<"accept", kind>> /\ ~closed
      /\ UNCHANGED <<setting, request, flag, got, closed, public, backend, calls, failures>>
  BY DEF Accept, AtKind
<1>2. /\ stack[t][1] \in InnerSteps /\ stack[t][1] # <<"verdict">> /\ stack[t][1] # <<"fresh">>
      /\ \A k \in Kinds : stack[t][1] \notin Fills(k)
      /\ \A k \in Kinds : stack[t][1] \in Stores(k) => k = kind
  BY <1>1, Suppliers DEF InnerSteps
<1>3. Working(t) /\ lock.owner = t /\ request[t] \in Requests
  BY <1>1, <1>2, Phases
<1> DEFINE refused == kind = "realization" /\ got[t][kind].taxonomy # got[t]["classes"].taxonomy
<1>4. CASE refused
  <2>1. Unwind(t, "error") /\ raw' = raw
    BY <1>4 DEF Accept
  <2>2. backend' = [backend EXCEPT !.verdict = backend.verdict] /\ failures' \in Nat
    BY <1>1 DEF FacadeInv, FacadeTypeOK
  <2> QED
    BY <1>1, <1>3, <2>1, <2>2, Reached, UnwindStep
<1>5. CASE ~refused
  <2>1. raw' = [raw EXCEPT ![kind] = got[t][kind]] /\ Pop(t) /\ UNCHANGED <<lock, reply>>
    BY <1>5 DEF Accept
  <2>2. got[t][kind] # NoValue /\ got[t][kind] = backend.cache[kind]
    <3>1. stack[t][1] \in UsesGot(t, kind)
      BY <1>1 DEF UsesGot
    <3> QED
      BY <1>1, <1>3, <3>1, HeadIsReady
  <2>3. /\ raw' \in [Kinds -> Values \cup {NoValue}] /\ raw'[kind] = backend.cache[kind]
        /\ \A k \in Kinds \ {kind} : raw'[k] = raw[k]
    BY <2>1, <2>2 DEF FacadeInv, FacadeTypeOK
  <2>4. LockIsKept' /\ stack' \in [Threads -> Seq(AllSteps)]
    <3>1. \A k \in Kinds :
            /\ got[t][k] # NoValue \/ stack[t][1] \in Fills(k) => got'[t][k] # NoValue
            /\ raw[k] # NoValue \/ stack[t][1] \in Stores(k) => raw'[k] # NoValue
      BY <1>1, <1>2, <2>2, <2>3
    <3> QED
      BY <1>1, <1>2, <2>1, <3>1, PopKeeps
  <2>5. FacadeTypeOK'
    BY <1>1, <2>1, <2>3, <2>4 DEF FacadeInv, FacadeTypeOK
  <2>6. CachesAgree'
    <3>1. \A k \in Kinds : raw'[k] # NoValue => raw'[k] = backend.cache[k]
      BY <2>3 DEF FacadeInv, CachesAgree
    <3>2. \A k \in Kinds : raw[k] # NoValue => raw'[k] = raw[k]
      BY <2>3 DEF FacadeInv, CachesAgree
    <3>3. \A k \in Kinds : public[k] # NoValue => public[k] = raw'[k]
      BY <3>2 DEF FacadeInv, CachesAgree
    <3>4. raw'["realization"] # NoValue =>
            raw'["classes"] # NoValue /\ raw'["realization"].taxonomy = raw'["classes"].taxonomy
      <4>1. "classes" \in Kinds /\ "realization" \in Kinds
        BY DEF Kinds
      <4>2. CASE kind = "realization"
        <5>1. stack[t][1] \in UsesGot(t, "classes") /\ stack[t][1] \in UsesRaw("classes")
          BY <1>1, <4>2 DEF UsesGot, UsesRaw
        <5>2. got[t]["classes"] = backend.cache["classes"] /\ raw["classes"] # NoValue
          BY <1>1, <1>3, <4>1, <5>1, HeadIsReady
        <5>3. raw'["classes"] = raw["classes"] /\ raw["classes"] = backend.cache["classes"]
          BY <2>3, <4>1, <4>2, <5>2 DEF FacadeInv, CachesAgree
        <5>4. got[t]["realization"].taxonomy = got[t]["classes"].taxonomy
          BY <1>5, <4>2
        <5> QED
          BY <2>2, <2>3, <4>2, <5>2, <5>3, <5>4
      <4>3. CASE kind # "realization"
        <5>1. raw'["realization"] = raw["realization"]
          BY <2>3, <4>1, <4>3
        <5>2. raw["realization"] # NoValue =>
                raw["classes"] # NoValue /\ raw["realization"].taxonomy = raw["classes"].taxonomy
          BY DEF FacadeInv, CachesAgree
        <5> QED
          BY <3>2, <4>1, <5>1, <5>2
      <4> QED
        BY <4>2, <4>3
    <3> QED
      BY <1>1, <3>1, <3>3, <3>4 DEF CachesAgree
  <2>7. ValuesAreBuilt'
    <3>1. Verdicts' = Verdicts
      BY <1>1 DEF Verdicts
    <3> QED
      BY <1>1, <3>1 DEF FacadeInv, ValuesAreBuilt
  <2> QED
    BY <1>1, <2>4, <2>5, <2>6, <2>7, OpenKept
<1> QED
  BY <1>4, <1>5

\* A result is built into an empty cache.
LEMMA BuildStep ==
    ASSUME FacadeInv, NEW t \in Threads, NEW kind \in Kinds, Build(t, kind)
    PROVE  FacadeInv'
<1>1. /\ stack[t] # <<>> /\ stack[t][1] = <<"build", kind>> /\ ~closed /\ Pop(t)
      /\ UNCHANGED <<setting, lock, request, flag, reply, closed, raw, public, calls, failures>>
  BY DEF Build, AtKind, caches
<1>2. PICK v \in AfterRun(kind) :
        /\ backend' = [backend EXCEPT !.verdict = v, !.cache[kind] = Built(t, kind, v)]
        /\ got' = [got EXCEPT ![t][kind] = Built(t, kind, v)]
  BY DEF Build
<1> DEFINE value == Built(t, kind, v)
<1>3. /\ stack[t][1] \in InnerSteps /\ stack[t][1] # <<"verdict">> /\ stack[t][1] # <<"fresh">>
      /\ \A k \in Kinds : stack[t][1] \notin Stores(k)
      /\ \A k \in Kinds : stack[t][1] \in Fills(k) => k = kind
  BY <1>1, Suppliers DEF InnerSteps
<1>4. Working(t) /\ stack[t] \in Seq(AllSteps)
  BY <1>1, <1>3, Phases
<1>5. backend.cache[kind] = NoValue
  <2>1. 1 \in 1..Len(stack[t])
    BY <1>1, <1>4
  <2> QED
    BY <1>1, <1>4, <2>1 DEF Working, BuildsOnce
<1>6. v \in Verdicts /\ v \in BOOLEAN
  BY Reached
<1>7. Shape(v) \in Shapes
  BY DEF Shape, Shapes
<1>8. value \in Values /\ value.shape = Shape(v)
  <2>1. CASE kind = "realization"
    <3>1. "classes" \in Kinds
      BY DEF Kinds
    <3>2. stack[t][1] \in UsesGot(t, "classes")
      BY <1>1, <2>1 DEF UsesGot
    <3>3. got[t]["classes"] # NoValue
      BY <1>1, <1>4, <3>1, <3>2, HeadIsReady
    <3>4. got[t]["classes"] \in Values
      BY <3>1, <3>3 DEF FacadeInv, FacadeTypeOK
    <3>5. got[t]["classes"].taxonomy \in Shapes
      BY <3>4 DEF Values
    <3> QED
      BY <1>7, <2>1, <3>5 DEF Built, Values
  <2>2. CASE kind # "realization"
    BY <1>7, <2>2 DEF Built, Values
  <2> QED
    BY <2>1, <2>2
<1>9. value # NoValue
  BY <1>8, MarkersAssumption
<1> HIDE DEF value
<1>10. /\ backend' = [backend EXCEPT !.verdict = v, !.cache[kind] = value]
       /\ got' = [got EXCEPT ![t][kind] = value]
  BY <1>2 DEF value
<1>11. /\ got' \in [Threads -> [Kinds -> Values \cup {NoValue}]]
       /\ got'[t][kind] = value
       /\ \A k \in Kinds \ {kind} : got'[t][k] = got[t][k]
       /\ \A u \in Threads \ {t} : got'[u] = got[u]
  BY <1>8, <1>10, GotChanged
<1>12. /\ backend' \in [closed : BOOLEAN, verdict : BOOLEAN \cup {NoValue},
                        cache : [Kinds -> Values \cup {NoValue}], engine : BOOLEAN, closes : 0..1]
       /\ backend'.closed = backend.closed /\ backend'.closes = backend.closes /\ backend'.verdict = v
       /\ backend'.cache[kind] = value
       /\ \A k \in Kinds \ {kind} : backend'.cache[k] = backend.cache[k]
  <2>1. backend \in [closed : BOOLEAN, verdict : BOOLEAN \cup {NoValue},
                     cache : [Kinds -> Values \cup {NoValue}], engine : BOOLEAN, closes : 0..1]
    BY DEF FacadeInv, FacadeTypeOK
  <2> QED
    BY <1>6, <1>8, <1>10, <2>1
<1>13. LockIsKept' /\ stack' \in [Threads -> Seq(AllSteps)]
  <2>1. \A k \in Kinds :
          /\ got[t][k] # NoValue \/ stack[t][1] \in Fills(k) => got'[t][k] # NoValue
          /\ raw[k] # NoValue \/ stack[t][1] \in Stores(k) => raw'[k] # NoValue
          /\ backend'.cache[k] = backend.cache[k] \/ stack[t][1] = <<"build", k>>
    BY <1>1, <1>3, <1>9, <1>11, <1>12
  <2> QED
    BY <1>1, <1>3, <1>11, <2>1, PopKeeps
<1>14. FacadeTypeOK'
  BY <1>1, <1>11, <1>12, <1>13 DEF FacadeInv, FacadeTypeOK
<1>15. CachesAgree'
  <2>1. raw[kind] = NoValue
    BY <1>5 DEF FacadeInv, CachesAgree
  <2>2. \A k \in Kinds : raw[k] # NoValue => raw[k] = backend'.cache[k]
    BY <1>12, <2>1 DEF FacadeInv, CachesAgree
  <2> QED
    BY <1>1, <2>2 DEF FacadeInv, CachesAgree
<1>16. ValuesAreBuilt'
  <2>1. Verdicts' = Verdicts
    BY <1>1 DEF Verdicts
  <2>2. \A u \in Threads, k \in Kinds : got'[u][k] \in {NoValue, backend'.cache[k]}
    BY <1>5, <1>11, <1>12, Reached
  <2>3. \A k \in Kinds : backend'.cache[k] # NoValue =>
            backend'.cache[k].shape \in {Shape(w) : w \in Verdicts}
    BY <1>6, <1>8, <1>12 DEF FacadeInv, ValuesAreBuilt
  <2> QED
    BY <1>6, <1>12, <2>1, <2>2, <2>3 DEF ValuesAreBuilt
<1> QED
  BY <1>1, <1>12, <1>13, <1>14, <1>15, <1>16, OpenKept

\* The answer of a call.
LEMMA AnswerTyped ==
    ASSUME FacadeInv, NEW t \in Threads, stack[t] # <<>>, stack[t][1] = <<"reply">>
    PROVE  Answer(t) \in Replies /\ Answer(t) # NoReply
<1>1. Working(t) /\ request[t] \in Requests
  BY Phases
<1>2. ShapeOf(t) \in Shapes \cup {"none"}
  <2> DEFINE kind == KindOf(request[t].method)
  <2>1. CASE kind = "none"
    BY <2>1 DEF ShapeOf
  <2>2. CASE kind # "none"
    <3>1. kind \in Kinds
      BY <2>2 DEF KindOf, Kinds
    <3>2. stack[t][1] \in UsesGot(t, kind)
      BY <3>1 DEF UsesGot
    <3>3. got[t][kind] # NoValue
      BY <1>1, <3>1, <3>2, HeadIsReady
    <3>4. got[t][kind] \in Values
      BY <3>1, <3>3 DEF FacadeInv, FacadeTypeOK
    <3>5. got[t][kind].shape \in Shapes
      BY <3>4 DEF Values
    <3> QED
      BY <2>2, <3>5 DEF ShapeOf
  <2> QED
    BY <2>1, <2>2
<1>3. flag[t] \in BOOLEAN
  BY DEF FacadeInv, FacadeTypeOK
<1>4. Answer(t) \in Replies
  BY <1>2, <1>3 DEF Answer, Replies
<1> QED
  BY <1>4, MarkersAssumption

\* The outcome of a call whose last step is done.
LEMMA OutcomeKept ==
    ASSUME FacadeInv, NEW t \in Threads, stack[t] # <<>>,
           stack[t][1] \in {<<"reply">>, <<"close">>, <<"closing">>},
           Pop(t), NEW o \in Replies, reply' = [reply EXCEPT ![t] = o],
           UNCHANGED <<lock, request, flag, got>>
    PROVE  /\ LockIsKept' /\ stack' \in [Threads -> Seq(AllSteps)]
           /\ reply' \in [Threads -> Replies \cup {NoReply}]
<1>1. lock.owner = t /\ request[t] \in Requests /\ Tail(stack[t]) = <<Unlock>> /\ lock.depth = 1
  BY Phases DEF Closing
<1>2. <<Unlock>> \in Seq(AllSteps)
  BY DEF AllSteps, Unlock
<1>3. stack' = [stack EXCEPT ![t] = <<Unlock>>]
  BY <1>1 DEF Pop
<1>4. /\ stack'[t] = <<Unlock>> /\ \A u \in Threads \ {t} : stack'[u] = stack[u]
      /\ stack' \in [Threads -> Seq(AllSteps)]
  BY <1>2, <1>3, StackChanged
<1>5. /\ reply'[t] = o /\ o # NoReply /\ \A u \in Threads \ {t} : reply'[u] = reply[u]
      /\ reply' \in [Threads -> Replies \cup {NoReply}]
  BY MarkersAssumption DEF FacadeInv, FacadeTypeOK
<1>6. Returning(t)'
  BY <1>1, <1>4, <1>5 DEF Returning
<1> QED
  BY <1>1, <1>4, <1>5, <1>6, OthersKept

\* A call answers.
LEMMA ReplyStep ==
    ASSUME FacadeInv, NEW t \in Threads, Reply(t)
    PROVE  FacadeInv'
<1>1. /\ stack[t] # <<>> /\ stack[t][1][1] = "reply" /\ Pop(t)
      /\ reply' = [reply EXCEPT ![t] = Answer(t)]
      /\ UNCHANGED <<setting, lock, request, flag, got, closed, raw, public, backend, calls, failures>>
  BY DEF Reply, AtStep, caches
<1>2. stack[t][1] = <<"reply">>
  BY <1>1, Phases, StepByName
<1>3. Answer(t) \in Replies
  BY <1>1, <1>2, AnswerTyped
<1>4. /\ LockIsKept' /\ stack' \in [Threads -> Seq(AllSteps)]
      /\ reply' \in [Threads -> Replies \cup {NoReply}]
  BY <1>1, <1>2, <1>3, OutcomeKept
<1>5. FacadeTypeOK'
  BY <1>1, <1>4 DEF FacadeInv, FacadeTypeOK
<1> QED
  BY <1>1, <1>4, <1>5, Reached, SharedKept

\* close() finds the reasoner closed, or begins to close it.
LEMMA CloseStep ==
    ASSUME FacadeInv, NEW t \in Threads, Close(t)
    PROVE  FacadeInv'
<1>1. /\ stack[t] # <<>> /\ stack[t][1][1] = "close"
      /\ UNCHANGED <<setting, lock, request, flag, got, closed, raw, public, backend, calls, failures>>
  BY DEF Close, AtStep, caches
<1>2. stack[t][1] = <<"close">>
  BY <1>1, Phases, StepByName
<1>3. lock.owner = t /\ Closing(t) /\ Tail(stack[t]) = <<Unlock>> /\ request[t] \in Requests
  BY <1>1, <1>2, Phases
<1>4. CASE closed
  <2>1. Pop(t) /\ reply' = [reply EXCEPT ![t] = Raised("closed")]
    BY <1>4 DEF Close
  <2>2. Raised("closed") \in Replies
    BY DEF Raised, Replies
  <2>3. /\ LockIsKept' /\ stack' \in [Threads -> Seq(AllSteps)]
        /\ reply' \in [Threads -> Replies \cup {NoReply}]
    BY <1>1, <1>2, <2>1, <2>2, OutcomeKept
  <2>4. FacadeTypeOK'
    BY <1>1, <2>3 DEF FacadeInv, FacadeTypeOK
  <2> QED
    BY <1>1, <2>3, <2>4, Reached, SharedKept
<1>5. CASE ~closed
  <2>1. stack' = [stack EXCEPT ![t] = <<<<"closing">>>> \o <<Unlock>>] /\ reply' = reply
    BY <1>3, <1>5 DEF Close, Push
  <2>2. /\ <<<<"closing">>>> \o <<Unlock>> \in Seq(AllSteps)
        /\ <<<<"closing">>>> \o <<Unlock>> = <<<<"closing">>, Unlock>>
    <3>1. <<"closing">> \in AllSteps
      BY DEF AllSteps
    <3> QED
      BY <3>1, StepThenUnlock
  <2>3. /\ stack'[t] = <<<<"closing">>, Unlock>> /\ \A u \in Threads \ {t} : stack'[u] = stack[u]
        /\ stack' \in [Threads -> Seq(AllSteps)]
    BY <2>1, <2>2, StackChanged
  <2>4. Closing(t)'
    BY <1>1, <1>3, <1>5, <2>1, <2>3 DEF Closing
  <2>5. LockIsKept'
    BY <1>1, <1>3, <2>1, <2>3, <2>4, OthersKept
  <2>6. FacadeTypeOK'
    BY <1>1, <2>1, <2>3 DEF FacadeInv, FacadeTypeOK
  <2> QED
    BY <1>1, <2>1, <2>5, <2>6, Reached, SharedKept
<1> QED
  BY <1>4, <1>5

\* The session is closed and with it the reasoner, once.
LEMMA CloseBackendStep ==
    ASSUME FacadeInv, NEW t \in Threads, CloseBackend(t)
    PROVE  FacadeInv'
<1>1. /\ stack[t] # <<>> /\ stack[t][1][1] = "closing" /\ Pop(t)
      /\ backend' = Released /\ closed' = TRUE /\ raw' = Nothing /\ public' = Nothing
      /\ UNCHANGED <<setting, lock, request, flag, got, calls>>
  BY DEF CloseBackend, AtStep
<1>2. stack[t][1] = <<"closing">>
  BY <1>1, Phases, StepByName
<1>3. lock.owner = t /\ Closing(t)
  BY <1>1, <1>2, Phases
<1>4. ~closed
  <2>1. stack[t] # <<<<"close">>, Unlock>>
    BY <1>2
  <2> QED
    BY <1>3, <2>1 DEF Closing
<1>5. PICK o \in {Raised("closed"), Raised("error")} : reply' = [reply EXCEPT ![t] = o]
  BY DEF CloseBackend
<1>6. o \in Replies
  <2>1. Raised("closed") \in Replies /\ Raised("error") \in Replies
    BY DEF Raised, Replies
  <2> QED
    BY <2>1
<1>7. /\ LockIsKept' /\ stack' \in [Threads -> Seq(AllSteps)]
      /\ reply' \in [Threads -> Replies \cup {NoReply}]
  BY <1>1, <1>2, <1>5, <1>6, OutcomeKept
<1>8. failures' \in Nat
  BY DEF CloseBackend, FacadeInv, FacadeTypeOK
<1>9. Nothing \in [Kinds -> Values \cup {NoValue}]
  BY DEF Nothing
<1>10. backend.closes = 0
  BY <1>4 DEF FacadeInv
<1>11. /\ backend' \in [closed : BOOLEAN, verdict : BOOLEAN \cup {NoValue},
                        cache : [Kinds -> Values \cup {NoValue}], engine : BOOLEAN, closes : 0..1]
       /\ backend'.closed = TRUE /\ backend'.closes = 1 /\ backend'.verdict = backend.verdict
       /\ backend'.cache = Nothing
  <2>1. backend \in [closed : BOOLEAN, verdict : BOOLEAN \cup {NoValue},
                     cache : [Kinds -> Values \cup {NoValue}], engine : BOOLEAN, closes : 0..1]
    BY DEF FacadeInv, FacadeTypeOK
  <2>2. backend' = [backend EXCEPT !.closed = TRUE, !.cache = Nothing, !.engine = FALSE,
                                   !.closes = backend.closes + 1]
    BY <1>1 DEF Released
  <2>3. backend' = [closed |-> TRUE, verdict |-> backend.verdict, cache |-> Nothing, engine |-> FALSE,
                    closes |-> 1]
    <3>1. backend.closes + 1 = 1
      BY <1>10
    <3> QED
      BY <2>1, <2>2, <3>1
  <2>4. backend.verdict \in BOOLEAN \cup {NoValue}
    BY <2>1
  <2>5. TRUE \in BOOLEAN /\ FALSE \in BOOLEAN /\ 1 \in 0..1
    OBVIOUS
  <2> QED
    BY <1>9, <2>3, <2>4, <2>5
<1>12. FacadeTypeOK'
  BY <1>1, <1>7, <1>8, <1>9, <1>11 DEF FacadeInv, FacadeTypeOK
<1>13. ClosedTogether'
  BY <1>1, <1>11 DEF ClosedTogether
<1>14. (backend.closes = (IF closed THEN 1 ELSE 0))'
  BY <1>1, <1>11
<1>15. CachesAgree'
  BY <1>1 DEF CachesAgree, Nothing, Kinds
<1>16. ValuesAreBuilt'
  <2>1. Verdicts' = Verdicts
    BY <1>1 DEF Verdicts
  <2>2. \A u \in Threads : got[u] = Nothing
    BY <1>3 DEF FacadeInv, LockIsKept, Outside, Closing
  <2>3. \A u \in Threads, k \in Kinds : got'[u][k] = NoValue
    BY <1>1, <2>2 DEF Nothing
  <2>4. \A k \in Kinds : backend'.cache[k] = NoValue
    BY <1>11 DEF Nothing
  <2> QED
    BY <1>11, <2>1, <2>3, <2>4, Reached DEF ValuesAreBuilt
<1> QED
  BY <1>7, <1>12, <1>13, <1>14, <1>15, <1>16 DEF FacadeInv

\* A new reasoner.
LEMMA InitHolds == Init => FacadeInv
<1> SUFFICES ASSUME Init PROVE FacadeInv
  OBVIOUS
<1>1. Nothing \in [Kinds -> Values \cup {NoValue}] /\ \A k \in Kinds : Nothing[k] = NoValue
  BY DEF Nothing
<1>2. NoThread \notin Threads
  BY MarkersAssumption
<1>3. FacadeTypeOK
  <2>1. backend \in [closed : BOOLEAN, verdict : BOOLEAN \cup {NoValue},
                     cache : [Kinds -> Values \cup {NoValue}], engine : BOOLEAN, closes : 0..1]
    <3>1. FALSE \in BOOLEAN /\ 0 \in 0..1
      OBVIOUS
    <3> QED
      BY <1>1, <3>1 DEF Init
  <2>2. lock \in [owner : Threads \cup {NoThread}, depth : 0..2]
    BY DEF Init
  <2>3. stack \in [Threads -> Seq(AllSteps)] /\ flag \in [Threads -> BOOLEAN]
    BY DEF Init
  <2> QED
    BY <1>1, <2>1, <2>2, <2>3 DEF Init, FacadeTypeOK
<1>4. LockIsKept
  BY <1>2 DEF Init, LockIsKept, Outside
<1>5. ValuesAreBuilt
  BY <1>1 DEF Init, ValuesAreBuilt
<1>6. ClosedTogether
  BY DEF Init, ClosedTogether
<1>7. CachesAgree
  BY <1>1 DEF Init, CachesAgree, Kinds
<1>8. backend.closes = (IF closed THEN 1 ELSE 0)
  BY DEF Init
<1> QED
  BY <1>3, <1>4, <1>5, <1>6, <1>7, <1>8 DEF FacadeInv

\* Every step keeps the invariant.
LEMMA NextKeeps == FacadeInv /\ [Next]_vars => FacadeInv'
<1> SUFFICES ASSUME FacadeInv, [Next]_vars PROVE FacadeInv'
  OBVIOUS
<1>1. CASE UNCHANGED vars
  <2>1. UNCHANGED <<setting, lock, request, stack, flag, got, reply, closed, raw, public, backend,
                    calls, failures>>
    BY <1>1 DEF vars, local, caches
  <2>2. FacadeTypeOK'
    BY <2>1 DEF FacadeInv, FacadeTypeOK
  <2>3. LockIsKept'
    <3>1. \A u \in Threads :
            /\ Working(u) => Working(u)'
            /\ Closing(u) => Closing(u)'
            /\ Returning(u) => Returning(u)'
            /\ Outside(u) => Outside(u)'
      BY <2>1, PhaseKept
    <3> QED
      BY <2>1, <3>1 DEF FacadeInv, LockIsKept
  <2> QED
    BY <2>1, <2>2, <2>3, Reached, SharedKept
<1>2. ASSUME NEW t \in Threads, Step(t) PROVE FacadeInv'
  <2>1. CASE \E kind \in Kinds :
               UsePublic(t, kind) \/ Publish(t, kind) \/ UseRaw(t, kind) \/ Accept(t, kind)
                 \/ UseBackend(t, kind) \/ Build(t, kind)
    BY <2>1, UsePublicStep, PublishStep, UseRawStep, AcceptStep, UseBackendStep, BuildStep
  <2> QED
    BY <1>2, <2>1, AcquireStep, ReleaseStep, RefuseStep, ReadVerdictStep, CheckFreshStep, QueryStep,
       RunStep, ReplyStep, FailStep, CloseStep, CloseBackendStep DEF Step
<1> QED
  BY <1>1, <1>2, CallStep DEF Next

\* However many threads share a reasoner, the lock, the steps a call has left, the caches
\* and what close() does are as the invariant says.
THEOREM FacadeInvariant == Spec => []FacadeInv
  BY InitHolds, NextKeeps, PTL DEF Spec

\* At most one thread is inside the backend, never after its close, and it is closed at
\* most once: the lock of Reasoner is released on every path and taken before every call.
THEOREM BackendCallsAreSerial == Spec => []BackendIsSerial
<1>1. FacadeInv => BackendIsSerial
  <2> SUFFICES ASSUME FacadeInv PROVE BackendIsSerial
    OBVIOUS
  <2>1. ASSUME NEW t \in Threads, Inside(t) PROVE lock.owner = t
    <3>1. stack[t] # <<>> /\ stack[t][1][1] \in BackendSteps \cup {"closing"}
      BY <2>1 DEF Inside
    <3>2. stack[t][1] \in AllSteps
      BY <3>1, Phases
    <3>3. stack[t][1] \in InnerSteps \/ stack[t][1] = <<"closing">>
      BY <3>1, <3>2 DEF AllSteps, BackendSteps
    <3> QED
      BY <3>1, <3>3, Phases
  <2>2. backend.closed => closed
    BY DEF FacadeInv, ClosedTogether
  <2>3. backend.closes <= 1
    BY DEF FacadeInv, FacadeTypeOK
  <2> QED
    BY <2>1, <2>2, <2>3 DEF BackendIsSerial
<1> QED
  BY <1>1, FacadeInvariant, PTL

\* The reasoner and its session are closed together, however close() ends, and then keep
\* no result.
THEOREM ReasonerAndSessionCloseTogether == Spec => []ClosedTogether
<1>1. FacadeInv => ClosedTogether
  BY DEF FacadeInv
<1> QED
  BY <1>1, FacadeInvariant, PTL

\* A public result stands on the raw one, a raw one is the backend's, and a realization was
\* compared with the classification, whatever raised on the way.
THEOREM CachesStayInAgreement == Spec => []CachesAgree
<1>1. FacadeInv => CachesAgree
  BY DEF FacadeInv
<1> QED
  BY <1>1, FacadeInvariant, PTL

(***************************************************************************)
(* The refinement                                                          *)
(***************************************************************************)

\* What a call answers is allowed by the ontology and the configuration.
LEMMA AnswerAllowed ==
    ASSUME FacadeInv, NEW t \in Threads, stack[t] # <<>>, stack[t][1] = <<"reply">>
    PROVE  Answer(t) \in Allowed(request[t], setting)
<1> DEFINE r == request[t]
           kind == KindOf(r.method)
           shapes == IF kind = "none" THEN {"none"} ELSE {Shape(v) : v \in Verdicts}
           flags == IF r.method = "inspect" THEN {FALSE} ELSE Verdicts
<1>1. Working(t) /\ r \in Requests
  BY Phases
<1>2. FreshPasses(t) /\ (stack[t][1] \in UsesFlag(t) => flag[t] \in Verdicts)
  BY <1>1, HeadIsReady
<1>3. ShapeOf(t) \in shapes
  <2>1. CASE kind = "none"
    BY <2>1 DEF ShapeOf
  <2>2. CASE kind # "none"
    <3>1. kind \in Kinds
      BY <2>2 DEF KindOf, Kinds
    <3>2. stack[t][1] \in UsesGot(t, kind)
      BY <3>1 DEF UsesGot
    <3>3. got[t][kind] # NoValue /\ got[t][kind] = backend.cache[kind]
      BY <1>1, <3>1, <3>2, HeadIsReady
    <3>4. got[t][kind].shape \in {Shape(v) : v \in Verdicts}
      BY <3>1, <3>3 DEF FacadeInv, ValuesAreBuilt
    <3> QED
      BY <2>2, <3>4 DEF ShapeOf
  <2> QED
    BY <2>1, <2>2
<1>4. flag[t] \in flags
  <2>1. CASE r.method = "inspect"
    <3>1. ~flag[t] /\ flag[t] \in BOOLEAN
      BY <1>1, <2>1 DEF Working, Ready, FacadeInv, FacadeTypeOK
    <3>2. flag[t] = FALSE
      BY <3>1
    <3> QED
      BY <2>1, <3>2
  <2>2. CASE r.method # "inspect"
    BY <1>2, <2>2 DEF UsesFlag
  <2> QED
    BY <2>1, <2>2
<1>5. Answer(t) \in [outcome : {"answer"}, shape : shapes, inconsistent : flags]
  <2> HIDE DEF shapes, flags
  <2> QED
    BY <1>3, <1>4 DEF Answer
<1>6. ~(r.fresh /\ ~setting.allowFresh /\ (r.method = "entailed" \/ TRUE \notin Verdicts))
  BY <1>2 DEF FreshPasses
<1> QED
  BY <1>5, <1>6 DEF Allowed, Verdicts

\* A fresh entity is refused only where the ontology and the configuration allow it.
LEMMA RefusalAllowed ==
    ASSUME FacadeInv, NEW t \in Threads, stack[t] # <<>>, stack[t][1] = <<"fresh">>, Working(t),
           request[t].fresh, ~setting.allowFresh, request[t].method = "entailed" \/ ~flag[t]
    PROVE  Raised("FreshEntityError") \in Allowed(request[t], setting)
<1>1. request[t].method = "entailed" \/ FALSE \in Verdicts
  <2>1. CASE request[t].method # "entailed"
    <3>1. stack[t][1] \in UsesFlag(t)
      BY <2>1 DEF UsesFlag
    <3>2. flag[t] \in Verdicts
      BY <3>1, HeadIsReady
    <3>3. flag[t] = FALSE
      <4>1. flag[t] \in BOOLEAN
        BY DEF FacadeInv, FacadeTypeOK
      <4> QED
        BY <2>1, <4>1
    <3> QED
      BY <3>2, <3>3
  <2> QED
    BY <2>1
<1> QED
  BY <1>1 DEF Allowed, Verdicts

\* A call that works and raises takes effect in the contract.
LEMMA UnwindServes ==
    ASSUME FacadeInv, NEW t \in Threads, Working(t), request[t] \in Requests, NEW e, Unwind(t, e),
           UNCHANGED <<setting, request, closed>>,
           IF closed THEN e = "ReasonerClosedError"
                     ELSE Raised(e) \in Allowed(request[t], setting) \cup {Raised("error")}
    PROVE  Contract!Serve(t)
<1>1. request[t].method # "close" /\ reply[t] = NoReply
  BY DEF Working
<1>2. request[t] # NoRequest
  BY MarkersAssumption
<1>3. reply' = [reply EXCEPT ![t] = Raised(e)]
  BY DEF Unwind
<1> QED
  BY <1>1, <1>2, <1>3 DEF Contract!Serve, Contract!Outcomes

\* Every step of the facade is a step of the contract or leaves what it speaks of alone.
LEMMA StepServes ==
    ASSUME FacadeInv, NEW t \in Threads, Step(t)
    PROVE  Contract!Serve(t) \/ Contract!Return(t) \/ UNCHANGED <<closed, request, reply, setting>>
<1> DEFINE still == UNCHANGED <<closed, request, reply, setting>>
<1>1. CASE Acquire(t) \/ ReadVerdict(t) \/ Query(t) \/ CreateEngine(t) \/ Run(t)
  BY <1>1 DEF Acquire, ReadVerdict, Query, CreateEngine, Run
<1>2. CASE Release(t)
  <2>1. stack[t] # <<>> /\ stack[t][1][1] = "unlock" /\ UNCHANGED <<setting, closed>>
    BY <1>2 DEF Release, AtStep
  <2>2. stack[t][1] = Unlock
    BY <2>1, Phases, StepByName DEF Unlock
  <2>3. CASE Returning(t)
    <3>1. reply[t] # NoReply /\ Len(stack[t]) = 1
      BY <2>3 DEF Returning
    <3>2. request' = [request EXCEPT ![t] = NoRequest] /\ reply' = [reply EXCEPT ![t] = NoReply]
      BY <1>2, <3>1 DEF Release
    <3> QED
      BY <2>1, <3>1, <3>2 DEF Contract!Return
  <2>4. CASE stack[t] = <<Unlock, <<"reply">>, Unlock>>
    <3>1. Len(stack[t]) = 3
      BY <2>4
    <3> QED
      BY <1>2, <2>1, <3>1 DEF Release
  <2> QED
    BY <2>1, <2>2, <2>3, <2>4, Phases
<1>3. CASE Refuse(t)
  <2>1. /\ closed /\ stack[t] # <<>> /\ stack[t][1][1] \notin {"lock", "unlock", "close"}
        /\ Unwind(t, "ReasonerClosedError") /\ UNCHANGED <<setting, request, closed>>
    BY <1>3 DEF Refuse
  <2>2. stack[t][1] \in AllSteps /\ request[t] \in Requests
    BY <2>1, Phases
  <2>3. stack[t][1] # <<"closing">>
    <3>1. ASSUME stack[t][1] = <<"closing">> PROVE FALSE
      <4>1. Closing(t)
        BY <2>1, <3>1, Phases
      <4>2. stack[t] = <<<<"close">>, Unlock>>
        BY <2>1, <4>1 DEF Closing
      <4> QED
        BY <3>1, <4>2
    <3> QED
      BY <3>1
  <2>4. stack[t][1] \in InnerSteps \/ stack[t][1] = <<"reply">>
    BY <2>1, <2>2, <2>3 DEF AllSteps
  <2>5. Working(t)
    BY <2>1, <2>4, Phases
  <2> QED
    BY <2>1, <2>2, <2>5, UnwindServes
<1>4. CASE CheckFresh(t)
  <2>1. /\ stack[t] # <<>> /\ stack[t][1][1] = "fresh" /\ ~closed
        /\ UNCHANGED <<setting, request, closed>>
    BY <1>4 DEF CheckFresh, AtStep
  <2>2. stack[t][1] = <<"fresh">> /\ stack[t][1] \in InnerSteps
    BY <2>1, Phases, StepByName
  <2>3. Working(t) /\ request[t] \in Requests
    BY <2>1, <2>2, Phases
  <2> DEFINE refused == request[t].fresh /\ ~setting.allowFresh /\ (request[t].method = "entailed" \/ ~flag[t])
  <2>4. CASE refused
    <3>1. Unwind(t, "FreshEntityError")
      BY <1>4, <2>4 DEF CheckFresh
    <3>2. Raised("FreshEntityError") \in Allowed(request[t], setting)
      BY <2>1, <2>2, <2>3, <2>4, RefusalAllowed
    <3> QED
      BY <2>1, <2>3, <3>1, <3>2, UnwindServes
  <2>5. CASE ~refused
    BY <1>4, <2>1, <2>5 DEF CheckFresh
  <2> QED
    BY <2>4, <2>5
<1>5. ASSUME NEW kind \in Kinds,
             UsePublic(t, kind) \/ Publish(t, kind) \/ UseRaw(t, kind) \/ UseBackend(t, kind) \/ Build(t, kind)
      PROVE  still
  BY <1>5 DEF UsePublic, Publish, UseRaw, UseBackend, Build
<1>6. ASSUME NEW kind \in Kinds, Accept(t, kind)
      PROVE  Contract!Serve(t) \/ still
  <2>1. /\ stack[t] # <<>> /\ stack[t][1] = <<"accept", kind>> /\ ~closed
        /\ UNCHANGED <<setting, request, closed>>
    BY <1>6 DEF Accept, AtKind
  <2>2. Working(t) /\ request[t] \in Requests
    <3>1. stack[t][1] \in InnerSteps
      BY <2>1 DEF InnerSteps
    <3> QED
      BY <2>1, <3>1, Phases
  <2>3. CASE Unwind(t, "error")
    BY <2>1, <2>2, <2>3, UnwindServes
  <2> QED
    BY <1>6, <2>1, <2>3 DEF Accept
<1>7. CASE Reply(t)
  <2>1. /\ stack[t] # <<>> /\ stack[t][1][1] = "reply" /\ ~closed
        /\ reply' = [reply EXCEPT ![t] = Answer(t)]
        /\ UNCHANGED <<setting, request, closed>>
    BY <1>7 DEF Reply, AtStep
  <2>2. stack[t][1] = <<"reply">>
    BY <2>1, Phases, StepByName
  <2>3. Working(t) /\ request[t] \in Requests
    BY <2>1, <2>2, Phases
  <2>4. Answer(t) \in Allowed(request[t], setting)
    BY <2>1, <2>2, AnswerAllowed
  <2>5. request[t].method # "close" /\ reply[t] = NoReply /\ request[t] # NoRequest
    BY <2>3, MarkersAssumption DEF Working
  <2> QED
    BY <2>1, <2>4, <2>5 DEF Contract!Serve, Contract!Outcomes
<1>8. CASE Fail(t)
  <2>1. /\ stack[t] # <<>> /\ stack[t][1][1] \in BackendSteps \cup CheckedSteps /\ ~closed
        /\ Unwind(t, "error") /\ UNCHANGED <<setting, request, closed>>
    BY <1>8 DEF Fail
  <2>2. stack[t][1] \in AllSteps /\ request[t] \in Requests
    BY <2>1, Phases
  <2>3. stack[t][1] \in InnerSteps \/ stack[t][1] = <<"reply">>
    BY <2>1, <2>2 DEF AllSteps, BackendSteps, CheckedSteps
  <2>4. Working(t)
    BY <2>1, <2>3, Phases
  <2> QED
    BY <2>1, <2>2, <2>4, UnwindServes
<1>9. ASSUME Closing(t), request[t] \in Requests, closed', UNCHANGED <<setting, request>>,
             NEW o \in {Raised("closed"), Raised("error")}, reply' = [reply EXCEPT ![t] = o]
      PROVE  Contract!Serve(t)
  <2>1. request[t].method = "close" /\ reply[t] = NoReply /\ request[t] # NoRequest
    BY <1>9, MarkersAssumption DEF Closing
  <2> QED
    BY <1>9, <2>1 DEF Contract!Serve
<1>10. CASE Close(t)
  <2>1. stack[t] # <<>> /\ stack[t][1][1] = "close" /\ UNCHANGED <<setting, request, closed>>
    BY <1>10 DEF Close, AtStep
  <2>2. stack[t][1] = <<"close">>
    BY <2>1, Phases, StepByName
  <2>3. Closing(t) /\ request[t] \in Requests
    BY <2>1, <2>2, Phases
  <2>4. CASE closed
    <3>1. reply' = [reply EXCEPT ![t] = Raised("closed")]
      BY <1>10, <2>4 DEF Close
    <3>2. closed'
      BY <2>1, <2>4
    <3> QED
      BY <1>9, <2>1, <2>3, <3>1, <3>2
  <2>5. CASE ~closed
    BY <1>10, <2>1, <2>5 DEF Close
  <2> QED
    BY <2>4, <2>5
<1>11. CASE CloseBackend(t)
  <2>1. stack[t] # <<>> /\ stack[t][1][1] = "closing" /\ closed' /\ UNCHANGED <<setting, request>>
    BY <1>11 DEF CloseBackend, AtStep
  <2>2. stack[t][1] = <<"closing">>
    BY <2>1, Phases, StepByName
  <2>3. Closing(t) /\ request[t] \in Requests
    BY <2>1, <2>2, Phases
  <2>4. PICK o \in {Raised("closed"), Raised("error")} : reply' = [reply EXCEPT ![t] = o]
    BY <1>11 DEF CloseBackend
  <2> QED
    BY <1>9, <2>1, <2>3, <2>4
<1> QED
  BY <1>1, <1>2, <1>3, <1>4, <1>5, <1>6, <1>7, <1>8, <1>10, <1>11 DEF Step

\* The facade implements its contract for any number of threads and calls: every call takes
\* effect at one moment, with an answer the ontology allows, and a closed reasoner answers
\* nothing more.
THEOREM FacadeImplementsContract == Spec => ImplementsContract
<1>1. Init => Contract!Init
  BY DEF Init, Contract!Init
<1>2. FacadeInv /\ [Next]_vars => [Contract!Next]_(Contract!vars)
  <2> SUFFICES ASSUME FacadeInv, [Next]_vars PROVE [Contract!Next]_(Contract!vars)
    OBVIOUS
  <2>1. ASSUME UNCHANGED <<closed, request, reply, setting>> PROVE UNCHANGED Contract!vars
    BY <2>1 DEF Contract!vars
  <2>2. CASE UNCHANGED vars
    BY <2>1, <2>2 DEF vars, local
  <2>3. ASSUME NEW t \in Threads, Step(t) PROVE [Contract!Next]_(Contract!vars)
    BY <2>1, <2>3, StepServes DEF Contract!Next
  <2>4. ASSUME NEW t \in Threads, NEW r \in Requests, Call(t, r) PROVE Contract!Next
    <3>1. Contract!Call(t, r)
      BY <2>4 DEF Call, Contract!Call
    <3> QED
      BY <3>1 DEF Contract!Next
  <2> QED
    BY <2>2, <2>3, <2>4 DEF Next
<1> QED
  BY <1>1, <1>2, FacadeInvariant, PTL DEF Spec, ImplementsContract, Contract!Spec

=============================================================================
