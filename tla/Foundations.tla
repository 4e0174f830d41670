---------------------------- MODULE Foundations ----------------------------
(***************************************************************************)
(* Facts that several proofs need: about the sequences that model deques,  *)
(* and about functions defined by recursion over the numbers.              *)
(***************************************************************************)
EXTENDS Naturals, Sequences, Functions, SequenceTheorems, WellFoundedInduction, TLAPS

(***************************************************************************)
(* Deques: what the usual operations do to the set of their elements and   *)
(* to the absence of duplicates                                            *)
(***************************************************************************)

\* The empty deque holds nothing.
LEMMA RangeEmpty == Range(<<>>) = {} /\ IsInjective(<<>>)
  BY DEF Range, IsInjective

\* A one-element deque.
LEMMA RangeSingle ==
  ASSUME NEW x
  PROVE  Range(<<x>>) = {x} /\ IsInjective(<<x>>)
  BY DEF Range, IsInjective

\* Only the empty deque has no element.
LEMMA RangeNonEmpty ==
  ASSUME NEW S, NEW s \in Seq(S), s # <<>>
  PROVE  s[1] \in Range(s) /\ Head(s) = s[1] /\ s[1] \in S /\ Range(s) \subseteq S
  BY DEF Range

\* popleft() removes exactly the head.
LEMMA RangeTail ==
  ASSUME NEW S, NEW s \in Seq(S), s # <<>>
  PROVE  /\ Tail(s) \in Seq(S)
         /\ Range(s) = {Head(s)} \cup Range(Tail(s))
         /\ IsInjective(s) => IsInjective(Tail(s)) /\ Head(s) \notin Range(Tail(s))
<1>1. /\ Len(s) \in Nat /\ Len(s) > 0 /\ DOMAIN s = 1 .. Len(s) /\ Head(s) = s[1]
      /\ Tail(s) \in Seq(S) /\ Len(Tail(s)) = Len(s) - 1
      /\ DOMAIN Tail(s) = 1 .. Len(s) - 1
      /\ \A i \in 1 .. Len(s) - 1 : Tail(s)[i] = s[i + 1]
  OBVIOUS
<1>2. Range(s) \subseteq {Head(s)} \cup Range(Tail(s))
  <2> SUFFICES ASSUME NEW i \in 1 .. Len(s), i # 1
               PROVE  s[i] \in Range(Tail(s))
    BY <1>1 DEF Range
  <2>1. i - 1 \in 1 .. Len(s) - 1 /\ Tail(s)[i - 1] = s[i]
    BY <1>1
  <2> QED BY <2>1, <1>1 DEF Range
<1>3. {Head(s)} \cup Range(Tail(s)) \subseteq Range(s)
  <2>1. \A i \in 1 .. Len(s) - 1 : i + 1 \in 1 .. Len(s)
    BY <1>1
  <2> QED BY <1>1, <2>1 DEF Range
<1>4. ASSUME IsInjective(s)
      PROVE  IsInjective(Tail(s)) /\ Head(s) \notin Range(Tail(s))
  <2>1. \A i \in 1 .. Len(s) - 1 : i + 1 \in 1 .. Len(s) /\ i + 1 # 1
    BY <1>1
  <2>2. \A i, j \in 1 .. Len(s) - 1 : i + 1 = j + 1 => i = j
    BY <1>1
  <2>3. Head(s) \notin Range(Tail(s))
    <3>1. \A i \in 1 .. Len(s) - 1 : Tail(s)[i] # s[1]
      BY <1>1, <1>4, <2>1 DEF IsInjective
    <3> QED BY <3>1, <1>1 DEF Range
  <2>4. IsInjective(Tail(s))
    BY <1>1, <1>4, <2>1, <2>2 DEF IsInjective
  <2> QED BY <2>3, <2>4
<1> QED BY <1>1, <1>2, <1>3, <1>4

\* extend() adds exactly the new elements and keeps a deque duplicate free when
\* the new elements are distinct and new.
LEMMA RangeConcat ==
  ASSUME NEW S, NEW s \in Seq(S), NEW t \in Seq(S)
  PROVE  /\ s \o t \in Seq(S)
         /\ Range(s \o t) = Range(s) \cup Range(t)
         /\ (IsInjective(s) /\ IsInjective(t) /\ Range(s) \cap Range(t) = {})
              => IsInjective(s \o t)
<1>1. /\ s \o t \in Seq(S) /\ Len(s) \in Nat /\ Len(t) \in Nat
      /\ DOMAIN s = 1 .. Len(s) /\ DOMAIN t = 1 .. Len(t)
      /\ Len(s \o t) = Len(s) + Len(t) /\ DOMAIN (s \o t) = 1 .. Len(s) + Len(t)
      /\ \A i \in 1 .. Len(s) : (s \o t)[i] = s[i]
      /\ \A i \in Len(s) + 1 .. Len(s) + Len(t) : (s \o t)[i] = t[i - Len(s)]
  OBVIOUS
<1>2. \A i \in 1 .. Len(s) + Len(t) :
        \/ i \in 1 .. Len(s)
        \/ i \in Len(s) + 1 .. Len(s) + Len(t) /\ i - Len(s) \in 1 .. Len(t)
  BY <1>1
<1>3. Range(s \o t) \subseteq Range(s) \cup Range(t)
  BY <1>1, <1>2 DEF Range
<1>4. Range(s) \subseteq Range(s \o t)
  <2>1. \A i \in 1 .. Len(s) : i \in 1 .. Len(s) + Len(t)
    BY <1>1
  <2> QED BY <1>1, <2>1 DEF Range
<1>5. Range(t) \subseteq Range(s \o t)
  <2> SUFFICES ASSUME NEW i \in 1 .. Len(t)
               PROVE  t[i] \in Range(s \o t)
    BY <1>1 DEF Range
  <2>1. /\ i + Len(s) \in Len(s) + 1 .. Len(s) + Len(t)
        /\ i + Len(s) \in 1 .. Len(s) + Len(t)
        /\ i + Len(s) - Len(s) = i
    BY <1>1
  <2>2. (s \o t)[i + Len(s)] = t[i]
    BY <1>1, <2>1
  <2> QED BY <1>1, <2>1, <2>2 DEF Range
<1>6. ASSUME IsInjective(s), IsInjective(t), Range(s) \cap Range(t) = {}
      PROVE  IsInjective(s \o t)
  <2> SUFFICES ASSUME NEW i \in 1 .. Len(s) + Len(t), NEW j \in 1 .. Len(s) + Len(t),
                      (s \o t)[i] = (s \o t)[j]
               PROVE  i = j
    BY <1>1 DEF IsInjective
  <2>1. CASE i \in 1 .. Len(s) /\ j \in 1 .. Len(s)
    BY <2>1, <1>1, <1>6 DEF IsInjective
  <2>2. CASE i \notin 1 .. Len(s) /\ j \notin 1 .. Len(s)
    <3>1. i - Len(s) \in DOMAIN t /\ j - Len(s) \in DOMAIN t
      BY <2>2, <1>1, <1>2
    <3>2. t[i - Len(s)] = t[j - Len(s)]
      BY <2>2, <1>1, <1>2
    <3>3. i - Len(s) = j - Len(s)
      BY <3>1, <3>2, <1>6 DEF IsInjective
    <3> QED BY <3>3, <1>1
  <2>3. CASE i \in 1 .. Len(s) /\ j \notin 1 .. Len(s)
    <3>1. s[i] = t[j - Len(s)] /\ j - Len(s) \in DOMAIN t
      BY <2>3, <1>1, <1>2
    <3> QED BY <3>1, <2>3, <1>1, <1>6 DEF Range
  <2>4. CASE i \notin 1 .. Len(s) /\ j \in 1 .. Len(s)
    <3>1. s[j] = t[i - Len(s)] /\ i - Len(s) \in DOMAIN t
      BY <2>4, <1>1, <1>2
    <3> QED BY <3>1, <2>4, <1>1, <1>6 DEF Range
  <2> QED BY <2>1, <2>2, <2>3, <2>4
<1> QED BY <1>1, <1>3, <1>4, <1>5, <1>6

\* append(): one element at the back.
LEMMA RangeAppend ==
  ASSUME NEW S, NEW s \in Seq(S), NEW x \in S
  PROVE  /\ Append(s, x) \in Seq(S)
         /\ Append(s, x) # <<>>
         /\ Range(Append(s, x)) = Range(s) \cup {x}
         /\ IsInjective(s) /\ x \notin Range(s) => IsInjective(Append(s, x))
         /\ s # <<>> => Append(s, x)[1] = s[1]
<1> DEFINE t == <<x>>
<1>1. t \in Seq(S) /\ Range(t) = {x} /\ IsInjective(t)
  BY RangeSingle
<1>2. Append(s, x) = s \o t
  BY AppendIsConcat
<1> HIDE DEF t
<1>3. /\ Range(s \o t) = Range(s) \cup {x}
      /\ IsInjective(s) /\ x \notin Range(s) => IsInjective(s \o t)
  BY <1>1, RangeConcat
<1>4. /\ Append(s, x) \in Seq(S) /\ Append(s, x) # <<>>
      /\ s # <<>> => Append(s, x)[1] = s[1]
  BY AppendProperties
<1> QED BY <1>2, <1>3, <1>4

\* appendleft(): one element at the front.
LEMMA RangeCons ==
  ASSUME NEW S, NEW s \in Seq(S), NEW x \in S
  PROVE  /\ <<x>> \o s \in Seq(S)
         /\ <<x>> \o s # <<>>
         /\ (<<x>> \o s)[1] = x
         /\ Len(<<x>> \o s) = Len(s) + 1
         /\ Range(<<x>> \o s) = Range(s) \cup {x}
         /\ IsInjective(s) /\ x \notin Range(s) => IsInjective(<<x>> \o s)
<1> DEFINE t == <<x>>
<1>1. t \in Seq(S) /\ Range(t) = {x} /\ IsInjective(t) /\ Len(t) = 1 /\ t[1] = x
  BY RangeSingle
<1> HIDE DEF t
<1>2. /\ Range(t \o s) = Range(s) \cup {x}
      /\ IsInjective(s) /\ x \notin Range(s) => IsInjective(t \o s)
  BY <1>1, RangeConcat
<1>3. t \o s \in Seq(S) /\ Len(t \o s) = Len(s) + 1 /\ (t \o s)[1] = x
  <2>1. Len(s) \in Nat /\ 1 \in 1 .. 1 + Len(s)
    OBVIOUS
  <2>2. /\ t \o s \in Seq(S) /\ Len(t \o s) = Len(t) + Len(s)
        /\ \A i \in 1 .. Len(t) + Len(s) :
              (t \o s)[i] = IF i <= Len(t) THEN t[i] ELSE s[i - Len(t)]
    BY <1>1, ConcatProperties
  <2> QED BY <1>1, <2>1, <2>2
<1>4. t \o s # <<>>
  BY <1>3
<1> QED BY <1>2, <1>3, <1>4 DEF t

(***************************************************************************)
(* Numbers, and functions defined by recursion                             *)
(***************************************************************************)

\* A nonempty set of numbers has a least element.
LEMMA LeastNumber ==
  ASSUME NEW B \in SUBSET Nat, B # {}
  PROVE  \E n \in B : \A m \in B : n <= m
<1>1. PICK n \in B : \A m \in B : ~(<<m, n>> \in OpToRel(<, Nat))
  BY NatLessThanWellFounded, WFMin
<1>2. \A m \in B : ~(m < n)
  BY <1>1 DEF OpToRel
<1>3. QED
  BY <1>2

\* A set of numbers with 0 and the successors of its elements holds every number.
LEMMA AllNumbers ==
  ASSUME NEW B \in SUBSET Nat, 0 \in B, \A n \in B : n + 1 \in B
  PROVE  B = Nat
<1>1. SUFFICES ASSUME Nat \ B # {}
               PROVE  FALSE
  OBVIOUS
<1>2. PICK n \in Nat \ B : \A m \in Nat \ B : n <= m
  <2>1. Nat \ B \in SUBSET Nat
    OBVIOUS
  <2>2. QED
    BY <1>1, <2>1, LeastNumber
<1>3. n # 0 /\ n - 1 \in Nat /\ ~(n <= n - 1) /\ (n - 1) + 1 = n
  BY <1>2
<1>4. n - 1 \in B
  BY <1>2, <1>3
<1>5. QED
  BY <1>2, <1>3, <1>4

\* f starts at b and goes on as step says.
Iterates(f, X, b, step) ==
    f \in [Nat -> X] /\ f[0] = b /\ \A n \in Nat : f[n + 1] = step[n + 1][f[n]]

\* There is such a function.
LEMMA Recursion ==
  ASSUME NEW X, NEW b \in X, NEW step \in [Nat -> [X -> X]]
  PROVE  \E f : Iterates(f, X, b, step)
<1> DEFINE Goes(g, n) == \A i \in 0 .. n : g[i] = IF i = 0 THEN b ELSE step[i][g[i - 1]]
           B == {n \in Nat : \E g \in [Nat -> X] : Goes(g, n)}
<1>1. 0 \in B
  <2> DEFINE g == [i \in Nat |-> b]
  <2>1. g \in [Nat -> X] /\ Goes(g, 0)
    OBVIOUS
  <2>2. QED
    BY <2>1
<1>2. ASSUME NEW n \in B
      PROVE  n + 1 \in B
  <2>1. PICK g \in [Nat -> X] : Goes(g, n)
    BY <1>2
  <2> DEFINE h == [i \in Nat |-> IF i = n + 1 THEN step[n + 1][g[n]] ELSE g[i]]
  <2>2. n \in Nat /\ n + 1 \in Nat /\ step[n + 1][g[n]] \in X
    BY <1>2, <2>1
  <2>3. h \in [Nat -> X]
    BY <2>1, <2>2
  <2>4. ASSUME NEW i \in 0 .. n + 1
        PROVE  h[i] = IF i = 0 THEN b ELSE step[i][h[i - 1]]
    <3>1. CASE i = n + 1
      <4>1. i # 0 /\ i - 1 = n /\ i \in Nat /\ n # n + 1
        BY <2>2, <3>1
      <4>2. h[i] = step[n + 1][g[n]] /\ h[n] = g[n]
        BY <2>2, <3>1
      <4>3. QED
        BY <3>1, <4>1, <4>2
    <3>2. CASE i # n + 1
      <4>1. i \in 0 .. n /\ i \in Nat
        BY <2>2, <3>2
      <4>2. h[i] = g[i]
        BY <3>2, <4>1
      <4>3. CASE i = 0
        BY <2>1, <4>1, <4>2, <4>3
      <4>4. CASE i # 0
        <5>1. i - 1 \in Nat /\ i - 1 # n + 1
          BY <2>2, <4>1, <4>4
        <5>2. h[i - 1] = g[i - 1]
          BY <5>1
        <5>3. QED
          BY <2>1, <4>1, <4>2, <4>4, <5>2
      <4>5. QED
        BY <4>3, <4>4
    <3>3. QED
      BY <3>1, <3>2
  <2> HIDE DEF h
  <2>5. QED
    BY <2>2, <2>3, <2>4
<1>3. B = Nat
  <2>1. B \in SUBSET Nat
    OBVIOUS
  <2> HIDE DEF B
  <2>2. QED
    BY <1>1, <1>2, <2>1, AllNumbers
<1> DEFINE G(n) == CHOOSE g \in [Nat -> X] : Goes(g, n)
<1>4. ASSUME NEW n \in Nat
      PROVE  G(n) \in [Nat -> X] /\ Goes(G(n), n)
  <2>1. \E g \in [Nat -> X] : Goes(g, n)
    BY <1>3
  <2> HIDE DEF Goes
  <2>2. QED
    BY <2>1
<1> HIDE DEF G
<1>5. ASSUME NEW m \in Nat, NEW k \in Nat, NEW g \in [Nat -> X], NEW h \in [Nat -> X],
             Goes(g, m), Goes(h, k), m <= k
      PROVE  g[m] = h[m]
  <2> DEFINE D == {n \in Nat : n > m \/ g[n] = h[n]}
  <2>1. 0 \in D
    <3>1. 0 \in 0 .. m /\ 0 \in 0 .. k
      OBVIOUS
    <3>2. g[0] = b /\ h[0] = b
      BY <1>5, <3>1
    <3>3. QED
      BY <3>2
  <2>2. ASSUME NEW n \in D
        PROVE  n + 1 \in D
    <3>1. CASE n + 1 > m
      BY <3>1
    <3>2. CASE ~(n + 1 > m)
      <4>1. n \in Nat /\ n + 1 \in 0 .. m /\ n + 1 \in 0 .. k /\ n + 1 # 0 /\ (n + 1) - 1 = n /\ ~(n > m)
        BY <1>5, <2>2, <3>2
      <4>2. g[n] = h[n]
        BY <2>2, <4>1
      <4>3. g[n + 1] = step[n + 1][g[n]]
        BY <1>5, <4>1
      <4>4. h[n + 1] = step[n + 1][h[n]]
        BY <1>5, <4>1
      <4>5. QED
        BY <4>1, <4>2, <4>3, <4>4
    <3>3. QED
      BY <3>1, <3>2
  <2>3. D = Nat
    <3>1. D \in SUBSET Nat
      OBVIOUS
    <3> HIDE DEF D
    <3>2. QED
      BY <2>1, <2>2, <3>1, AllNumbers
  <2>4. m \in D
    BY <2>3
  <2>5. QED
    BY <2>4
<1> DEFINE f == [n \in Nat |-> G(n)[n]]
<1>6. f \in [Nat -> X]
  BY <1>4
<1>7. ASSUME NEW n \in Nat
      PROVE  f[n] = IF n = 0 THEN b ELSE step[n][f[n - 1]]
  <2>1. f[n] = G(n)[n] /\ n \in 0 .. n
    OBVIOUS
  <2>2. CASE n = 0
    BY <1>4, <2>1, <2>2
  <2>3. CASE n # 0
    <3>1. n - 1 \in Nat /\ n - 1 <= n
      BY <2>3
    <3>2. f[n - 1] = G(n - 1)[n - 1]
      BY <3>1
    <3>3. G(n - 1)[n - 1] = G(n)[n - 1]
      <4>1. /\ G(n - 1) \in [Nat -> X] /\ Goes(G(n - 1), n - 1)
            /\ G(n) \in [Nat -> X] /\ Goes(G(n), n)
        BY <1>4, <3>1
      <4> HIDE DEF Goes
      <4>2. QED
        BY <1>5, <3>1, <4>1
    <3>4. G(n)[n] = step[n][G(n)[n - 1]]
      BY <1>4, <2>1, <2>3
    <3>5. QED
      BY <2>1, <2>3, <3>2, <3>3, <3>4
  <2>4. QED
    BY <2>2, <2>3
<1> HIDE DEF f
<1>8. \A n \in Nat : n + 1 \in Nat /\ n + 1 # 0 /\ (n + 1) - 1 = n
  OBVIOUS
<1>9. f[0] = b /\ \A n \in Nat : f[n + 1] = step[n + 1][f[n]]
  BY <1>7, <1>8
<1>10. QED
  BY <1>6, <1>9 DEF Iterates

=============================================================================
