-------------------------- MODULE ReductionProofs --------------------------
(***************************************************************************)
(* Every finite graph is reduced correctly.  The argument follows the      *)
(* phases of the code: ReductionInv has a part for the depth-first search, *)
(* one for the collection of the components, one for the quotient, one for *)
(* the topological order and one for the reduction.  Reachability is       *)
(* stated with closed sets of members (Reach), and shown to be the         *)
(* reference closure Preorder in a section of its own.                     *)
(***************************************************************************)
EXTENDS Reduction, Foundations, FiniteSetTheorems

\* y can be reached from x: it belongs to every set around x that no edge leaves.
Reach(E, S, x, y) ==
    \A C \in SUBSET S : x \in C /\ (\A e \in E : e[1] \in C => e[2] \in C) => y \in C

\* The same for the members of the input, and both ways.
Leads(x, y) == Reach(graph.edges, graph.members, x, y)
Same(x, y) == Leads(x, y) /\ Leads(y, x)
Class(x) == {y \in graph.members : Same(x, y)}

\* The nodes on the stack of the first search.
Entered == {stack[i][1] : i \in DOMAIN stack}

\* What the first search has left behind is complete, or its class is still being searched
\* or has a member that finished later.
Settled(i) ==
    \/ \E n \in Entered : Same(finished[i], n)
    \/ \E j \in DOMAIN finished : j > i /\ Same(finished[i], finished[j])
    \/ \A y \in graph.members : Leads(finished[i], y) => \E j \in 1 .. i : finished[j] = y

\* The first search: the stack is a path, and successors are visited before a node is left.
SearchInv ==
    /\ stack \in Seq(graph.members \X SUBSET graph.members)
    /\ finished \in Seq(graph.members)
    /\ visited = Entered \cup Range(finished)
    /\ Entered \cap Range(finished) = {}
    /\ IsInjective(finished)
    /\ \A i, j \in DOMAIN stack :
            i < j => stack[i][1] # stack[j][1] /\ Leads(stack[i][1], stack[j][1])
    /\ \A i \in DOMAIN stack :
            /\ stack[i][2] \subseteq Successors(stack[i][1])
            /\ Successors(stack[i][1]) \ stack[i][2] \subseteq visited
    /\ \A n \in Range(finished) : Successors(n) \subseteq visited
    /\ \A i \in DOMAIN finished : Settled(i)

\* The component that is being collected, and the members of the finished ones.
Open == component \cup Range(pending)
Collected == UNION nodes

\* The second search: nothing outside the finished components leads into them, and what
\* leads into the open one belongs to it.
CollectInv ==
    /\ stack = <<>> /\ visited = graph.members
    /\ pending \in Seq(graph.members)
    /\ component \subseteq graph.members
    /\ \A X \in nodes : \E n \in graph.members : X = Class(n)
    /\ assigned = Collected \cup Open
    /\ Open \cap Collected = {}
    /\ \A x, y \in Open : Leads(x, y)
    /\ \A c \in Open, y \in graph.members \ Collected : Leads(y, c) => Leads(c, y)
    /\ \A n \in Collected : Predecessors(n) \subseteq Collected
    /\ \A n \in component : Predecessors(n) \subseteq assigned

\* The quotient: a partition into classes of mutual reachability, with the edges between
\* different ones.
QuotientInv ==
    /\ \A X \in nodes : X # {} /\ X \subseteq graph.members /\ \A x, y \in X : Leads(x, y)
    /\ \A n \in graph.members : \E X \in nodes : n \in X
    /\ \A X, Y \in nodes : X \cap Y # {} => X = Y
    /\ arcs = {p \in nodes \X nodes :
                  p[1] # p[2] /\ \E n \in p[1], m \in p[2] : <<n, m>> \in graph.edges}
    /\ graph.call = "quotient_and_reduce" => nodes = {Class(n) : n \in graph.members}
    /\ graph.call = "transitive_reduction" =>
            /\ nodes = {{n} : n \in graph.members}
            /\ \A n \in graph.members : <<n, n>> \notin graph.edges

\* The predecessors of y that are not ordered yet.
Waiting(y) == {x \in nodes : <<x, y>> \in arcs /\ x \notin Range(ordered)}

\* The topological order: predecessors come first, the counters count those that wait.
OrderInv ==
    /\ ordered \in Seq(nodes)
    /\ IsInjective(ordered)
    /\ indegree \in [nodes -> Nat]
    /\ \A y \in nodes : indegree[y] = Cardinality(Waiting(y))
    /\ ready = {y \in nodes \ Range(ordered) : Waiting(y) = {}}
    /\ \A j \in DOMAIN ordered : \A x \in nodes :
            <<x, ordered[j]>> \in arcs => \E i \in DOMAIN ordered : i < j /\ ordered[i] = x

\* What lies above a node of the quotient, and its covers.
Up(x) == {y \in nodes : Reach(arcs, nodes, x, y)}
Covers(x) == {y \in Supers(x) : \A z \in Supers(x) : y \in Up(z) => z = y}

\* The reachability rows that are computed are those of the last nodes of the order.
RowsInv ==
    /\ DOMAIN reachable \subseteq nodes
    /\ DOMAIN reachable = {ordered[i] : i \in (Len(ordered) - Cardinality(DOMAIN reachable) + 1) .. Len(ordered)}
    /\ \A x \in DOMAIN reachable : reachable[x] = Up(x) \ {x}
    /\ pc = "rows" => DOMAIN reachable # nodes
    /\ pc = "bits" => DOMAIN reachable = nodes

ReduceInv ==
    /\ Range(ordered) = nodes
    /\ RowsInv
    /\ sub \subseteq nodes
    /\ direct = {p \in nodes \X nodes : p[1] \notin sub /\ p[2] \in Covers(p[1])}

Phases == {"call", "finish", "collect", "order", "rows", "bits", "mark", "done", "rejected"}

ReductionInv ==
    /\ graph \in Graphs
    /\ pc \in Phases
    /\ SearchInv
    /\ pc \in {"call", "finish"} => assigned = {} /\ pending = <<>> /\ component = {} /\ nodes = {}
    /\ pc \in {"finish", "collect"} => graph.call = "quotient_and_reduce"
    /\ pc = "collect" => CollectInv
    /\ pc \in {"call", "finish", "collect"} => ordered = <<>>
    /\ pc \in {"call", "finish", "collect", "order"} => reachable = <<>> /\ direct = {}
    /\ pc \in {"order", "rows", "bits", "mark", "done"} => QuotientInv /\ OrderInv
    /\ pc \in {"rows", "bits", "mark", "done"} => ReduceInv
    /\ pc = "done" => sub = {}
    /\ pc = "rejected" => /\ graph.call = "transitive_reduction"
                          /\ \E e \in graph.edges : Leads(e[2], e[1])

(***************************************************************************)
(* Numbers and sets of numbers                                             *)
(***************************************************************************)

\* What Min returns.
LEMMA MinIsLeast ==
  ASSUME NEW B \in SUBSET Nat, B # {}
  PROVE  Min(B) \in B /\ \A m \in B : Min(B) <= m
  BY LeastNumber DEF Min

\* What Max returns for positions of a sequence.
LEMMA MaxIsGreatest ==
  ASSUME NEW n \in Nat, NEW B \in SUBSET (1 .. n), B # {}
  PROVE  Max(B) \in B /\ \A m \in B : m <= Max(B)
<1> DEFINE D == {d \in Nat : n - d \in B}
<1>1. D # {}
  <2>1. PICK b \in B : TRUE
    OBVIOUS
  <2>2. n - b \in Nat /\ n - (n - b) = b
    BY <2>1
  <2>3. QED
    BY <2>2
<1>2. PICK d \in D : \A m \in D : d <= m
  <2>1. D \in SUBSET Nat
    OBVIOUS
  <2> HIDE DEF D
  <2>2. QED
    BY <1>1, <2>1, LeastNumber
<1>3. ASSUME NEW m \in B
      PROVE  n - d >= m
  <2>1. n - m \in Nat /\ n - (n - m) = m
    BY <1>3
  <2>2. n - m \in D
    BY <2>1
  <2>3. d <= n - m
    BY <1>2, <2>2
  <2>4. QED
    BY <1>2, <1>3, <2>3
<1>4. \E x \in B : \A y \in B : x >= y
  BY <1>2, <1>3
<1>5. Max(B) \in B /\ \A y \in B : Max(B) >= y
  BY <1>4 DEF Max
<1>6. QED
  BY <1>5

\* A finite set of numbers can be listed in increasing order.
LEMMA AscendingExists ==
  ASSUME NEW T \in SUBSET Nat, IsFiniteSet(T)
  PROVE  \E s \in [1 .. Cardinality(T) -> T] :
            Range(s) = T /\ \A i, j \in DOMAIN s : i < j => s[i] < s[j]
<1> DEFINE Listed(S) == \E s \in [1 .. Cardinality(S) -> S] :
                            Range(s) = S /\ \A i, j \in DOMAIN s : i < j => s[i] < s[j]
           B == {n \in Nat : \A S \in SUBSET Nat : IsFiniteSet(S) /\ Cardinality(S) = n => Listed(S)}
<1>1. 0 \in B
  <2>1. SUFFICES ASSUME NEW S \in SUBSET Nat, IsFiniteSet(S), Cardinality(S) = 0
                 PROVE  Listed(S)
    OBVIOUS
  <2>2. S = {}
    BY <2>1, FS_EmptySet
  <2> DEFINE s == [i \in 1 .. 0 |-> 0]
  <2>3. s \in [1 .. Cardinality(S) -> S] /\ DOMAIN s = {} /\ Range(s) = S
    BY <2>1, <2>2 DEF Range
  <2> HIDE DEF s
  <2>4. QED
    BY <2>3
<1>2. ASSUME NEW n \in B
      PROVE  n + 1 \in B
  <2>1. SUFFICES ASSUME NEW S \in SUBSET Nat, IsFiniteSet(S), Cardinality(S) = n + 1
                 PROVE  Listed(S)
    BY <1>2
  <2>2. S # {}
    BY <2>1, FS_EmptySet
  <2>3. PICK m \in S : \A y \in S : m <= y
    BY <2>2, LeastNumber
  <2> DEFINE R == S \ {m}
  <2>4. R \in SUBSET Nat /\ IsFiniteSet(R) /\ Cardinality(R) = n
    BY <2>1, <2>3, FS_RemoveElement
  <2>5. PICK r \in [1 .. n -> R] : Range(r) = R /\ \A i, j \in DOMAIN r : i < j => r[i] < r[j]
    BY <1>2, <2>4
  <2> DEFINE s == [i \in 1 .. n + 1 |-> IF i = 1 THEN m ELSE r[i - 1]]
  <2>6. \A i \in 1 .. n + 1 : i = 1 \/ i - 1 \in 1 .. n
    BY <1>2
  <2>7. s \in [1 .. n + 1 -> S]
    BY <2>3, <2>5, <2>6
  <2>8. ASSUME NEW i \in 1 .. n + 1, NEW j \in 1 .. n + 1, i < j
        PROVE  s[i] < s[j]
    <3>1. j # 1 /\ j - 1 \in 1 .. n /\ s[j] = r[j - 1] /\ s[j] \in R
      BY <2>5, <2>8
    <3>2. CASE i = 1
      <4>1. s[i] = m /\ m \in Nat /\ s[j] \in S /\ s[j] # m /\ s[j] \in Nat
        BY <2>3, <3>1, <3>2
      <4>2. QED
        BY <2>3, <4>1
    <3>3. CASE i # 1
      <4>1. i - 1 \in 1 .. n /\ s[i] = r[i - 1] /\ i - 1 < j - 1
        BY <2>8, <3>3
      <4>2. QED
        BY <2>5, <3>1, <4>1
    <3>4. QED
      BY <3>2, <3>3
  <2>9. ASSUME NEW x \in S
        PROVE  \E i \in 1 .. n + 1 : s[i] = x
    <3>1. CASE x = m
      <4>1. 1 \in 1 .. n + 1 /\ s[1] = m
        BY <1>2
      <4>2. QED
        BY <3>1, <4>1
    <3>2. CASE x # m
      <4>1. PICK i \in 1 .. n : r[i] = x
        BY <2>5, <3>2 DEF Range
      <4>2. i + 1 \in 1 .. n + 1 /\ i + 1 # 1 /\ (i + 1) - 1 = i
        BY <1>2
      <4>3. s[i + 1] = x
        BY <4>1, <4>2
      <4>4. QED
        BY <4>2, <4>3
    <3>3. QED
      BY <3>1, <3>2
  <2> HIDE DEF s
  <2>10. DOMAIN s = 1 .. n + 1 /\ Range(s) = S
    <3>1. DOMAIN s = 1 .. n + 1 /\ \A i \in 1 .. n + 1 : s[i] \in S
      BY <2>7
    <3>2. Range(s) = {s[i] : i \in 1 .. n + 1}
      BY <3>1 DEF Range
    <3>3. Range(s) \subseteq S
      BY <3>1, <3>2
    <3>4. S \subseteq Range(s)
      BY <2>9, <3>2
    <3>5. QED
      BY <3>1, <3>3, <3>4
  <2>11. s \in [1 .. Cardinality(S) -> S]
    BY <2>1, <2>7
  <2>12. \A i, j \in DOMAIN s : i < j => s[i] < s[j]
    BY <2>8, <2>10
  <2>13. QED
    BY <2>10, <2>11, <2>12
<1>3. B = Nat
  <2>1. B \in SUBSET Nat
    OBVIOUS
  <2> HIDE DEF B
  <2>2. QED
    BY <1>1, <1>2, <2>1, AllNumbers
<1>4. Cardinality(T) \in B
  BY <1>3, FS_CardinalityType
<1>5. QED
  BY <1>4

\* What sorted() returns for a set of IDs.
LEMMA AscendingLists ==
  ASSUME NEW T \in SUBSET Nat, IsFiniteSet(T)
  PROVE  Ascending(T) \in Seq(T) /\ Range(Ascending(T)) = T
<1>1. Ascending(T) \in [1 .. Cardinality(T) -> T] /\ Range(Ascending(T)) = T
  BY AscendingExists DEF Ascending
<1>2. QED
  BY <1>1, FS_CardinalityType

(***************************************************************************)
(* Reachability                                                            *)
(***************************************************************************)

\* Reachability is reflexive, transitive and holds along an edge.
LEMMA ReachIsPreorder ==
  ASSUME NEW S, NEW E \in SUBSET (S \X S)
  PROVE  /\ \A x \in S : Reach(E, S, x, x)
         /\ \A x, y, z : Reach(E, S, x, y) /\ Reach(E, S, y, z) => Reach(E, S, x, z)
         /\ \A e \in E : Reach(E, S, e[1], e[2])
         /\ \A x, y : <<x, y>> \in E => x \in S /\ y \in S /\ Reach(E, S, x, y)
<1>1. \A x \in S : Reach(E, S, x, x)
  BY DEF Reach
<1>2. \A x, y, z : Reach(E, S, x, y) /\ Reach(E, S, y, z) => Reach(E, S, x, z)
  BY DEF Reach
<1>3. \A e \in E : Reach(E, S, e[1], e[2])
  BY DEF Reach
<1>4. ASSUME NEW x, NEW y, <<x, y>> \in E
      PROVE  x \in S /\ y \in S /\ Reach(E, S, x, y)
  <2>1. x \in S /\ y \in S
    BY <1>4
  <2>2. <<x, y>>[1] = x /\ <<x, y>>[2] = y
    OBVIOUS
  <2>3. QED
    BY <1>3, <1>4, <2>1, <2>2
<1>5. QED
  BY <1>1, <1>2, <1>3, <1>4

\* A set that no edge leaves holds what can be reached from it.
LEMMA ReachStaysIn ==
  ASSUME NEW S, NEW E \in SUBSET (S \X S), NEW C \in SUBSET S,
         \A x, y \in S : <<x, y>> \in E /\ x \in C => y \in C,
         NEW x \in C, NEW y, Reach(E, S, x, y)
  PROVE  y \in C
<1>1. ASSUME NEW e \in E, e[1] \in C
      PROVE  e[2] \in C
  <2>1. e[1] \in S /\ e[2] \in S /\ e = <<e[1], e[2]>>
    OBVIOUS
  <2>2. QED
    BY <1>1, <2>1
<1>2. QED
  BY <1>1 DEF Reach

\* What is reached from x is x or reached from a successor of x.
LEMMA ReachFirst ==
  ASSUME NEW S, NEW E \in SUBSET (S \X S), NEW x \in S, NEW y \in S, x # y, Reach(E, S, x, y)
  PROVE  \E z \in S : <<x, z>> \in E /\ Reach(E, S, z, y)
<1> DEFINE C == {x} \cup {w \in S : \E z \in S : <<x, z>> \in E /\ Reach(E, S, z, w)}
<1>1. ASSUME NEW u \in S, NEW w \in S, <<u, w>> \in E, u \in C
      PROVE  w \in C
  <2>1. CASE u = x
    <3>1. Reach(E, S, w, w)
      BY ReachIsPreorder
    <3>2. QED
      BY <1>1, <2>1, <3>1
  <2>2. CASE u # x
    <3>1. PICK z \in S : <<x, z>> \in E /\ Reach(E, S, z, u)
      BY <1>1, <2>2
    <3>2. Reach(E, S, u, w)
      BY <1>1, ReachIsPreorder
    <3>3. Reach(E, S, z, w)
      BY <3>1, <3>2, ReachIsPreorder
    <3>4. QED
      BY <3>1, <3>3
  <2>3. QED
    BY <2>1, <2>2
<1>2. C \in SUBSET S /\ x \in C
  OBVIOUS
<1>3. y \in C
  <2> HIDE DEF C
  <2>1. QED
    BY <1>1, <1>2, ReachStaysIn
<1>4. QED
  BY <1>3

\* Sets that grow by at least the successors of their elements, and by nothing that cannot
\* be reached, hold all that can be reached after as many steps as there are elements.
LEMMA Layers ==
  ASSUME NEW S, IsFiniteSet(S), NEW E \in SUBSET (S \X S), NEW x \in S,
         NEW L \in [Nat -> SUBSET S], x \in L[0],
         \A n \in Nat : L[n] \subseteq L[n + 1],
         \A n \in Nat : \A y, z \in S : y \in L[n] /\ <<y, z>> \in E => z \in L[n + 1],
         \A n \in Nat : \A y \in L[n] : Reach(E, S, x, y)
  PROVE  L[Cardinality(S)] = {y \in S : Reach(E, S, x, y)}
<1> DEFINE All == {y \in S : Reach(E, S, x, y)}
           B == {n \in Nat : x \in L[n] /\ (L[n] = All \/ Cardinality(L[n]) >= n + 1)}
<1>1. \A n \in Nat : L[n] \in SUBSET S /\ L[n] \subseteq All
  OBVIOUS
<1>2. \A n \in Nat : IsFiniteSet(L[n]) /\ Cardinality(L[n]) \in Nat /\ Cardinality(L[n]) <= Cardinality(S)
  BY <1>1, FS_Subset, FS_CardinalityType
<1>3. 0 \in B
  <2>1. Cardinality(L[0]) # 0
    BY <1>2, FS_EmptySet
  <2>2. QED
    BY <1>2, <2>1
<1>4. ASSUME NEW n \in B
      PROVE  n + 1 \in B
  <2>1. n \in Nat /\ n + 1 \in Nat /\ x \in L[n] /\ x \in L[n + 1]
    BY <1>4
  <2>2. CASE L[n] = All
    <3>1. L[n + 1] = All
      BY <1>1, <2>1, <2>2
    <3>2. QED
      BY <2>1, <3>1
  <2>3. CASE L[n] # All
    <3>1. Cardinality(L[n]) >= n + 1
      BY <1>4, <2>3
    <3>2. PICK y \in All : y \notin L[n]
      BY <1>1, <2>1, <2>3
    <3>3. PICK u \in S, w \in S : <<u, w>> \in E /\ u \in L[n] /\ w \notin L[n]
      <4>1. SUFFICES ASSUME \A u, w \in S : <<u, w>> \in E /\ u \in L[n] => w \in L[n]
                     PROVE  FALSE
        OBVIOUS
      <4>2. L[n] \in SUBSET S /\ Reach(E, S, x, y)
        BY <1>1, <2>1
      <4>3. y \in L[n]
        BY <2>1, <4>1, <4>2, ReachStaysIn
      <4>4. QED
        BY <3>2, <4>3
    <3>4. w \in L[n + 1]
      BY <2>1, <3>3
    <3>5. L[n] \cup {w} \in SUBSET L[n + 1]
      BY <2>1, <3>4
    <3>6. Cardinality(L[n] \cup {w}) = Cardinality(L[n]) + 1
      <4>1. IsFiniteSet(L[n]) /\ w \notin L[n]
        BY <1>2, <2>1, <3>3
      <4> DEFINE P == L[n]
      <4>2. IsFiniteSet(P) /\ w \notin P
        BY <4>1
      <4> HIDE DEF P
      <4>3. Cardinality(P \cup {w}) = Cardinality(P) + 1
        BY <4>2, FS_AddElement
      <4>4. QED
        BY <4>3 DEF P
    <3>7. Cardinality(L[n] \cup {w}) <= Cardinality(L[n + 1])
      BY <1>2, <2>1, <3>5, FS_Subset
    <3>8. Cardinality(L[n + 1]) >= (n + 1) + 1
      BY <1>2, <2>1, <3>1, <3>6, <3>7
    <3>9. QED
      BY <2>1, <3>8
  <2>4. QED
    BY <2>2, <2>3
<1>5. B = Nat
  <2>1. B \in SUBSET Nat
    OBVIOUS
  <2> HIDE DEF B
  <2>2. QED
    BY <1>3, <1>4, <2>1, AllNumbers
<1>6. Cardinality(S) \in Nat /\ Cardinality(S) \in B
  BY <1>5, FS_CardinalityType
<1>7. ~(Cardinality(L[Cardinality(S)]) >= Cardinality(S) + 1)
  BY <1>2, <1>6
<1>8. QED
  BY <1>6, <1>7

\* Composition of relations over S.
LEMMA ComposeJoins ==
  ASSUME NEW S, NEW R \in SUBSET (S \X S)
  PROVE  /\ Compose(R, R) \in SUBSET (S \X S)
         /\ \A x, y, z \in S : <<x, y>> \in R /\ <<y, z>> \in R => <<x, z>> \in Compose(R, R)
         /\ \A x, z : <<x, z>> \in Compose(R, R) => \E y \in S : <<x, y>> \in R /\ <<y, z>> \in R
<1>1. ASSUME NEW c \in Compose(R, R)
      PROVE  \E x, y, z \in S : c = <<x, z>> /\ <<x, y>> \in R /\ <<y, z>> \in R
  <2>1. PICK p \in R \X R : p[1][2] = p[2][1] /\ c = <<p[1][1], p[2][2]>>
    BY <1>1 DEF Compose
  <2>2. PICK u \in R, w \in R : p = <<u, w>>
    BY <2>1
  <2>3. u[1] \in S /\ u[2] \in S /\ w[1] \in S /\ w[2] \in S /\ u = <<u[1], u[2]>> /\ w = <<w[1], w[2]>>
    OBVIOUS
  <2>4. u[2] = w[1] /\ c = <<u[1], w[2]>>
    BY <2>1, <2>2
  <2>5. <<u[1], u[2]>> \in R /\ <<u[2], w[2]>> \in R
    BY <2>3, <2>4
  <2>6. QED
    BY <2>3, <2>4, <2>5
<1>2. Compose(R, R) \in SUBSET (S \X S)
  <2>1. ASSUME NEW c \in Compose(R, R)
        PROVE  c \in S \X S
    <3>1. PICK x \in S, z \in S : c = <<x, z>>
      BY <1>1
    <3>2. QED
      BY <3>1
  <2>2. QED
    BY <2>1
<1>3. ASSUME NEW x \in S, NEW y \in S, NEW z \in S, <<x, y>> \in R, <<y, z>> \in R
      PROVE  <<x, z>> \in Compose(R, R)
  <2> DEFINE p == <<<<x, y>>, <<y, z>>>>
  <2>1. p \in R \X R /\ p[1][2] = y /\ p[2][1] = y /\ p[1][1] = x /\ p[2][2] = z
    BY <1>3
  <2> HIDE DEF p
  <2>2. <<p[1][1], p[2][2]>> \in Compose(R, R)
    BY <2>1 DEF Compose
  <2>3. QED
    BY <2>1, <2>2
<1>4. ASSUME NEW x, NEW z, <<x, z>> \in Compose(R, R)
      PROVE  \E y \in S : <<x, y>> \in R /\ <<y, z>> \in R
  <2>1. PICK u \in S, y \in S, w \in S : <<x, z>> = <<u, w>> /\ <<u, y>> \in R /\ <<y, w>> \in R
    BY <1>1, <1>4
  <2>2. u = x /\ w = z
    BY <2>1
  <2>3. QED
    BY <2>1, <2>2
<1>5. QED
  BY <1>2, <1>3, <1>4

\* The reference closure of a finite relation is reachability.
THEOREM PreorderIsReach ==
  ASSUME NEW S, IsFiniteSet(S), NEW E \in SUBSET (S \X S)
  PROVE  Preorder(E, S) = {p \in S \X S : Reach(E, S, p[1], p[2])}
<1> DEFINE X == SUBSET (S \X S)
           b == E \cup {<<x, x>> : x \in S}
           step == [n \in Nat |-> [R \in X |-> Compose(R, R)]]
<1>1. b \in X
  OBVIOUS
<1>2. \A R \in X : Compose(R, R) \in X
  BY ComposeJoins
<1>3. step \in [Nat -> [X -> X]]
  <2> HIDE DEF X
  <2>1. QED
    BY <1>2
<1>4. \A n \in Nat, R \in X : step[n][R] = Compose(R, R)
  OBVIOUS
<1> DEFINE Double(f) == [n \in Nat |-> IF n = 0 THEN b ELSE Compose(f[n - 1], f[n - 1])]
<1>5. \E f \in [Nat -> X] : f = Double(f)
  <2> HIDE DEF X, b, step
  <2>0. PICK f : Iterates(f, X, b, step)
    BY <1>1, <1>3, Recursion
  <2>1. f \in [Nat -> X] /\ f[0] = b /\ \A n \in Nat : f[n + 1] = step[n + 1][f[n]]
    BY <2>0 DEF Iterates
  <2>2. ASSUME NEW n \in Nat
        PROVE  f[n] = Double(f)[n]
    <3>1. n # 0 => n - 1 \in Nat /\ f[n - 1] \in X /\ (n - 1) + 1 = n
      BY <2>1
    <3>2. n # 0 => f[n] = step[n][f[n - 1]]
      BY <2>1, <3>1
    <3>3. QED
      BY <1>4, <2>1, <3>1, <3>2
  <2>3. f = Double(f)
    <3>1. f = [n \in Nat |-> f[n]]
      BY <2>1
    <3>2. QED
      BY <2>2, <3>1
  <2>4. QED
    BY <2>1, <2>3
<1> DEFINE f == CHOOSE f : f = Double(f)
<1>6. Preorder(E, S) = f[Cardinality(S)]
  BY DEF Preorder
<1>7. f = Double(f)
  <2>1. \E g : g = Double(g)
    BY <1>5
  <2> HIDE DEF Double
  <2>2. QED
    BY <2>1
<1> HIDE DEF f
<1>8. f[0] = b /\ \A n \in Nat : f[n + 1] = Compose(f[n], f[n])
  <2>1. \A n \in Nat : n + 1 \in Nat /\ n + 1 # 0 /\ (n + 1) - 1 = n
    OBVIOUS
  <2> HIDE DEF b
  <2>2. \A n \in Nat : f[n] = IF n = 0 THEN b ELSE Compose(f[n - 1], f[n - 1])
    BY <1>7
  <2>3. QED
    BY <2>1, <2>2
<1> DEFINE Good(n) == /\ f[n] \in X
                      /\ \A x \in S : <<x, x>> \in f[n]
                      /\ E \subseteq f[n]
                      /\ \A x, y \in S : <<x, y>> \in f[n] => Reach(E, S, x, y)
           B == {n \in Nat : Good(n)}
<1>9. 0 \in B
  <2>1. ASSUME NEW x \in S, NEW y \in S, <<x, y>> \in b
        PROVE  Reach(E, S, x, y)
    <3>1. <<x, y>> \in E \/ x = y
      BY <2>1
    <3>2. QED
      BY <3>1, ReachIsPreorder
  <2>2. (\A x \in S : <<x, x>> \in b) /\ E \subseteq b
    OBVIOUS
  <2> HIDE DEF b
  <2>3. QED
    BY <1>1, <1>8, <2>1, <2>2
<1>10. ASSUME NEW n \in B
       PROVE  n + 1 \in B
  <2>1. Good(n) /\ n \in Nat /\ n + 1 \in Nat /\ f[n + 1] = Compose(f[n], f[n])
    BY <1>8, <1>10
  <2> DEFINE R == f[n]
             Q == f[n + 1]
  <2>2. /\ Q \in SUBSET (S \X S)
        /\ \A x, y, z \in S : <<x, y>> \in R /\ <<y, z>> \in R => <<x, z>> \in Q
        /\ \A x, z : <<x, z>> \in Q => \E y \in S : <<x, y>> \in R /\ <<y, z>> \in R
    <3>1. R \in SUBSET (S \X S) /\ Q = Compose(R, R)
      BY <2>1
    <3> HIDE DEF R, Q
    <3>2. QED
      BY <3>1, ComposeJoins
  <2>3. \A x \in S : <<x, x>> \in R
    BY <2>1
  <2>4. E \subseteq R
    BY <2>1
  <2>5. \A x, y \in S : <<x, y>> \in R => Reach(E, S, x, y)
    BY <2>1
  <2>6. \A x \in S : <<x, x>> \in Q
    BY <2>2, <2>3
  <2>7. ASSUME NEW e \in E
        PROVE  e \in Q
    <3>1. e = <<e[1], e[2]>> /\ e[1] \in S /\ e[2] \in S
      OBVIOUS
    <3>2. <<e[1], e[2]>> \in R /\ <<e[2], e[2]>> \in R
      BY <2>3, <2>4, <3>1
    <3>3. QED
      BY <2>2, <3>1, <3>2
  <2>8. ASSUME NEW x \in S, NEW z \in S, <<x, z>> \in Q
        PROVE  Reach(E, S, x, z)
    <3>1. PICK y \in S : <<x, y>> \in R /\ <<y, z>> \in R
      BY <2>2, <2>8
    <3>2. Reach(E, S, x, y) /\ Reach(E, S, y, z)
      BY <2>5, <3>1
    <3>3. QED
      BY <3>2, ReachIsPreorder
  <2>9. Good(n + 1)
    BY <2>2, <2>6, <2>7, <2>8
  <2>10. QED
    BY <2>1, <2>9
<1>11. B = Nat
  <2>1. B \in SUBSET Nat
    OBVIOUS
  <2> HIDE DEF B
  <2>2. QED
    BY <1>9, <1>10, <2>1, AllNumbers
<1>12. \A n \in Nat : Good(n)
  BY <1>11
<1> DEFINE N == Cardinality(S)
<1>13. N \in Nat
  BY FS_CardinalityType
<1>14. ASSUME NEW x \in S, NEW y \in S
       PROVE  <<x, y>> \in f[N] <=> Reach(E, S, x, y)
  <2> DEFINE L == [n \in Nat |-> {z \in S : <<x, z>> \in f[n]}]
  <2>1. L \in [Nat -> SUBSET S]
    OBVIOUS
  <2>2. x \in L[0]
    BY <1>12
  <2>3. ASSUME NEW n \in Nat
        PROVE  /\ L[n] \subseteq L[n + 1]
               /\ \A u, w \in S : u \in L[n] /\ <<u, w>> \in E => w \in L[n + 1]
               /\ \A z \in L[n] : Reach(E, S, x, z)
    <3>1. Good(n) /\ n + 1 \in Nat /\ f[n + 1] = Compose(f[n], f[n])
      BY <1>8, <1>12
    <3>2. \A u, v, w \in S : <<u, v>> \in f[n] /\ <<v, w>> \in f[n] => <<u, w>> \in f[n + 1]
      BY <3>1, ComposeJoins
    <3>3. \A z \in S : z \in L[n] <=> <<x, z>> \in f[n]
      OBVIOUS
    <3>4. \A z \in S : z \in L[n + 1] <=> <<x, z>> \in f[n + 1]
      BY <3>1
    <3>5. L[n] \subseteq S
      OBVIOUS
    <3> HIDE DEF L
    <3>6. L[n] \subseteq L[n + 1]
      BY <3>1, <3>2, <3>3, <3>4, <3>5
    <3>7. \A u, w \in S : u \in L[n] /\ <<u, w>> \in E => w \in L[n + 1]
      BY <3>1, <3>2, <3>3, <3>4, <3>5
    <3>8. \A z \in L[n] : Reach(E, S, x, z)
      BY <3>1, <3>3, <3>5
    <3>9. QED
      BY <3>6, <3>7, <3>8
  <2>4. L[N] = {z \in S : Reach(E, S, x, z)}
    <3> HIDE DEF L
    <3>1. QED
      BY <2>1, <2>2, <2>3, Layers
  <2>5. L[N] = {z \in S : <<x, z>> \in f[N]}
    BY <1>13
  <2>6. QED
    BY <2>4, <2>5
<1>15. f[N] \in SUBSET (S \X S)
  BY <1>12, <1>13
<1>16. \A p \in S \X S : p \in f[N] <=> Reach(E, S, p[1], p[2])
  <2>1. SUFFICES ASSUME NEW p \in S \X S
                 PROVE  p \in f[N] <=> Reach(E, S, p[1], p[2])
    OBVIOUS
  <2>2. p[1] \in S /\ p[2] \in S /\ p = <<p[1], p[2]>>
    OBVIOUS
  <2> HIDE DEF N
  <2>3. QED
    BY <1>14, <2>2
<1>17. QED
  BY <1>6, <1>15, <1>16

(***************************************************************************)
(* The graph                                                               *)
(***************************************************************************)

\* What the assumption on the inputs says of one of them.
LEMMA GraphIsFinite ==
  ASSUME graph \in Graphs
  PROVE  /\ graph.call \in {"quotient_and_reduce", "transitive_reduction"}
         /\ graph.members \in SUBSET Nat
         /\ IsFiniteSet(graph.members)
         /\ graph.edges \in SUBSET (graph.members \X graph.members)
  BY GraphsAssumption

\* Reachability between members.
LEMMA LeadsIsPreorder ==
  ASSUME graph \in Graphs
  PROVE  /\ \A x \in graph.members : Leads(x, x)
         /\ \A x, y, z : Leads(x, y) /\ Leads(y, z) => Leads(x, z)
         /\ \A x, y : <<x, y>> \in graph.edges => x \in graph.members /\ y \in graph.members /\ Leads(x, y)
         /\ \A x, y : y \in Successors(x) => <<x, y>> \in graph.edges /\ y \in graph.members /\ Leads(x, y)
         /\ \A x, y : x \in Predecessors(y) => <<x, y>> \in graph.edges /\ x \in graph.members /\ Leads(x, y)
<1>1. graph.edges \in SUBSET (graph.members \X graph.members)
  BY GraphIsFinite
<1> DEFINE E == graph.edges
           S == graph.members
<1>2. /\ \A x \in S : Reach(E, S, x, x)
      /\ \A x, y, z : Reach(E, S, x, y) /\ Reach(E, S, y, z) => Reach(E, S, x, z)
      /\ \A x, y : <<x, y>> \in E => x \in S /\ y \in S /\ Reach(E, S, x, y)
  <2> HIDE DEF E, S
  <2>1. E \in SUBSET (S \X S)
    BY <1>1 DEF E, S
  <2>2. QED
    BY <2>1, ReachIsPreorder
<1>3. QED
  BY <1>2 DEF Leads, Successors, Predecessors

\* The operators that depend on the graph alone do not change with it.
LEMMA SameGraph ==
  ASSUME graph' = graph
  PROVE  /\ \A x, y : Leads(x, y)' <=> Leads(x, y)
         /\ \A x, y : Same(x, y)' <=> Same(x, y)
         /\ \A x : Class(x)' = Class(x)
         /\ \A x : Successors(x)' = Successors(x)
         /\ \A x : Predecessors(x)' = Predecessors(x)
<1>1. \A x, y : Leads(x, y)' <=> Leads(x, y)
  BY DEF Leads
<1>2. \A x, y : Same(x, y)' <=> Same(x, y)
  BY <1>1 DEF Same
<1>3. \A x : Class(x)' = Class(x)
  BY <1>2 DEF Class
<1>4. QED
  BY <1>1, <1>2, <1>3 DEF Successors, Predecessors

(***************************************************************************)
(* _finishing_order                                                        *)
(***************************************************************************)

\* stack[-1] and what is below it.
LEMMA FrontIsPrefix ==
  ASSUME NEW T, NEW s \in Seq(T), s # <<>>
  PROVE  /\ Len(s) \in Nat /\ Len(s) > 0 /\ DOMAIN s = 1 .. Len(s)
         /\ Last(s) = s[Len(s)] /\ Last(s) \in T
         /\ Front(s) \in Seq(T) /\ Len(Front(s)) = Len(s) - 1
         /\ DOMAIN Front(s) = 1 .. Len(s) - 1
         /\ \A i \in 1 .. Len(s) - 1 : Front(s)[i] = s[i]
         /\ Range(s) = Range(Front(s)) \cup {Last(s)}
<1>1. Len(s) \in Nat /\ Len(s) > 0 /\ DOMAIN s = 1 .. Len(s) /\ Last(s) = s[Len(s)] /\ Last(s) \in T
  BY DEF Last
<1>2. /\ Front(s) \in Seq(T) /\ Len(Front(s)) = Len(s) - 1
      /\ \A i \in 1 .. Len(s) - 1 : Front(s)[i] = s[i]
  BY <1>1 DEF Front
<1>3. DOMAIN Front(s) = 1 .. Len(s) - 1
  BY <1>2
<1>4. ASSUME NEW x
      PROVE  x \in Range(s) <=> x \in Range(Front(s)) \cup {Last(s)}
  <2>1. x \in Range(s) <=> \E i \in 1 .. Len(s) : s[i] = x
    BY <1>1 DEF Range
  <2>2. x \in Range(Front(s)) <=> \E i \in 1 .. Len(s) - 1 : s[i] = x
    BY <1>2, <1>3 DEF Range
  <2>3. \A i : i \in 1 .. Len(s) <=> i \in 1 .. Len(s) - 1 \/ i = Len(s)
    BY <1>1
  <2>4. QED
    BY <1>1, <2>1, <2>2, <2>3
<1>5. QED
  BY <1>1, <1>2, <1>3, <1>4

\* The search starts with the empty stack.
LEMMA SearchInit ==
  ASSUME Init
  PROVE  SearchInv
<1>1. stack = <<>> /\ finished = <<>> /\ visited = {}
  BY DEF Init
<1>2. DOMAIN stack = {} /\ DOMAIN finished = {}
  BY <1>1
<1>3. Entered = {}
  BY <1>2 DEF Entered
<1>4. Range(finished) = {} /\ IsInjective(finished)
  BY <1>1, RangeEmpty
<1>5. QED
  BY <1>1, <1>2, <1>3, <1>4 DEF SearchInv

\* The next start has no path to it on the stack.
LEMMA StartSearchStep ==
  ASSUME graph \in Graphs, SearchInv, StartSearch
  PROVE  SearchInv'
<1> DEFINE M == graph.members
           start == Min(M \ visited)
<1>1. /\ stack = <<>> /\ finished' = finished /\ graph' = graph
      /\ visited # M /\ visited' = visited \cup {start} /\ stack' = <<<<start, Successors(start)>>>>
  BY DEF StartSearch
<1>2. visited \subseteq M /\ visited = Range(finished) /\ finished \in Seq(M)
  <2>1. Entered = {}
    BY <1>1 DEF Entered
  <2>2. finished \in Seq(M) /\ visited = Range(finished)
    BY <2>1 DEF SearchInv
  <2>3. Range(finished) \subseteq M
    BY <2>2 DEF Range
  <2>4. QED
    BY <2>2, <2>3
<1>3. start \in M /\ start \notin visited
  <2>1. M \ visited # {} /\ M \ visited \in SUBSET Nat
    BY <1>1, <1>2, GraphIsFinite
  <2>2. QED
    BY <2>1, MinIsLeast
<1> HIDE DEF start
<1>4. Successors(start) \in SUBSET M
  BY DEF Successors
<1>5. /\ stack' \in Seq(M \X SUBSET M) /\ DOMAIN stack' = {1}
      /\ stack'[1][1] = start /\ stack'[1][2] = Successors(start)
  <2>1. <<start, Successors(start)>> \in M \X SUBSET M
    BY <1>3, <1>4
  <2>2. QED
    BY <1>1, <2>1
<1>6. Entered' = {start}
  BY <1>5 DEF Entered
<1>7. /\ \A x, y : Same(x, y)' <=> Same(x, y)
      /\ \A x, y : Leads(x, y)' <=> Leads(x, y)
      /\ \A x : Successors(x)' = Successors(x)
  BY <1>1, SameGraph
<1>8. \A i \in DOMAIN finished' : Settled(i)'
  <2>1. \A i \in DOMAIN finished : Settled(i)
    BY DEF SearchInv
  <2>2. Entered = {}
    BY <1>1 DEF Entered
  <2>3. QED
    BY <1>1, <1>7, <2>1, <2>2 DEF Settled
<1>9. visited' = Entered' \cup Range(finished)' /\ Entered' \cap Range(finished)' = {}
  BY <1>1, <1>2, <1>3, <1>6
<1>10. \A i, j \in DOMAIN stack' :
          i < j => stack'[i][1] # stack'[j][1] /\ Leads(stack[i][1], stack[j][1])'
  BY <1>5
<1>11. \A i \in DOMAIN stack' :
          /\ stack'[i][2] \subseteq Successors(stack[i][1])'
          /\ Successors(stack[i][1])' \ stack'[i][2] \subseteq visited'
  <2>1. Successors(stack[1][1])' = Successors(start)
    BY <1>1, <1>5 DEF Successors
  <2>2. QED
    BY <1>5, <2>1
<1>12. \A n \in Range(finished)' : Successors(n)' \subseteq visited'
  BY <1>1, <1>7 DEF SearchInv
<1>13. finished' \in Seq(graph'.members) /\ IsInjective(finished)'
  BY <1>1 DEF SearchInv
<1>14. stack' \in Seq(graph'.members \X SUBSET graph'.members)
  BY <1>1, <1>5
<1>15. QED
  BY <1>8, <1>9, <1>10, <1>11, <1>12, <1>13, <1>14 DEF SearchInv

\* The entry on top of the stack.
TopNode == Last(stack)[1]
TopLeft == Last(stack)[2]

\* What the search knows of the top of its stack.
LEMMA TopOfStack ==
  ASSUME graph \in Graphs, SearchInv, stack # <<>>
  PROVE  /\ Len(stack) \in Nat /\ Len(stack) > 0 /\ DOMAIN stack = 1 .. Len(stack)
         /\ stack[Len(stack)][1] = TopNode /\ stack[Len(stack)][2] = TopLeft
         /\ TopNode \in graph.members /\ TopLeft \in SUBSET graph.members
         /\ TopNode \in Entered /\ TopNode \notin Range(finished)
         /\ TopLeft \subseteq Successors(TopNode) /\ Successors(TopNode) \ TopLeft \subseteq visited
         /\ Front(stack) \in Seq(graph.members \X SUBSET graph.members)
         /\ Len(Front(stack)) = Len(stack) - 1 /\ DOMAIN Front(stack) = 1 .. Len(stack) - 1
         /\ \A i \in 1 .. Len(stack) - 1 : Front(stack)[i] = stack[i]
         /\ \A i \in 1 .. Len(stack) : stack[i][1] \in graph.members /\ stack[i][1] \in Entered
<1>0. PICK n, node, left : n = Len(stack) /\ node = TopNode /\ left = TopLeft
  OBVIOUS
<1> DEFINE T == graph.members \X SUBSET graph.members
<1>1. stack \in Seq(T)
  BY DEF SearchInv
<1>2. /\ n \in Nat /\ n > 0 /\ DOMAIN stack = 1 .. n
      /\ Last(stack) = stack[n] /\ Last(stack) \in T
      /\ Front(stack) \in Seq(T) /\ Len(Front(stack)) = n - 1 /\ DOMAIN Front(stack) = 1 .. n - 1
      /\ \A i \in 1 .. n - 1 : Front(stack)[i] = stack[i]
  <2> HIDE DEF T
  <2>1. QED
    BY <1>0, <1>1, FrontIsPrefix
<1>3. stack[n][1] = node /\ stack[n][2] = left /\ n \in DOMAIN stack
  BY <1>0, <1>2 DEF TopNode, TopLeft
<1>4. node \in graph.members /\ left \in SUBSET graph.members
  BY <1>2, <1>3
<1>5. \A i \in 1 .. n : stack[i][1] \in graph.members /\ stack[i][1] \in Entered
  <2>1. \A i \in 1 .. n : stack[i] \in T
    BY <1>1, <1>2
  <2>2. QED
    BY <1>2, <2>1 DEF Entered
<1>6. node \in Entered /\ node \notin Range(finished)
  <2>1. node \in Entered
    BY <1>2, <1>3, <1>5
  <2>2. QED
    BY <2>1 DEF SearchInv
<1>7. left \subseteq Successors(node) /\ Successors(node) \ left \subseteq visited
  BY <1>3 DEF SearchInv
<1>8. QED
  BY <1>0, <1>2, <1>3, <1>4, <1>5, <1>6, <1>7

\* The parts of SearchInv that do not speak of finished nodes, for a stack whose entries
\* are those of before or that extends it.
LEMMA SearchAdvances ==
  ASSUME graph \in Graphs, SearchInv, stack # <<>>, graph' = graph, finished' = finished,
         NEW successor \in TopLeft, successor \in visited',
         visited \subseteq visited',
         stack' \in Seq(graph.members \X SUBSET graph.members),
         DOMAIN stack' = 1 .. Len(stack) \/ DOMAIN stack' = 1 .. Len(stack) + 1,
         \A i \in 1 .. Len(stack) - 1 : stack'[i] = stack[i],
         stack'[Len(stack)] = <<TopNode, TopLeft \ {successor}>>,
         DOMAIN stack' = 1 .. Len(stack) + 1 =>
            /\ stack'[Len(stack) + 1] = <<successor, Successors(successor)>>
            /\ successor \notin visited,
         visited' = Entered' \cup Range(finished),
         Entered' \cap Range(finished) = {},
         Entered \subseteq Entered'
  PROVE  SearchInv'
<1>0. PICK n, node, left : n = Len(stack) /\ node = TopNode /\ left = TopLeft
  OBVIOUS
<1>1. /\ n \in Nat /\ n > 0 /\ DOMAIN stack = 1 .. n
      /\ stack[n][1] = node /\ stack[n][2] = left
      /\ left \subseteq Successors(node) /\ Successors(node) \ left \subseteq visited
      /\ \A i \in 1 .. n : stack[i][1] \in graph.members /\ stack[i][1] \in Entered
  BY <1>0, TopOfStack
<1>20. /\ DOMAIN stack' = 1 .. n \/ DOMAIN stack' = 1 .. n + 1
       /\ \A i \in 1 .. n - 1 : stack'[i] = stack[i]
       /\ stack'[n] = <<node, left \ {successor}>>
       /\ DOMAIN stack' = 1 .. n + 1 =>
            /\ stack'[n + 1] = <<successor, Successors(successor)>>
            /\ successor \notin visited
       /\ successor \in left /\ visited = Entered \cup Range(finished)
  BY <1>0 DEF SearchInv
<1>2. /\ \A x, y : Same(x, y)' <=> Same(x, y)
      /\ \A x, y : Leads(x, y)' <=> Leads(x, y)
      /\ \A x : Successors(x)' = Successors(x)
  BY SameGraph
<1>3. \A i \in 1 .. n : stack'[i][1] = stack[i][1]
  <2>1. n \in 1 .. n /\ \A i \in 1 .. n : i = n \/ i \in 1 .. n - 1
    BY <1>1
  <2>2. stack'[n][1] = node
    BY <1>20
  <2>3. QED
    BY <1>20, <1>1, <2>1, <2>2
<1>4. \A i \in DOMAIN stack' : i \in 1 .. n - 1 \/ i = n \/ (i = n + 1 /\ DOMAIN stack' = 1 .. n + 1)
  BY <1>20, <1>1
<1>5. DOMAIN stack' = 1 .. n + 1 =>
         /\ stack'[n + 1][1] = successor /\ stack'[n + 1][2] = Successors(successor)
         /\ successor \notin Entered
  BY <1>20 DEF SearchInv
<1>6. \A i, j \in 1 .. n :
         i < j => stack[i][1] # stack[j][1] /\ Leads(stack[i][1], stack[j][1])
  BY <1>1 DEF SearchInv
<1>7. ASSUME NEW i \in DOMAIN stack', NEW j \in DOMAIN stack', i < j
      PROVE  stack'[i][1] # stack'[j][1] /\ Leads(stack'[i][1], stack'[j][1])
  <2>1. CASE j # n + 1
    <3>1. i \in 1 .. n /\ j \in 1 .. n
      BY <1>1, <1>4, <1>7, <2>1
    <3>2. QED
      BY <1>3, <1>6, <1>7, <3>1
  <2>2. CASE j = n + 1
    <3>1. /\ i \in 1 .. n /\ i <= n /\ stack'[j][1] = successor /\ successor \notin Entered
      BY <1>1, <1>4, <1>5, <1>7, <2>2
    <3>2. stack'[i][1] = stack[i][1] /\ stack[i][1] \in Entered /\ stack[i][1] \in graph.members
      BY <1>1, <1>3, <3>1
    <3>3. Leads(stack[i][1], node)
      <4>1. CASE i = n
        BY <1>1, <3>2, <4>1, LeadsIsPreorder
      <4>2. CASE i # n
        <5>1. n \in 1 .. n /\ i < n
          BY <1>1, <3>1, <4>2
        <5>2. QED
          BY <1>1, <1>6, <3>1, <5>1
      <4>3. QED
        BY <4>1, <4>2
    <3>4. Leads(node, successor)
      <4>1. successor \in Successors(node)
        BY <1>1, <1>20
      <4>2. QED
        BY <4>1, LeadsIsPreorder
    <3>5. Leads(stack[i][1], successor)
      BY <3>3, <3>4, LeadsIsPreorder
    <3>6. QED
      BY <3>1, <3>2, <3>5
  <2>3. QED
    BY <2>1, <2>2
<1>8. ASSUME NEW i \in DOMAIN stack'
      PROVE  /\ stack'[i][2] \subseteq Successors(stack'[i][1])
             /\ Successors(stack'[i][1]) \ stack'[i][2] \subseteq visited'
  <2>1. CASE i \in 1 .. n - 1
    <3>0. n \in Nat /\ i \in 1 .. n
      BY <1>1, <2>1
    <3>1. i \in DOMAIN stack /\ stack'[i] = stack[i]
      <4>1. DOMAIN stack = 1 .. n
        BY <1>1
      <4>2. stack'[i] = stack[i]
        BY <1>20, <2>1
      <4>3. QED
        BY <3>0, <4>1, <4>2
    <3>2. /\ stack[i][2] \subseteq Successors(stack[i][1])
          /\ Successors(stack[i][1]) \ stack[i][2] \subseteq visited
      BY <3>1 DEF SearchInv
    <3>3. QED
      BY <3>1, <3>2
  <2>2. CASE i = n
    <3>1. stack'[i][1] = node /\ stack'[i][2] = left \ {successor}
      BY <1>20, <2>2
    <3>2. QED
      BY <1>20, <1>1, <3>1
  <2>3. CASE i = n + 1 /\ DOMAIN stack' = 1 .. n + 1
    BY <1>5, <2>3
  <2>4. QED
    BY <1>4, <2>1, <2>2, <2>3
<1>9. ASSUME NEW i \in DOMAIN finished
      PROVE  Settled(i)'
  <2>1. Settled(i)
    BY DEF SearchInv
  <2>2. QED
    BY <1>2, <2>1 DEF Settled
<1>10. /\ finished \in Seq(graph.members) /\ IsInjective(finished)
       /\ \A m \in Range(finished) : Successors(m) \subseteq visited'
  BY DEF SearchInv
<1>11. \A i, j \in DOMAIN stack' :
          i < j => stack'[i][1] # stack'[j][1] /\ Leads(stack[i][1], stack[j][1])'
  <2>1. \A i, j : Leads(stack[i][1], stack[j][1])' <=> Leads(stack'[i][1], stack'[j][1])
    BY DEF Leads
  <2>2. QED
    BY <1>7, <2>1
<1>12. \A i \in DOMAIN stack' :
          /\ stack'[i][2] \subseteq Successors(stack[i][1])'
          /\ Successors(stack[i][1])' \ stack'[i][2] \subseteq visited'
  <2>1. \A i : Successors(stack[i][1])' = Successors(stack'[i][1])
    BY DEF Successors
  <2>2. QED
    BY <1>8, <2>1
<1>13. stack' \in Seq(graph'.members \X SUBSET graph'.members) /\ finished' \in Seq(graph'.members)
  BY <1>10
<1>14. \A m \in Range(finished)' : Successors(m)' \subseteq visited'
  BY <1>2, <1>10
<1>15. visited' = Entered' \cup Range(finished)' /\ Entered' \cap Range(finished)' = {}
  OBVIOUS
<1>16. IsInjective(finished)' /\ \A i \in DOMAIN finished' : Settled(i)'
  BY <1>9, <1>10
<1>17. QED
  BY <1>11, <1>12, <1>13, <1>14, <1>15, <1>16 DEF SearchInv

\* A node is left when its successors are done: everything it leads to has finished, or
\* it leads back to a node on the stack.
LEMMA SearchLeaves ==
  ASSUME graph \in Graphs, SearchInv, stack # <<>>, graph' = graph, visited' = visited,
         TopLeft = {}, stack' = Front(stack), finished' = Append(finished, TopNode)
  PROVE  SearchInv'
<1> DEFINE M == graph.members
<1>0. PICK n, f, node : n = Len(stack) /\ f = Len(finished) /\ node = TopNode
  OBVIOUS
<1>1. /\ n \in Nat /\ n > 0 /\ DOMAIN stack = 1 .. n
      /\ stack[n][1] = node /\ node \in M /\ node \in Entered /\ node \notin Range(finished)
      /\ Successors(node) \subseteq visited
      /\ Front(stack) \in Seq(M \X SUBSET M) /\ DOMAIN Front(stack) = 1 .. n - 1
      /\ \A i \in 1 .. n - 1 : Front(stack)[i] = stack[i]
      /\ \A i \in 1 .. n : stack[i][1] \in M /\ stack[i][1] \in Entered
  BY <1>0, TopOfStack
<1>2. /\ \A x, y : Same(x, y)' <=> Same(x, y)
      /\ \A x, y : Leads(x, y)' <=> Leads(x, y)
      /\ \A x : Successors(x)' = Successors(x)
  BY SameGraph
<1>3. /\ DOMAIN stack' = 1 .. n - 1
      /\ \A i \in 1 .. n - 1 : stack'[i] = stack[i] /\ i \in 1 .. n /\ i < n
  BY <1>1
<1>4. \A i, j \in 1 .. n :
         i < j => stack[i][1] # stack[j][1] /\ Leads(stack[i][1], stack[j][1])
  BY <1>1 DEF SearchInv
<1>5. /\ Entered = Entered' \cup {node}
      /\ node \notin Entered'
      /\ \A x \in Entered' : Leads(x, node) /\ x \in M
  <2>1. \A i : i \in 1 .. n <=> i \in 1 .. n - 1 \/ i = n
    BY <1>1
  <2>2. \A x : x \in Entered <=> \E i \in 1 .. n : x = stack[i][1]
    BY <1>1 DEF Entered
  <2>3. \A x : x \in Entered' <=> \E i \in 1 .. n - 1 : x = stack[i][1]
    BY <1>3 DEF Entered
  <2>4. ASSUME NEW i \in 1 .. n - 1
        PROVE  stack[i][1] # node /\ Leads(stack[i][1], node) /\ stack[i][1] \in M
    <3>1. i \in 1 .. n /\ n \in 1 .. n /\ i < n
      BY <1>1
    <3>2. QED
      BY <1>1, <1>4, <3>1
  <2>5. \A x \in Entered' : x # node /\ Leads(x, node) /\ x \in M
    BY <2>3, <2>4
  <2>6. \A x : x \in Entered <=> x \in Entered' \/ x = node
    BY <1>1, <2>1, <2>2, <2>3
  <2>7. QED
    BY <2>5, <2>6
<1>6. /\ finished \in Seq(M) /\ IsInjective(finished) /\ f \in Nat /\ DOMAIN finished = 1 .. f
      /\ visited = Entered \cup Range(finished) /\ Entered \cap Range(finished) = {}
      /\ \A m \in Range(finished) : Successors(m) \subseteq visited
      /\ \A i \in 1 .. f : Settled(i)
  <2>1. finished \in Seq(M)
    BY DEF SearchInv
  <2>2. f \in Nat /\ DOMAIN finished = 1 .. f
    BY <1>0, <2>1
  <2>3. QED
    BY <2>1, <2>2 DEF SearchInv
<1>7. /\ finished' \in Seq(M) /\ Range(finished') = Range(finished) \cup {node}
      /\ IsInjective(finished')
  <2> HIDE DEF M
  <2>1. QED
    BY <1>0, <1>1, <1>6, RangeAppend
<1>8. /\ DOMAIN finished' = 1 .. f + 1 /\ finished'[f + 1] = node
      /\ \A i \in 1 .. f : finished'[i] = finished[i]
  BY <1>0, <1>1, <1>6
<1>9. visited = Entered' \cup Range(finished') /\ Entered' \cap Range(finished') = {}
  BY <1>5, <1>6, <1>7
<1>10. \A m \in Range(finished') : Successors(m) \subseteq visited
  BY <1>1, <1>6, <1>7
<1>11. ASSUME NEW i \in 1 .. f
       PROVE  Settled(i)'
  <2>1. Settled(i) /\ i \in 1 .. f + 1 /\ finished'[i] = finished[i]
    BY <1>6, <1>8
  <2>2. CASE \E x \in Entered : Same(finished[i], x)
    <3>1. PICK x \in Entered : Same(finished[i], x)
      BY <2>2
    <3>2. CASE x = node
      <4>1. f + 1 \in 1 .. f + 1 /\ f + 1 > i
        BY <1>6
      <4>2. Same(finished'[i], finished'[f + 1])
        BY <1>8, <2>1, <3>1, <3>2
      <4>3. QED
        BY <1>2, <1>8, <4>1, <4>2 DEF Settled
    <3>3. CASE x # node
      <4>1. x \in Entered' /\ Same(finished'[i], x)
        BY <1>5, <2>1, <3>1, <3>3
      <4>2. QED
        BY <1>2, <4>1 DEF Settled
    <3>4. QED
      BY <3>2, <3>3
  <2>3. CASE \E j \in DOMAIN finished : j > i /\ Same(finished[i], finished[j])
    <3>1. PICK j \in 1 .. f : j > i /\ Same(finished[i], finished[j])
      BY <1>6, <2>3
    <3>2. j \in 1 .. f + 1 /\ j > i /\ Same(finished'[i], finished'[j])
      BY <1>6, <1>8, <2>1, <3>1
    <3>3. QED
      BY <1>2, <1>8, <3>2 DEF Settled
  <2>4. CASE \A y \in M : Leads(finished[i], y) => \E j \in 1 .. i : finished[j] = y
    <3>1. \A j \in 1 .. i : j \in 1 .. f
      BY <1>6
    <3>2. \A y \in M : Leads(finished'[i], y) => \E j \in 1 .. i : finished'[j] = y
      BY <1>8, <2>1, <2>4, <3>1
    <3>3. QED
      BY <1>2, <3>2 DEF Settled
  <2>5. QED
    BY <2>1, <2>2, <2>3, <2>4 DEF Settled
<1>12. Settled(f + 1)'
  <2>1. CASE \E x \in Entered' : Same(node, x)
    BY <1>2, <1>8, <2>1 DEF Settled
  <2>2. CASE \A x \in Entered' : ~Same(node, x)
    <3> DEFINE C == {y \in Range(finished') : Leads(node, y)}
    <3>1. \A x \in Entered' : ~Leads(node, x)
      BY <1>5, <2>2 DEF Same
    <3>2. ASSUME NEW y \in M, NEW z \in M, <<y, z>> \in graph.edges, y \in C
          PROVE  z \in C
      <4>1. Leads(node, z)
        BY <3>2, LeadsIsPreorder
      <4>2. z \in visited
        <5>1. CASE z = y
          BY <1>9, <3>2, <5>1
        <5>2. CASE z # y
          BY <1>10, <3>2, <5>2 DEF Successors
        <5>3. QED
          BY <5>1, <5>2
      <4>3. z \notin Entered'
        BY <3>1, <4>1
      <4>4. QED
        BY <1>9, <4>1, <4>2, <4>3
    <3>3. Range(finished') \subseteq M
      BY <1>7 DEF Range
    <3>4. node \in C
      BY <1>1, <1>7, LeadsIsPreorder
    <3>5. ASSUME NEW y \in M, Leads(node, y)
          PROVE  y \in C
      <4>1. C \in SUBSET M /\ graph.edges \in SUBSET (M \X M) /\ Reach(graph.edges, M, node, y)
        BY <3>3, <3>5, GraphIsFinite DEF Leads
      <4> HIDE DEF C
      <4>2. QED
        BY <3>2, <3>4, <4>1, ReachStaysIn
    <3>6. ASSUME NEW y \in M, Leads(node, y)
          PROVE  \E j \in 1 .. f + 1 : finished'[j] = y
      <4>1. y \in Range(finished')
        BY <3>5, <3>6
      <4>2. QED
        BY <1>8, <4>1 DEF Range
    <3>7. QED
      BY <1>2, <1>8, <3>6 DEF Settled
  <2>3. QED
    BY <2>1, <2>2
<1>13. \A i \in DOMAIN finished' : Settled(i)'
  <2>1. \A i : i \in 1 .. f + 1 => i \in 1 .. f \/ i = f + 1
    BY <1>6
  <2>2. QED
    BY <1>8, <1>11, <1>12, <2>1
<1>14. \A i, j \in DOMAIN stack' :
          i < j => stack'[i][1] # stack'[j][1] /\ Leads(stack[i][1], stack[j][1])'
  <2>1. \A i, j : Leads(stack[i][1], stack[j][1])' <=> Leads(stack'[i][1], stack'[j][1])
    BY DEF Leads
  <2>2. QED
    BY <1>3, <1>4, <2>1
<1>15. ASSUME NEW i \in DOMAIN stack'
       PROVE  /\ stack'[i][2] \subseteq Successors(stack[i][1])'
              /\ Successors(stack[i][1])' \ stack'[i][2] \subseteq visited'
  <2>1. Successors(stack[i][1])' = Successors(stack'[i][1])
    BY DEF Successors
  <2>2. stack'[i] = stack[i] /\ i \in DOMAIN stack
    BY <1>1, <1>3
  <2>3. /\ stack[i][2] \subseteq Successors(stack[i][1])
        /\ Successors(stack[i][1]) \ stack[i][2] \subseteq visited
    BY <2>2 DEF SearchInv
  <2>4. QED
    BY <2>1, <2>2, <2>3
<1>16. stack' \in Seq(graph'.members \X SUBSET graph'.members) /\ finished' \in Seq(graph'.members)
  BY <1>1, <1>7
<1>17. \A m \in Range(finished)' : Successors(m)' \subseteq visited'
  BY <1>2, <1>10
<1>18. visited' = Entered' \cup Range(finished)' /\ Entered' \cap Range(finished)' = {}
       /\ IsInjective(finished)'
  BY <1>7, <1>9
<1>19. QED
  BY <1>13, <1>14, <1>15, <1>16, <1>17, <1>18 DEF SearchInv

\* One iteration of the search loop.
LEMMA SearchStep ==
  ASSUME graph \in Graphs, SearchInv, Search
  PROVE  SearchInv'
<1> DEFINE M == graph.members
<1>0. PICK n, node, left, successor :
          n = Len(stack) /\ node = TopNode /\ left = TopLeft /\ successor = Min(left)
  OBVIOUS
<1> DEFINE advanced == Append(Front(stack), <<node, left \ {successor}>>)
<1>1. /\ stack # <<>> /\ graph' = graph
      /\ \/ left = {} /\ stack' = Front(stack) /\ finished' = Append(finished, node) /\ visited' = visited
         \/ left # {} /\ successor \in visited /\ stack' = advanced
              /\ visited' = visited /\ finished' = finished
         \/ left # {} /\ successor \notin visited
              /\ stack' = Append(advanced, <<successor, Successors(successor)>>)
              /\ visited' = visited \cup {successor} /\ finished' = finished
  BY <1>0 DEF Search, searchVars, TopNode, TopLeft
<1>2. /\ n \in Nat /\ n > 0 /\ DOMAIN stack = 1 .. n
      /\ stack[n][1] = node /\ node \in M /\ left \in SUBSET M
      /\ left \subseteq Successors(node)
      /\ Front(stack) \in Seq(M \X SUBSET M) /\ Len(Front(stack)) = n - 1
      /\ \A i \in 1 .. n - 1 : Front(stack)[i] = stack[i]
  BY <1>0, <1>1, TopOfStack
<1>3. left # {} => successor \in left /\ successor \in M
  <2>1. left \in SUBSET Nat
    BY <1>2, GraphIsFinite
  <2>2. QED
    BY <1>0, <1>2, <2>1, MinIsLeast
<1>4. visited = Entered \cup Range(finished) /\ Entered \cap Range(finished) = {}
  BY DEF SearchInv
<1>5. /\ advanced \in Seq(M \X SUBSET M) /\ Len(advanced) = n /\ DOMAIN advanced = 1 .. n
      /\ \A i \in 1 .. n - 1 : advanced[i] = stack[i]
      /\ advanced[n] = <<node, left \ {successor}>>
  <2>1. <<node, left \ {successor}>> \in M \X SUBSET M
    BY <1>2
  <2>2. QED
    BY <1>2, <2>1
<1>6. \A i \in 1 .. n : advanced[i][1] = stack[i][1]
  <2>1. \A i \in 1 .. n : i = n \/ i \in 1 .. n - 1
    BY <1>2
  <2>2. advanced[n][1] = node
    BY <1>5
  <2>3. QED
    BY <1>2, <1>5, <2>1, <2>2
<1> HIDE DEF advanced
<1>7. CASE left = {}
  BY <1>0, <1>1, <1>7, SearchLeaves
<1>8. CASE left # {} /\ successor \in visited /\ stack' = advanced
            /\ visited' = visited /\ finished' = finished
  <2>1. Entered' = Entered
    BY <1>2, <1>5, <1>6, <1>8 DEF Entered
  <2>2. DOMAIN stack' = 1 .. n /\ DOMAIN stack' # 1 .. n + 1
    <3>1. n + 1 \in 1 .. n + 1 /\ n + 1 \notin 1 .. n
      BY <1>2
    <3>2. QED
      BY <1>5, <1>8, <3>1
  <2>3. successor \in left /\ successor \in visited' /\ stack' \in Seq(M \X SUBSET M)
    BY <1>3, <1>5, <1>8
  <2>4. (\A i \in 1 .. n - 1 : stack'[i] = stack[i]) /\ stack'[n] = <<node, left \ {successor}>>
    BY <1>5, <1>8
  <2>5. visited' = Entered' \cup Range(finished) /\ Entered' \cap Range(finished) = {}
    BY <1>4, <1>8, <2>1
  <2>6. QED
    BY <1>0, <1>1, <1>8, <2>1, <2>2, <2>3, <2>4, <2>5, SearchAdvances
<1>9. CASE left # {} /\ successor \notin visited
            /\ stack' = Append(advanced, <<successor, Successors(successor)>>)
            /\ visited' = visited \cup {successor} /\ finished' = finished
  <2>1. successor \in left /\ successor \in M /\ Successors(successor) \in SUBSET M
    BY <1>3, <1>9 DEF Successors
  <2>2. <<successor, Successors(successor)>> \in M \X SUBSET M
    BY <2>1
  <2>3. /\ stack' \in Seq(M \X SUBSET M) /\ DOMAIN stack' = 1 .. n + 1
        /\ \A i \in 1 .. n : stack'[i] = advanced[i]
        /\ stack'[n + 1] = <<successor, Successors(successor)>>
    BY <1>2, <1>5, <1>9, <2>2
  <2>4. \A i : i \in 1 .. n + 1 <=> i \in 1 .. n \/ i = n + 1
    BY <1>2
  <2>5. stack'[n + 1][1] = successor /\ \A i \in 1 .. n : stack'[i][1] = stack[i][1]
    BY <1>6, <2>3
  <2>6. Entered' = Entered \cup {successor}
    <3>1. \A x : x \in Entered' <=> \E i \in 1 .. n + 1 : x = stack'[i][1]
      BY <2>3 DEF Entered
    <3>2. \A x : x \in Entered <=> \E i \in 1 .. n : x = stack[i][1]
      BY <1>2 DEF Entered
    <3>3. QED
      BY <2>4, <2>5, <3>1, <3>2
  <2>7. (\A i \in 1 .. n - 1 : stack'[i] = stack[i]) /\ stack'[n] = <<node, left \ {successor}>>
    <3>1. n \in 1 .. n /\ \A i \in 1 .. n - 1 : i \in 1 .. n
      BY <1>2
    <3>2. QED
      BY <1>5, <2>3, <3>1
  <2>8. visited' = Entered' \cup Range(finished) /\ Entered' \cap Range(finished) = {}
    BY <1>4, <1>9, <2>6
  <2>9. successor \in visited' /\ visited \subseteq visited' /\ Entered \subseteq Entered'
    BY <1>9, <2>6
  <2>10. QED
    BY <1>0, <1>1, <1>9, <2>1, <2>3, <2>7, <2>8, <2>9, SearchAdvances
<1>10. QED
  BY <1>1, <1>7, <1>8, <1>9

(***************************************************************************)
(* _strong_components                                                      *)
(***************************************************************************)

\* Classes of mutual reachability.
LEMMA SameIsEquivalence ==
  ASSUME graph \in Graphs
  PROVE  /\ \A x \in graph.members : Same(x, x) /\ x \in Class(x)
         /\ \A x, y : Same(x, y) => Same(y, x)
         /\ \A x, y, z : Same(x, y) /\ Same(y, z) => Same(x, z)
         /\ \A x, y \in graph.members : Same(x, y) => Class(x) = Class(y)
<1>1. \A x \in graph.members : Same(x, x)
  BY LeadsIsPreorder DEF Same
<1>2. \A x, y : Same(x, y) => Same(y, x)
  BY DEF Same
<1>3. \A x, y, z : Same(x, y) /\ Same(y, z) => Same(x, z)
  BY LeadsIsPreorder DEF Same
<1>4. \A x, y \in graph.members : Same(x, y) => Class(x) = Class(y)
  BY <1>2, <1>3 DEF Class
<1>5. QED
  BY <1>1, <1>2, <1>3, <1>4 DEF Class

\* A completed search: whatever leads to a member has an equivalent that did not finish
\* before it.
LEMMA SearchIsComplete ==
  ASSUME graph \in Graphs, SearchInv, stack = <<>>, visited = graph.members,
         NEW k \in DOMAIN finished, NEW y \in graph.members, Leads(y, finished[k])
  PROVE  \E i \in DOMAIN finished : i >= k /\ Same(finished[i], y)
<1>1. PICK f : f = Len(finished)
  OBVIOUS
<1>2. /\ finished \in Seq(graph.members) /\ f \in Nat /\ DOMAIN finished = 1 .. f
      /\ IsInjective(finished) /\ Entered = {} /\ Range(finished) = graph.members
      /\ \A i \in 1 .. f : Settled(i)
  <2>1. Entered = {}
    BY DEF Entered
  <2>2. finished \in Seq(graph.members)
    BY DEF SearchInv
  <2>3. f \in Nat /\ DOMAIN finished = 1 .. f
    BY <1>1, <2>2
  <2>4. QED
    BY <2>1, <2>2, <2>3 DEF SearchInv
<1> DEFINE I == {i \in 1 .. f : Same(finished[i], y)}
<1>3. I # {}
  <2>1. PICK i \in 1 .. f : finished[i] = y
    BY <1>2 DEF Range
  <2>2. i \in I
    BY <2>1, SameIsEquivalence
  <2>3. QED
    BY <2>2
<1>4. PICK m \in I : \A i \in I : i <= m
  <2>1. I \in SUBSET (1 .. f)
    OBVIOUS
  <2> HIDE DEF I
  <2>2. QED
    BY <1>2, <1>3, <2>1, MaxIsGreatest
<1>5. m \in 1 .. f /\ Same(finished[m], y)
  BY <1>4
<1>6. ~\E j \in DOMAIN finished : j > m /\ Same(finished[m], finished[j])
  <2>1. SUFFICES ASSUME NEW j \in 1 .. f, j > m, Same(finished[m], finished[j])
                 PROVE  FALSE
    BY <1>2
  <2>2. Same(finished[j], y)
    BY <1>5, <2>1, SameIsEquivalence
  <2>3. j <= m
    BY <1>4, <2>2
  <2>4. QED
    BY <1>5, <2>1, <2>3
<1>7. \A z \in graph.members : Leads(finished[m], z) => \E j \in 1 .. m : finished[j] = z
  BY <1>2, <1>5, <1>6 DEF Settled
<1>8. Leads(finished[m], finished[k]) /\ finished[k] \in graph.members
  <2>1. Leads(finished[m], y)
    BY <1>5 DEF Same
  <2>2. QED
    BY <1>2, <2>1, LeadsIsPreorder
<1>9. PICK j \in 1 .. m : finished[j] = finished[k]
  BY <1>7, <1>8
<1>10. j \in 1 .. f /\ j <= m
  BY <1>2, <1>5
<1>11. j = k
  BY <1>2, <1>9, <1>10 DEF IsInjective
<1>12. m >= k
  BY <1>2, <1>5, <1>10, <1>11
<1>13. QED
  BY <1>2, <1>5, <1>12

\* The finished components are a union of classes.
LEMMA CollectedAreClasses ==
  ASSUME graph \in Graphs, CollectInv,
         NEW x \in Collected, NEW y \in graph.members, Same(x, y)
  PROVE  y \in Collected
<1>1. PICK X \in nodes : x \in X
  BY DEF Collected
<1>2. PICK n \in graph.members : X = Class(n)
  BY DEF CollectInv
<1>3. Same(n, x)
  BY <1>1, <1>2 DEF Class
<1>4. Same(n, y)
  BY <1>3, SameIsEquivalence
<1>5. y \in X
  BY <1>2, <1>4 DEF Class
<1>6. QED
  BY <1>5 DEF Collected

\* The second search starts with nothing collected.
LEMMA SearchDoneStep ==
  ASSUME SearchInv, SearchDone, assigned = {}, pending = <<>>, component = {}, nodes = {}
  PROVE  CollectInv'
<1>1. /\ stack' = <<>> /\ visited' = graph'.members
      /\ assigned' = {} /\ pending' = <<>> /\ component' = {} /\ nodes' = {}
  BY DEF SearchDone, searchVars, componentVars
<1>2. Open' = {} /\ Collected' = {}
  BY <1>1, RangeEmpty DEF Open, Collected
<1>3. pending' \in Seq(graph'.members)
  BY <1>1
<1>4. QED
  BY <1>1, <1>2, <1>3 DEF CollectInv

\* The member that finished last is led to by its own class only.
LEMMA OpenStep ==
  ASSUME graph \in Graphs, SearchInv, CollectInv, OpenComponent
  PROVE  CollectInv'
<1> DEFINE M == graph.members
           I == {i \in DOMAIN finished : finished[i] \notin assigned}
<1>1. PICK start : start = finished[Max(I)]
  OBVIOUS
<1>2. /\ pending = <<>> /\ component = {} /\ assigned # M /\ graph' = graph
      /\ assigned' = assigned \cup {start} /\ pending' = <<start>>
      /\ component' = component /\ nodes' = nodes /\ stack' = stack /\ visited' = visited
  BY <1>1 DEF OpenComponent, searchVars
<1>3. stack = <<>> /\ visited = M /\ assigned = Collected /\ Open = {}
  <2>1. Open = {}
    BY <1>2, RangeEmpty DEF Open
  <2>2. QED
    BY <2>1 DEF CollectInv
<1>4. Collected \subseteq M
  <2>1. ASSUME NEW x \in Collected
        PROVE  x \in M
    <3>1. PICK X \in nodes : x \in X
      BY DEF Collected
    <3>2. PICK n \in M : X = Class(n)
      BY DEF CollectInv
    <3>3. QED
      BY <3>1, <3>2 DEF Class
  <2>2. QED
    BY <2>1
<1>5. PICK f : f \in Nat /\ DOMAIN finished = 1 .. f
  BY DEF SearchInv
<1>6. finished \in Seq(M) /\ Range(finished) = M
  <2>1. Entered = {}
    BY <1>3 DEF Entered
  <2>2. QED
    BY <1>3, <2>1 DEF SearchInv
<1>7. I # {}
  <2>1. PICK x \in M : x \notin assigned
    BY <1>2, <1>3, <1>4
  <2>2. PICK i \in DOMAIN finished : finished[i] = x
    BY <1>6, <2>1 DEF Range
  <2>3. i \in I
    BY <2>1, <2>2
  <2>4. QED
    BY <2>3
<1>8. PICK k \in I : k = Max(I) /\ \A i \in I : i <= k
  <2>1. I \in SUBSET (1 .. f)
    BY <1>5
  <2> HIDE DEF I
  <2>2. QED
    BY <1>5, <1>7, <2>1, MaxIsGreatest
<1>9. k \in DOMAIN finished /\ start = finished[k] /\ start \in M /\ start \notin Collected
  BY <1>1, <1>3, <1>6, <1>8
<1>10. ASSUME NEW y \in M \ Collected, Leads(y, start)
       PROVE  Leads(start, y)
  <2>1. PICK i \in DOMAIN finished : i >= k /\ Same(finished[i], y)
    <3>1. Leads(y, finished[k]) /\ y \in M
      BY <1>9, <1>10
    <3>2. QED
      BY <1>3, <1>9, <3>1, SearchIsComplete
  <2>2. finished[i] \notin Collected
    BY <1>10, <2>1, CollectedAreClasses
  <2>3. i \in I
    BY <1>3, <2>2
  <2>4. i <= k /\ i \in Nat /\ k \in Nat
    BY <1>5, <1>8, <1>9, <2>3
  <2>5. i = k
    BY <2>1, <2>4
  <2>6. QED
    BY <1>9, <2>1, <2>5 DEF Same
<1>11. Open' = {start} /\ Collected' = Collected
  <2>1. Range(<<start>>) = {start}
    BY RangeSingle
  <2>2. QED
    BY <1>2, <2>1 DEF Open, Collected
<1>12. /\ \A x, y : Leads(x, y)' <=> Leads(x, y)
       /\ \A x : Class(x)' = Class(x)
       /\ \A x : Predecessors(x)' = Predecessors(x)
  BY <1>2, SameGraph
<1>13. Leads(start, start)
  BY <1>9, LeadsIsPreorder
<1>14. pending' \in Seq(graph'.members)
  <2>1. start \in M
    BY <1>9
  <2> HIDE DEF M
  <2>2. <<start>> \in Seq(M)
    BY <2>1
  <2>3. QED
    BY <1>2, <2>2 DEF M
<1>15. \A X \in nodes' : \E n \in graph'.members : X = Class(n)'
  BY <1>2, <1>12 DEF CollectInv
<1>16. assigned' = Collected' \cup Open' /\ Open' \cap Collected' = {}
  BY <1>2, <1>3, <1>9, <1>11
<1>17. \A x, y \in Open' : Leads(x, y)'
  BY <1>11, <1>12, <1>13
<1>18. \A c \in Open', y \in graph'.members \ Collected' : Leads(y, c)' => Leads(c, y)'
  BY <1>2, <1>10, <1>11, <1>12
<1>19. \A n \in Collected' : Predecessors(n)' \subseteq Collected'
  BY <1>11, <1>12 DEF CollectInv
<1>20. component' = {}
  BY <1>2
<1>21. stack' = <<>> /\ visited' = graph'.members
  BY <1>2, <1>3
<1>22. QED
  BY <1>14, <1>15, <1>16, <1>17, <1>18, <1>19, <1>20, <1>21 DEF CollectInv

\* reversed() of a list keeps its elements.
LEMMA RangeReverse ==
  ASSUME NEW T, NEW s \in Seq(T)
  PROVE  Reverse(s) \in Seq(T) /\ Range(Reverse(s)) = Range(s)
<1>1. PICK n : n = Len(s) /\ n \in Nat /\ DOMAIN s = 1 .. n /\ \A i \in 1 .. n : s[i] \in T
  OBVIOUS
<1>2. \A i \in 1 .. n : (n - i) + 1 \in 1 .. n /\ (n - ((n - i) + 1)) + 1 = i
  BY <1>1
<1>3. Reverse(s) = [i \in 1 .. n |-> s[(n - i) + 1]]
  BY <1>1 DEF Reverse
<1>4. Reverse(s) \in Seq(T) /\ DOMAIN Reverse(s) = 1 .. n
      /\ \A i \in 1 .. n : Reverse(s)[i] = s[(n - i) + 1]
  <2>1. \A i \in 1 .. n : s[(n - i) + 1] \in T
    BY <1>1, <1>2
  <2>2. Reverse(s) \in [1 .. n -> T]
    BY <1>3, <2>1
  <2>3. Reverse(s) \in Seq(T)
    BY <1>1, <2>2
  <2>4. QED
    BY <1>3, <2>2, <2>3
<1>5. ASSUME NEW x
      PROVE  x \in Range(Reverse(s)) <=> x \in Range(s)
  <2>1. x \in Range(s) <=> \E i \in 1 .. n : s[i] = x
    BY <1>1 DEF Range
  <2>2. x \in Range(Reverse(s)) <=> \E i \in 1 .. n : s[(n - i) + 1] = x
    BY <1>4 DEF Range
  <2>3. QED
    BY <1>2, <2>1, <2>2
<1>6. QED
  BY <1>4, <1>5

\* What leads into the open component from outside the collected ones belongs to it.
LEMMA GrowStep ==
  ASSUME graph \in Graphs, CollectInv, GrowComponent
  PROVE  CollectInv'
<1> DEFINE M == graph.members
<1>1. PICK node, fresh : node = Last(pending) /\ fresh = Predecessors(node) \ assigned
  OBVIOUS
<1>2. /\ pending # <<>> /\ graph' = graph /\ component' = component \cup {node}
      /\ assigned' = assigned \cup fresh /\ pending' = Front(pending) \o Reverse(Ascending(fresh))
      /\ nodes' = nodes /\ stack' = stack /\ visited' = visited
  BY <1>1 DEF GrowComponent, searchVars
<1>3. /\ stack = <<>> /\ visited = M /\ pending \in Seq(M) /\ component \subseteq M
      /\ \A X \in nodes : \E n \in M : X = Class(n)
      /\ assigned = Collected \cup Open /\ Open \cap Collected = {}
      /\ \A x, y \in Open : Leads(x, y)
      /\ \A c \in Open, y \in M \ Collected : Leads(y, c) => Leads(c, y)
      /\ \A n \in Collected : Predecessors(n) \subseteq Collected
      /\ \A n \in component : Predecessors(n) \subseteq assigned
  BY DEF CollectInv
<1>4. /\ Front(pending) \in Seq(M) /\ node \in M
      /\ Range(pending) = Range(Front(pending)) \cup {node}
  <2>1. PICK s : s = pending
    OBVIOUS
  <2>2. s \in Seq(M) /\ s # <<>>
    BY <1>2, <1>3, <2>1
  <2> HIDE DEF M
  <2>3. Front(s) \in Seq(M) /\ Last(s) \in M /\ Range(s) = Range(Front(s)) \cup {Last(s)}
    BY <2>2, FrontIsPrefix
  <2>4. QED
    BY <1>1, <2>1, <2>3
<1>5. fresh \in SUBSET M /\ fresh \in SUBSET Nat /\ IsFiniteSet(fresh)
  <2>1. fresh \in SUBSET M
    BY <1>1 DEF Predecessors
  <2>2. QED
    BY <2>1, GraphIsFinite, FS_Subset
<1>6. /\ Ascending(fresh) \in Seq(fresh) /\ Range(Ascending(fresh)) = fresh
  BY <1>5, AscendingLists
<1>7. /\ Reverse(Ascending(fresh)) \in Seq(fresh) /\ Range(Reverse(Ascending(fresh))) = fresh
  BY <1>6, RangeReverse
<1>8. pending' \in Seq(M) /\ Range(pending') = Range(Front(pending)) \cup fresh
  <2>1. PICK r : r = Reverse(Ascending(fresh))
    OBVIOUS
  <2>2. r \in Seq(M) /\ Range(r) = fresh
    BY <1>5, <1>7, <2>1
  <2> HIDE DEF M
  <2>3. Front(pending) \o r \in Seq(M) /\ Range(Front(pending) \o r) = Range(Front(pending)) \cup Range(r)
    BY <1>4, <2>2, RangeConcat
  <2>4. QED
    BY <1>2, <2>1, <2>2, <2>3
<1>9. Open' = Open \cup fresh /\ node \in Open /\ Collected' = Collected
  BY <1>2, <1>4, <1>8 DEF Open, Collected
<1>10. fresh \cap assigned = {}
  BY <1>1
<1>11. ASSUME NEW x \in Open'
       PROVE  Leads(x, node) /\ Leads(node, x)
  <2>1. CASE x \in Open
    BY <1>3, <1>9, <2>1
  <2>2. CASE x \in fresh
    <3>1. Leads(x, node)
      BY <1>1, <2>2, LeadsIsPreorder
    <3>2. x \in M \ Collected
      BY <1>3, <1>5, <1>10, <2>2
    <3>3. QED
      BY <1>3, <1>9, <3>1, <3>2
  <2>3. QED
    BY <1>9, <1>11, <2>1, <2>2
<1>12. \A x, y \in Open' : Leads(x, y)
  BY <1>11, LeadsIsPreorder
<1>13. ASSUME NEW c \in Open', NEW y \in M \ Collected, Leads(y, c)
       PROVE  Leads(c, y)
  <2>1. Leads(y, node)
    BY <1>11, <1>13, LeadsIsPreorder
  <2>2. Leads(node, y)
    BY <1>3, <1>9, <1>13, <2>1
  <2>3. QED
    BY <1>11, <2>2, LeadsIsPreorder
<1>14. \A n \in component' : Predecessors(n) \subseteq assigned'
  <2>1. Predecessors(node) \subseteq assigned'
    BY <1>1, <1>2
  <2>2. QED
    BY <1>2, <1>3, <2>1
<1>15. /\ \A x, y : Leads(x, y)' <=> Leads(x, y)
       /\ \A x : Class(x)' = Class(x)
       /\ \A x : Predecessors(x)' = Predecessors(x)
  BY <1>2, SameGraph
<1>16. stack' = <<>> /\ visited' = graph'.members /\ pending' \in Seq(graph'.members)
       /\ component' \subseteq graph'.members
  BY <1>2, <1>3, <1>4, <1>8
<1>17. \A X \in nodes' : \E n \in graph'.members : X = Class(n)'
  BY <1>2, <1>3, <1>15
<1>18. assigned' = Collected' \cup Open' /\ Open' \cap Collected' = {}
  BY <1>2, <1>3, <1>9, <1>10
<1>19. \A x, y \in Open' : Leads(x, y)'
  BY <1>12, <1>15
<1>20. \A c \in Open', y \in graph'.members \ Collected' : Leads(y, c)' => Leads(c, y)'
  BY <1>2, <1>9, <1>13, <1>15
<1>21. \A n \in Collected' : Predecessors(n)' \subseteq Collected'
  BY <1>3, <1>9, <1>15
<1>22. \A n \in component' : Predecessors(n)' \subseteq assigned'
  BY <1>14, <1>15
<1>23. QED
  BY <1>16, <1>17, <1>18, <1>19, <1>20, <1>21, <1>22 DEF CollectInv

\* A component that has no more predecessors is a class.
LEMMA CloseStep ==
  ASSUME graph \in Graphs, CollectInv, CloseComponent
  PROVE  CollectInv'
<1> DEFINE M == graph.members
<1>1. /\ pending = <<>> /\ component # {} /\ graph' = graph /\ nodes' = nodes \cup {component}
      /\ component' = {} /\ stack' = stack /\ visited' = visited
      /\ assigned' = assigned /\ pending' = pending
  BY DEF CloseComponent, searchVars
<1>2. Open = component
  BY <1>1, RangeEmpty DEF Open
<1>3. /\ stack = <<>> /\ visited = M /\ pending \in Seq(M) /\ component \subseteq M
      /\ \A X \in nodes : \E n \in M : X = Class(n)
      /\ assigned = Collected \cup component /\ component \cap Collected = {}
      /\ \A x, y \in component : Leads(x, y)
      /\ \A c \in component, y \in M \ Collected : Leads(y, c) => Leads(c, y)
      /\ \A n \in Collected : Predecessors(n) \subseteq Collected
      /\ \A n \in component : Predecessors(n) \subseteq assigned
  BY <1>2 DEF CollectInv
<1>4. PICK c \in component : TRUE
  BY <1>1
<1>5. ASSUME NEW y \in M, Leads(y, c)
      PROVE  y \in assigned
  <2>1. SUFFICES ASSUME y \notin assigned
                 PROVE  FALSE
    OBVIOUS
  <2> DEFINE C == M \ assigned
  <2>2. ASSUME NEW u \in M, NEW w \in M, <<u, w>> \in graph.edges, u \in C
        PROVE  w \in C
    <3>1. SUFFICES ASSUME w \in assigned
                   PROVE  FALSE
      BY <2>2
    <3>2. u \in Predecessors(w)
      <4>1. u # w
        BY <2>2, <3>1
      <4>2. QED
        BY <2>2, <4>1 DEF Predecessors
    <3>3. u \in assigned
      BY <1>3, <3>1, <3>2
    <3>4. QED
      BY <2>2, <3>3
  <2>3. C \in SUBSET M /\ y \in C /\ graph.edges \in SUBSET (M \X M) /\ Reach(graph.edges, M, y, c)
    BY <1>5, <2>1, GraphIsFinite DEF Leads
  <2>4. c \in C
    <3> HIDE DEF C
    <3>1. QED
      BY <2>2, <2>3, ReachStaysIn
  <2>5. QED
    BY <1>3, <1>4, <2>4
<1>6. component = Class(c)
  <2>1. ASSUME NEW y \in component
        PROVE  y \in Class(c)
    BY <1>3, <1>4, <2>1 DEF Class, Same
  <2>2. ASSUME NEW y \in Class(c)
        PROVE  y \in component
    <3>1. y \in M /\ Same(y, c) /\ Leads(y, c)
      BY <2>2 DEF Class, Same
    <3>2. y \in assigned
      BY <1>5, <3>1
    <3>3. y \notin Collected
      <4>1. ASSUME y \in Collected
            PROVE  c \in Collected
        BY <1>3, <1>4, <3>1, <4>1, CollectedAreClasses
      <4>2. QED
        BY <1>3, <1>4, <4>1
    <3>4. QED
      BY <1>3, <3>2, <3>3
  <2>3. QED
    BY <2>1, <2>2
<1>7. Collected' = Collected \cup component
  BY <1>1 DEF Collected
<1>8. Open' = {}
  BY <1>1, RangeEmpty DEF Open
<1>9. /\ \A x, y : Leads(x, y)' <=> Leads(x, y)
      /\ \A x : Class(x)' = Class(x)
      /\ \A x : Predecessors(x)' = Predecessors(x)
  BY <1>1, SameGraph
<1>10. \A X \in nodes' : \E n \in graph'.members : X = Class(n)'
  BY <1>1, <1>3, <1>4, <1>6, <1>9
<1>11. \A n \in Collected' : Predecessors(n)' \subseteq Collected'
  BY <1>3, <1>7, <1>9
<1>12. assigned' = Collected' \cup Open' /\ Open' \cap Collected' = {}
  BY <1>1, <1>3, <1>7, <1>8
<1>13. /\ stack' = <<>> /\ visited' = graph'.members
       /\ pending' \in Seq(graph'.members) /\ component' = {}
  BY <1>1, <1>3
<1>14. QED
  BY <1>8, <1>10, <1>11, <1>12, <1>13 DEF CollectInv

(***************************************************************************)
(* The quotient                                                            *)
(***************************************************************************)

\* When every member is assigned, the components are the classes.
LEMMA ComponentsAreClasses ==
  ASSUME graph \in Graphs, CollectInv, pending = <<>>, component = {}, assigned = graph.members
  PROVE  nodes = {Class(n) : n \in graph.members}
<1> DEFINE M == graph.members
<1>1. Collected = M
  <2>1. Open = {}
    BY RangeEmpty DEF Open
  <2>2. QED
    BY <2>1 DEF CollectInv
<1>2. \A X \in nodes : \E n \in M : X = Class(n)
  BY DEF CollectInv
<1>3. ASSUME NEW n \in M
      PROVE  Class(n) \in nodes
  <2>1. PICK X \in nodes : n \in X
    BY <1>1 DEF Collected
  <2>2. PICK k \in M : X = Class(k)
    BY <1>2
  <2>3. Same(k, n)
    BY <2>1, <2>2 DEF Class
  <2>4. Class(k) = Class(n)
    BY <2>3, SameIsEquivalence
  <2>5. QED
    BY <2>2, <2>4
<1>4. QED
  BY <1>2, <1>3

\* The classes partition the members.
LEMMA ClassesPartition ==
  ASSUME graph \in Graphs
  PROVE  /\ \A n \in graph.members : /\ n \in Class(n) /\ Class(n) \subseteq graph.members
                                     /\ \A x, y \in Class(n) : Leads(x, y)
         /\ \A n, m \in graph.members : Class(n) \cap Class(m) # {} => Class(n) = Class(m)
<1>1. ASSUME NEW n \in graph.members
      PROVE  /\ n \in Class(n) /\ Class(n) \subseteq graph.members
             /\ \A x, y \in Class(n) : Leads(x, y)
  <2>1. \A x, y \in Class(n) : Leads(x, n) /\ Leads(n, y)
    BY DEF Class, Same
  <2>2. \A x, y \in Class(n) : Leads(x, y)
    BY <2>1, LeadsIsPreorder
  <2>3. QED
    BY <2>2, SameIsEquivalence DEF Class
<1>2. ASSUME NEW n \in graph.members, NEW m \in graph.members, Class(n) \cap Class(m) # {}
      PROVE  Class(n) = Class(m)
  <2>1. PICK x : x \in Class(n) /\ x \in Class(m)
    BY <1>2
  <2>2. Same(n, x) /\ Same(m, x)
    BY <2>1 DEF Class
  <2>3. Same(n, m)
    BY <2>2, SameIsEquivalence
  <2>4. QED
    BY <2>3, SameIsEquivalence
<1>3. QED
  BY <1>1, <1>2

\* quotient_and_reduce enters the reduction with the classes and the edges between them.
LEMMA QuotientStep ==
  ASSUME graph \in Graphs, graph.call = "quotient_and_reduce", CollectInv, Quotient
  PROVE  QuotientInv'
<1> DEFINE M == graph.members
<1>1. /\ pending = <<>> /\ component = {} /\ assigned = M /\ graph' = graph /\ nodes' = nodes
      /\ arcs' = {p \in nodes \X nodes :
                     p[1] # p[2] /\ \E n \in p[1] : Successors(n) \cap p[2] # {}}
  BY DEF Quotient, EnterOrder
<1>2. nodes = {Class(n) : n \in M}
  BY <1>1, ComponentsAreClasses
<1>3. \A X \in nodes : X # {} /\ X \subseteq M /\ \A x, y \in X : Leads(x, y)
  BY <1>2, ClassesPartition
<1>4. \A n \in M : \E X \in nodes : n \in X
  BY <1>2, ClassesPartition
<1>5. \A X, Y \in nodes : X \cap Y # {} => X = Y
  BY <1>2, ClassesPartition
<1>6. ASSUME NEW X \in nodes, NEW Y \in nodes, X # Y
      PROVE  (\E n \in X : Successors(n) \cap Y # {}) <=> \E n \in X, m \in Y : <<n, m>> \in graph.edges
  <2>1. \A n \in X, m \in Y : n # m /\ m \in M
    BY <1>3, <1>5, <1>6
  <2>2. \A n \in X, m \in Y : m \in Successors(n) <=> <<n, m>> \in graph.edges
    BY <2>1 DEF Successors
  <2>3. QED
    BY <2>2
<1>7. arcs' = {p \in nodes \X nodes :
                  p[1] # p[2] /\ \E n \in p[1], m \in p[2] : <<n, m>> \in graph.edges}
  <2>1. \A p \in nodes \X nodes :
            p[1] # p[2] => ((\E n \in p[1] : Successors(n) \cap p[2] # {})
                                <=> \E n \in p[1], m \in p[2] : <<n, m>> \in graph.edges)
    BY <1>6
  <2>2. QED
    BY <1>1, <2>1
<1>8. /\ \A x, y : Leads(x, y)' <=> Leads(x, y)
      /\ \A x : Class(x)' = Class(x)
  BY <1>1, SameGraph
<1>9. \A X \in nodes' : X # {} /\ X \subseteq graph'.members /\ \A x, y \in X : Leads(x, y)'
  BY <1>1, <1>3, <1>8
<1>10. /\ \A n \in graph'.members : \E X \in nodes' : n \in X
       /\ \A X, Y \in nodes' : X \cap Y # {} => X = Y
  BY <1>1, <1>4, <1>5
<1>11. arcs' = {p \in nodes' \X nodes' :
                   p[1] # p[2] /\ \E n \in p[1], m \in p[2] : <<n, m>> \in graph'.edges}
  BY <1>1, <1>7
<1>12. graph'.call = "quotient_and_reduce" /\ nodes' = {Class(n)' : n \in graph'.members}
  BY <1>1, <1>2, <1>8
<1>13. QED
  BY <1>9, <1>10, <1>11, <1>12 DEF QuotientInv

\* transitive_reduction is entered with one member per node.
LEMMA CallReductionStep ==
  ASSUME graph \in Graphs, CallReduction
  PROVE  QuotientInv'
<1> DEFINE M == graph.members
           E == graph.edges
<1>1. /\ graph.call = "transitive_reduction" /\ graph' = graph /\ nodes' = {{n} : n \in M}
      /\ arcs' = {<<{e[1]}, {e[2]}>> : e \in E}
      /\ \A n \in M : <<n, n>> \notin E
  BY DEF CallReduction, EnterOrder
<1>2. E \in SUBSET (M \X M)
  BY GraphIsFinite
<1>3. ASSUME NEW p
      PROVE  p \in arcs' <=> /\ p \in nodes' \X nodes' /\ p[1] # p[2]
                             /\ \E n \in p[1], m \in p[2] : <<n, m>> \in E
  <2>1. ASSUME p \in arcs'
        PROVE  /\ p \in nodes' \X nodes' /\ p[1] # p[2]
               /\ \E n \in p[1], m \in p[2] : <<n, m>> \in E
    <3>1. PICK e \in E : p = <<{e[1]}, {e[2]}>>
      BY <1>1, <2>1
    <3>2. e = <<e[1], e[2]>> /\ e[1] \in M /\ e[2] \in M
      BY <1>2
    <3>3. e[1] # e[2]
      BY <1>1, <3>2
    <3>4. {e[1]} \in nodes' /\ {e[2]} \in nodes' /\ p[1] = {e[1]} /\ p[2] = {e[2]}
      BY <1>1, <3>1, <3>2
    <3>5. {e[1]} # {e[2]} /\ <<e[1], e[2]>> \in E
      BY <3>2, <3>3
    <3>6. p \in nodes' \X nodes'
      BY <3>1, <3>4
    <3>7. QED
      BY <3>4, <3>5, <3>6
  <2>2. ASSUME p \in nodes' \X nodes', p[1] # p[2], NEW n \in p[1], NEW m \in p[2], <<n, m>> \in E
        PROVE  p \in arcs'
    <3>1. p = <<p[1], p[2]>> /\ p[1] \in nodes' /\ p[2] \in nodes'
      BY <2>2
    <3>2. p[1] = {n} /\ p[2] = {m}
      BY <1>1, <2>2, <3>1
    <3>3. p = <<{n}, {m}>>
      BY <3>1, <3>2
    <3>4. <<n, m>>[1] = n /\ <<n, m>>[2] = m
      OBVIOUS
    <3>5. <<{<<n, m>>[1]}, {<<n, m>>[2]}>> \in arcs'
      BY <1>1, <2>2
    <3>6. QED
      BY <3>3, <3>4, <3>5
  <2>3. QED
    BY <2>1, <2>2
<1>4. arcs' = {p \in nodes' \X nodes' :
                  p[1] # p[2] /\ \E n \in p[1], m \in p[2] : <<n, m>> \in graph'.edges}
  BY <1>1, <1>3
<1>5. \A X \in nodes' : X # {} /\ X \subseteq graph'.members /\ \A x, y \in X : Leads(x, y)'
  <2>1. \A x \in M : Leads(x, x)'
    BY <1>1, LeadsIsPreorder, SameGraph
  <2>2. QED
    BY <1>1, <2>1
<1>6. /\ \A n \in graph'.members : \E X \in nodes' : n \in X
      /\ \A X, Y \in nodes' : X \cap Y # {} => X = Y
  <2>1. \A n \in M : {n} \in nodes' /\ n \in {n}
    BY <1>1
  <2>2. \A X \in nodes' : \E n \in M : X = {n}
    BY <1>1
  <2>3. ASSUME NEW X \in nodes', NEW Y \in nodes', X \cap Y # {}
        PROVE  X = Y
    <3>1. PICK n \in M, m \in M : X = {n} /\ Y = {m}
      BY <2>2
    <3>2. QED
      BY <2>3, <3>1
  <2>4. \A n \in graph'.members : \E X \in nodes' : n \in X
    BY <1>1, <2>1
  <2>5. QED
    BY <2>3, <2>4
<1>7. QED
  BY <1>1, <1>4, <1>5, <1>6 DEF QuotientInv

\* What every part of transitive_reduction relies on.
LEMMA QuotientFacts ==
  ASSUME graph \in Graphs, QuotientInv
  PROVE  /\ IsFiniteSet(nodes)
         /\ arcs \in SUBSET (nodes \X nodes)
         /\ \A X, Y : <<X, Y>> \in arcs <=>
                /\ X \in nodes /\ Y \in nodes /\ X # Y
                /\ \E n \in X, m \in Y : <<n, m>> \in graph.edges
         /\ \A X \in nodes : /\ X \in SUBSET Nat /\ X # {} /\ X \subseteq graph.members
                             /\ Min(X) \in X /\ Min(X) \in Nat
<1>1. IsFiniteSet(nodes)
  <2>1. nodes \in SUBSET (SUBSET graph.members)
    BY DEF QuotientInv
  <2>2. IsFiniteSet(SUBSET graph.members)
    BY GraphIsFinite, FS_SUBSET
  <2>3. QED
    BY <2>1, <2>2, FS_Subset
<1>2. arcs = {p \in nodes \X nodes :
                 p[1] # p[2] /\ \E n \in p[1], m \in p[2] : <<n, m>> \in graph.edges}
  BY DEF QuotientInv
<1>3. ASSUME NEW X, NEW Y
      PROVE  <<X, Y>> \in arcs <=>
                /\ X \in nodes /\ Y \in nodes /\ X # Y
                /\ \E n \in X, m \in Y : <<n, m>> \in graph.edges
  <2>0. <<X, Y>>[1] = X /\ <<X, Y>>[2] = Y
    OBVIOUS
  <2>1. PICK p : p = <<X, Y>> /\ p[1] = X /\ p[2] = Y
    BY <2>0
  <2>2. p \in nodes \X nodes <=> X \in nodes /\ Y \in nodes
    BY <2>1
  <2>3. QED
    BY <1>2, <2>1, <2>2
<1>4. ASSUME NEW X \in nodes
      PROVE  /\ X \in SUBSET Nat /\ X # {} /\ X \subseteq graph.members
             /\ Min(X) \in X /\ Min(X) \in Nat
  <2>1. X # {} /\ X \subseteq graph.members
    BY DEF QuotientInv
  <2>2. X \in SUBSET Nat
    BY <2>1, GraphIsFinite
  <2>3. Min(X) \in X
    BY <2>1, <2>2, MinIsLeast
  <2>4. QED
    BY <2>1, <2>2, <2>3
<1>5. QED
  BY <1>1, <1>2, <1>3, <1>4

\* A node leads to another over the arcs if its members lead to those of the other.
LEMMA NodesLead ==
  ASSUME graph \in Graphs, QuotientInv,
         NEW X \in nodes, NEW Y \in nodes, NEW x \in X, NEW y \in Y
  PROVE  Leads(x, y) <=> Reach(arcs, nodes, X, Y)
<1> DEFINE M == graph.members
           E == graph.edges
<1>1. /\ arcs \in SUBSET (nodes \X nodes)
      /\ \A Z, W : <<Z, W>> \in arcs <=>
             Z \in nodes /\ W \in nodes /\ Z # W /\ \E n \in Z, m \in W : <<n, m>> \in E
  BY QuotientFacts
<1>2. /\ \A Z \in nodes : Z # {} /\ Z \subseteq M /\ \A n, m \in Z : Leads(n, m)
      /\ \A n \in M : \E Z \in nodes : n \in Z
      /\ \A Z, W \in nodes : Z \cap W # {} => Z = W
  BY DEF QuotientInv
<1>3. ASSUME Leads(x, y)
      PROVE  Reach(arcs, nodes, X, Y)
  <2> DEFINE A == {Z \in nodes : Reach(arcs, nodes, X, Z)}
             C == {n \in M : \E Z \in A : n \in Z}
  <2>1. ASSUME NEW n \in M, NEW m \in M, <<n, m>> \in E, n \in C
        PROVE  m \in C
    <3>1. PICK Z \in A : n \in Z
      BY <2>1
    <3>2. PICK W \in nodes : m \in W
      BY <1>2
    <3>3. CASE Z = W
      BY <3>1, <3>2, <3>3
    <3>4. CASE Z # W
      <4>1. <<Z, W>> \in arcs
        BY <1>1, <2>1, <3>1, <3>2, <3>4
      <4>2. Reach(arcs, nodes, Z, W)
        BY <1>1, <4>1, ReachIsPreorder
      <4>3. Reach(arcs, nodes, X, W)
        BY <1>1, <3>1, <4>2, ReachIsPreorder
      <4>4. QED
        BY <3>2, <4>3
    <3>5. QED
      BY <3>3, <3>4
  <2>2. X \in A
    BY <1>1, ReachIsPreorder
  <2>3. C \in SUBSET M /\ x \in C /\ E \in SUBSET (M \X M) /\ Reach(E, M, x, y)
    BY <1>2, <1>3, <2>2, GraphIsFinite DEF Leads
  <2>4. y \in C
    <3> HIDE DEF C
    <3>1. QED
      BY <2>1, <2>3, ReachStaysIn
  <2>5. PICK Z \in A : y \in Z
    BY <2>4
  <2>6. Z = Y
    BY <1>2, <2>5
  <2>7. QED
    BY <2>5, <2>6
<1>4. ASSUME Reach(arcs, nodes, X, Y)
      PROVE  Leads(x, y)
  <2> DEFINE C == {Z \in nodes : \A z \in Z : Leads(x, z)}
  <2>1. ASSUME NEW Z \in nodes, NEW W \in nodes, <<Z, W>> \in arcs, Z \in C
        PROVE  W \in C
    <3>1. PICK n \in Z, m \in W : <<n, m>> \in E
      BY <1>1, <2>1
    <3>2. Leads(x, n) /\ Leads(n, m)
      BY <2>1, <3>1, LeadsIsPreorder
    <3>3. \A z \in W : Leads(m, z)
      BY <1>2, <3>1
    <3>4. \A z \in W : Leads(x, z)
      BY <3>2, <3>3, LeadsIsPreorder
    <3>5. QED
      BY <3>4
  <2>2. C \in SUBSET nodes /\ X \in C
    BY <1>2
  <2>3. Y \in C
    <3> HIDE DEF C
    <3>1. QED
      BY <1>1, <1>4, <2>1, <2>2, ReachStaysIn
  <2>4. QED
    BY <2>3
<1>5. QED
  BY <1>3, <1>4

(***************************************************************************)
(* _topological_order                                                      *)
(***************************************************************************)

\* The predecessors that wait are finitely many.
LEMMA WaitingIsFinite ==
  ASSUME graph \in Graphs, QuotientInv, NEW y
  PROVE  IsFiniteSet(Waiting(y)) /\ Cardinality(Waiting(y)) \in Nat
<1>1. Waiting(y) \in SUBSET nodes
  BY DEF Waiting
<1>2. IsFiniteSet(Waiting(y))
  BY <1>1, QuotientFacts, FS_Subset
<1>3. QED
  BY <1>2, FS_CardinalityType

\* The counters and the first ready nodes.
AtOrderStart ==
    /\ graph \in Graphs /\ QuotientInv
    /\ ordered = <<>>
    /\ indegree = [y \in nodes |-> Cardinality({x \in nodes : <<x, y>> \in arcs})]
    /\ ready = {y \in nodes : indegree[y] = 0}

LEMMA OrderStart == AtOrderStart => OrderInv
<1> SUFFICES ASSUME AtOrderStart
             PROVE  OrderInv
  OBVIOUS
<1> USE DEF AtOrderStart
<1>1. Range(ordered) = {} /\ IsInjective(ordered) /\ ordered \in Seq(nodes) /\ DOMAIN ordered = {}
  BY RangeEmpty
<1>2. \A y : Waiting(y) = {x \in nodes : <<x, y>> \in arcs}
  BY <1>1 DEF Waiting
<1>3. \A y \in nodes : indegree[y] = Cardinality(Waiting(y))
  BY <1>2
<1>4. \A y \in nodes : indegree[y] \in Nat /\ (indegree[y] = 0 <=> Waiting(y) = {})
  BY <1>3, WaitingIsFinite, FS_EmptySet
<1>5. indegree \in [nodes -> Nat]
  BY <1>4
<1>6. ready = {y \in nodes \ Range(ordered) : Waiting(y) = {}}
  BY <1>1, <1>4
<1>7. QED
  BY <1>1, <1>3, <1>5, <1>6 DEF OrderInv

\* A set of nodes has one with the least member.
LEMMA FirstNode ==
  ASSUME graph \in Graphs, QuotientInv, NEW R \in SUBSET nodes, R # {},
         NEW node, node = CHOOSE x \in R : \A y \in R : Min(x) <= Min(y)
  PROVE  node \in R
<1> DEFINE B == {Min(x) : x \in R}
<1>1. B \in SUBSET Nat /\ B # {}
  BY QuotientFacts
<1>2. PICK b \in B : \A c \in B : b <= c
  <2> HIDE DEF B
  <2>1. QED
    BY <1>1, LeastNumber
<1>3. PICK x \in R : b = Min(x)
  OBVIOUS
<1>4. \A y \in R : Min(x) <= Min(y)
  BY <1>2, <1>3
<1>5. QED
  BY <1>4

\* A sequence without duplicates has as many elements as places.
LEMMA RangeCardinality ==
  ASSUME NEW T, NEW s \in Seq(T), IsInjective(s)
  PROVE  IsFiniteSet(Range(s)) /\ Cardinality(Range(s)) = Len(s)
<1>1. PICK n : n = Len(s) /\ n \in Nat /\ DOMAIN s = 1 .. n
  OBVIOUS
<1>2. s \in [1 .. n -> Range(s)] /\ \A x \in Range(s) : \E i \in 1 .. n : s[i] = x
  BY <1>1 DEF Range
<1>3. s \in Bijection(1 .. n, Range(s))
  BY <1>2 DEF Bijection, Injection, Surjection
<1>4. ExistsBijection(1 .. n, Range(s))
  BY <1>3 DEF ExistsBijection
<1>5. IsFiniteSet(1 .. n) /\ Cardinality(1 .. n) = n
  <2>1. 1 \in Int /\ n \in Int
    BY <1>1
  <2>2. IsFiniteSet(1 .. n) /\ Cardinality(1 .. n) = IF 1 > n THEN 0 ELSE n - 1 + 1
    BY <2>1, FS_Interval
  <2>3. QED
    BY <1>1, <2>2
<1>6. QED
  BY <1>1, <1>4, <1>5, FS_Bijection

\* A node is ordered after its predecessors, and its successors wait for one node less.
LEMMA OrderStep ==
  ASSUME graph \in Graphs, QuotientInv, OrderInv, OrderNode
  PROVE  OrderInv'
<1>1. PICK node : node = CHOOSE x \in ready : \A y \in ready : Min(x) <= Min(y)
  OBVIOUS
<1>2. /\ ready # {} /\ ordered' = Append(ordered, node)
      /\ indegree' = [y \in nodes |-> IF y \in Supers(node) THEN indegree[y] - 1 ELSE indegree[y]]
      /\ ready' = (ready \ {node}) \cup {y \in Supers(node) : indegree[y] = 1}
      /\ nodes' = nodes /\ arcs' = arcs
  BY <1>1 DEF OrderNode, componentVars
<1>3. /\ ordered \in Seq(nodes) /\ IsInjective(ordered)
      /\ indegree \in [nodes -> Nat] /\ \A y \in nodes : indegree[y] = Cardinality(Waiting(y))
      /\ ready = {y \in nodes \ Range(ordered) : Waiting(y) = {}}
      /\ \A j \in DOMAIN ordered : \A x \in nodes :
             <<x, ordered[j]>> \in arcs => \E i \in DOMAIN ordered : i < j /\ ordered[i] = x
  BY DEF OrderInv
<1>4. node \in nodes /\ node \notin Range(ordered) /\ Waiting(node) = {}
  <2>1. ready \in SUBSET nodes
    BY <1>3
  <2>2. node \in ready
    BY <1>1, <1>2, <2>1, FirstNode
  <2>3. QED
    BY <1>3, <2>2
<1>5. PICK n : n \in Nat /\ DOMAIN ordered = 1 .. n /\ n = Len(ordered)
  BY <1>3
<1>6. /\ ordered' \in Seq(nodes) /\ IsInjective(ordered')
      /\ Range(ordered') = Range(ordered) \cup {node}
      /\ DOMAIN ordered' = 1 .. n + 1 /\ ordered'[n + 1] = node
      /\ \A i \in 1 .. n : ordered'[i] = ordered[i]
  <2>1. /\ ordered' \in Seq(nodes) /\ IsInjective(ordered')
        /\ Range(ordered') = Range(ordered) \cup {node}
    BY <1>2, <1>3, <1>4, RangeAppend
  <2>2. QED
    BY <1>2, <1>3, <1>4, <1>5, <2>1
<1>7. \A y \in nodes : /\ y \in Supers(node) <=> <<node, y>> \in arcs
                       /\ y \in Supers(node) => y # node /\ y \notin Range(ordered)
  <2>1. SUFFICES ASSUME NEW y \in nodes, <<node, y>> \in arcs
                 PROVE  y # node /\ y \notin Range(ordered)
    BY DEF Supers
  <2>2. y # node
    BY <2>1, QuotientFacts
  <2>3. ASSUME NEW j \in DOMAIN ordered, ordered[j] = y
        PROVE  FALSE
    <3>1. PICK i \in DOMAIN ordered : ordered[i] = node
      BY <1>3, <1>4, <2>1, <2>3
    <3>2. QED
      BY <1>4, <3>1 DEF Range
  <2>4. QED
    BY <2>2, <2>3 DEF Range
<1>8. \A y : Waiting(y)' = Waiting(y) \ {node}
  <2>1. \A y : Waiting(y)' = {x \in nodes : <<x, y>> \in arcs /\ x \notin Range(ordered')}
    BY <1>2 DEF Waiting
  <2>2. QED
    BY <1>6, <2>1 DEF Waiting
<1>9. \A y \in nodes : node \in Waiting(y) <=> y \in Supers(node)
  BY <1>4, <1>7 DEF Waiting
<1>10. ASSUME NEW y \in nodes
       PROVE  /\ indegree'[y] = Cardinality(Waiting(y)') /\ indegree'[y] \in Nat
              /\ y \in Supers(node) => (indegree[y] = 1 <=> Waiting(y)' = {})
  <2>1. PICK W : W = Waiting(y) /\ IsFiniteSet(W) /\ indegree[y] = Cardinality(W)
                   /\ Cardinality(W) \in Nat
    BY <1>3, WaitingIsFinite
  <2>2. /\ IsFiniteSet(W \ {node})
        /\ Cardinality(W \ {node}) = IF node \in W THEN Cardinality(W) - 1 ELSE Cardinality(W)
    BY <2>1, FS_RemoveElement
  <2>3. indegree'[y] = Cardinality(W \ {node})
    BY <1>2, <1>9, <2>1, <2>2
  <2>4. Cardinality(W \ {node}) \in Nat /\ (Cardinality(W \ {node}) = 0 <=> W \ {node} = {})
    BY <2>2, FS_CardinalityType, FS_EmptySet
  <2>5. Waiting(y)' = W \ {node}
    BY <1>8, <2>1
  <2>6. y \in Supers(node) => Cardinality(W \ {node}) = indegree[y] - 1
    BY <1>9, <2>1, <2>2
  <2>7. y \in Supers(node) => (indegree[y] = 1 <=> Cardinality(W \ {node}) = 0)
    BY <2>1, <2>6
  <2>8. QED
    BY <2>3, <2>4, <2>5, <2>7
<1>11. indegree' \in [nodes' -> Nat] /\ \A y \in nodes' : indegree'[y] = Cardinality(Waiting(y)')
  BY <1>2, <1>10
<1>12. ASSUME NEW y \in nodes
       PROVE  y \in ready' <=> y \notin Range(ordered') /\ Waiting(y)' = {}
  <2>1. CASE y \in Supers(node)
    <3>1. y \notin Range(ordered') /\ y \notin ready
      BY <1>3, <1>6, <1>7, <1>9, <2>1
    <3>2. y \in ready' <=> indegree[y] = 1
      BY <1>2, <2>1, <3>1
    <3>3. QED
      BY <1>10, <2>1, <3>1, <3>2
  <2>2. CASE y \notin Supers(node)
    <3>1. Waiting(y)' = Waiting(y)
      BY <1>8, <1>9, <2>2
    <3>2. QED
      BY <1>2, <1>3, <1>6, <2>2, <3>1
  <2>3. QED
    BY <2>1, <2>2
<1>13. ready' \subseteq nodes
  BY <1>2, <1>3 DEF Supers
<1>14. ready' = {y \in nodes' \ Range(ordered)' : Waiting(y)' = {}}
  BY <1>2, <1>12, <1>13
<1>15. ASSUME NEW j \in DOMAIN ordered', NEW x \in nodes, <<x, ordered'[j]>> \in arcs
       PROVE  \E i \in DOMAIN ordered' : i < j /\ ordered'[i] = x
  <2>1. CASE j = n + 1
    <3>1. x \in Range(ordered)
      BY <1>4, <1>6, <1>15, <2>1 DEF Waiting
    <3>2. PICK i \in 1 .. n : ordered[i] = x
      BY <1>5, <3>1 DEF Range
    <3>3. i \in 1 .. n + 1 /\ i < j /\ ordered'[i] = x
      BY <1>5, <1>6, <2>1, <3>2
    <3>4. QED
      BY <1>6, <3>3
  <2>2. CASE j # n + 1
    <3>1. j \in 1 .. n /\ ordered'[j] = ordered[j]
      BY <1>5, <1>6, <2>2
    <3>2. PICK i \in 1 .. n : i < j /\ ordered[i] = x
      BY <1>3, <1>5, <1>15, <3>1
    <3>3. i \in 1 .. n + 1 /\ ordered'[i] = x
      BY <1>5, <1>6, <3>2
    <3>4. QED
      BY <1>6, <3>2, <3>3
  <2>3. QED
    BY <2>1, <2>2
<1>16. \A j \in DOMAIN ordered' : \A x \in nodes' :
           <<x, ordered'[j]>> \in arcs' => \E i \in DOMAIN ordered' : i < j /\ ordered'[i] = x
  BY <1>2, <1>15
<1>17. ordered' \in Seq(nodes') /\ IsInjective(ordered)'
  BY <1>2, <1>6
<1>18. QED
  BY <1>11, <1>14, <1>16, <1>17 DEF OrderInv

\* Nodes that are left over lie on or above a cycle.
LEMMA LeftOverMeansCycle ==
  ASSUME graph \in Graphs, QuotientInv, OrderInv, ready = {}, Len(ordered) # Cardinality(nodes)
  PROVE  \E X, Y \in nodes : <<X, Y>> \in arcs /\ Reach(arcs, nodes, Y, X)
<1> DEFINE U == nodes \ Range(ordered)
<1>1. /\ ordered \in Seq(nodes) /\ IsInjective(ordered)
      /\ ready = {y \in nodes \ Range(ordered) : Waiting(y) = {}}
      /\ arcs \in SUBSET (nodes \X nodes) /\ IsFiniteSet(nodes)
  BY QuotientFacts DEF OrderInv
<1>2. U # {}
  <2>1. Range(ordered) \subseteq nodes
    BY <1>1 DEF Range
  <2>2. Range(ordered) # nodes
    BY <1>1, RangeCardinality
  <2>3. QED
    BY <2>1, <2>2
<1>3. \A u \in U : \E w \in U : <<w, u>> \in arcs
  BY <1>1 DEF Waiting
<1> DEFINE Behind(u) == {v \in U : Reach(arcs, nodes, v, u)}
           B == {Cardinality(Behind(u)) : u \in U}
<1>4. \A u \in U : /\ Behind(u) \in SUBSET nodes /\ IsFiniteSet(Behind(u))
                   /\ Cardinality(Behind(u)) \in Nat
  <2>1. \A u \in U : Behind(u) \in SUBSET nodes
    OBVIOUS
  <2> HIDE DEF Behind, U
  <2>2. QED
    BY <1>1, <2>1, FS_Subset, FS_CardinalityType
<1>5. PICK u \in U : \A v \in U : Cardinality(Behind(u)) <= Cardinality(Behind(v))
  <2>1. B \in SUBSET Nat /\ B # {}
    BY <1>2, <1>4
  <2>2. PICK b \in B : \A c \in B : b <= c
    <3> HIDE DEF B
    <3>1. QED
      BY <2>1, LeastNumber
  <2>3. PICK u \in U : b = Cardinality(Behind(u))
    OBVIOUS
  <2>4. \A v \in U : Cardinality(Behind(v)) \in B
    OBVIOUS
  <2>5. QED
    BY <2>2, <2>3, <2>4
<1>6. PICK w \in U : <<w, u>> \in arcs
  BY <1>3
<1>7. Reach(arcs, nodes, w, u)
  BY <1>1, <1>6, ReachIsPreorder
<1>8. Behind(w) \subseteq Behind(u)
  BY <1>1, <1>7, ReachIsPreorder
<1>9. Behind(w) = Behind(u)
  <2>1. PICK P, Q : P = Behind(w) /\ Q = Behind(u)
    OBVIOUS
  <2>2. /\ P \in SUBSET Q /\ IsFiniteSet(Q) /\ Cardinality(Q) <= Cardinality(P)
        /\ Cardinality(P) \in Nat /\ Cardinality(Q) \in Nat
    BY <1>4, <1>5, <1>8, <2>1
  <2>3. Cardinality(P) <= Cardinality(Q)
    BY <2>2, FS_Subset
  <2>4. Cardinality(P) = Cardinality(Q)
    BY <2>2, <2>3
  <2>5. P = Q
    BY <2>2, <2>4, FS_Subset
  <2>6. QED
    BY <2>1, <2>5
<1>10. u \in Behind(u)
  BY <1>1, ReachIsPreorder
<1>11. Reach(arcs, nodes, u, w)
  BY <1>9, <1>10
<1>12. QED
  BY <1>6, <1>11

\* A cycle of nodes is a cycle of members; the classes of a quotient have none.
LEMMA CyclesAreCycles ==
  ASSUME graph \in Graphs, QuotientInv,
         NEW X \in nodes, NEW Y \in nodes, <<X, Y>> \in arcs, Reach(arcs, nodes, Y, X)
  PROVE  /\ graph.call = "transitive_reduction"
         /\ \E e \in graph.edges : Leads(e[2], e[1])
<1>1. PICK n \in X, m \in Y : <<n, m>> \in graph.edges
  BY QuotientFacts
<1>2. X # Y
  BY QuotientFacts
<1>3. Leads(m, n)
  BY NodesLead
<1>4. Leads(n, m)
  BY <1>1, LeadsIsPreorder
<1>5. \E e \in graph.edges : Leads(e[2], e[1])
  <2>1. <<n, m>>[1] = n /\ <<n, m>>[2] = m
    OBVIOUS
  <2>2. QED
    BY <1>1, <1>3, <2>1
<1>6. ASSUME graph.call = "quotient_and_reduce"
      PROVE  FALSE
  <2>1. nodes = {Class(k) : k \in graph.members}
    BY <1>6 DEF QuotientInv
  <2>2. PICK k \in graph.members, l \in graph.members : X = Class(k) /\ Y = Class(l)
    BY <2>1
  <2>3. Same(k, n) /\ Same(l, m) /\ Same(n, m)
    BY <1>1, <1>3, <1>4, <2>2 DEF Class, Same
  <2>4. Same(k, l)
    BY <2>3, SameIsEquivalence
  <2>5. X = Y
    BY <2>2, <2>4, SameIsEquivalence
  <2>6. QED
    BY <1>2, <2>5
<1>7. QED
  BY <1>5, <1>6, GraphIsFinite

(***************************************************************************)
(* The reduction                                                           *)
(***************************************************************************)

\* In a complete topological order everything leads forward.
LEMMA ReachGoesForward ==
  ASSUME graph \in Graphs, QuotientInv, OrderInv, Range(ordered) = nodes
  PROVE  /\ \A i, j \in DOMAIN ordered : Reach(arcs, nodes, ordered[i], ordered[j]) => i <= j
         /\ \A X, Y \in nodes : Reach(arcs, nodes, X, Y) /\ Reach(arcs, nodes, Y, X) => X = Y
<1>1. PICK n : n \in Nat /\ DOMAIN ordered = 1 .. n /\ n = Len(ordered) /\ IsInjective(ordered)
  BY DEF OrderInv
<1>2. /\ arcs \in SUBSET (nodes \X nodes)
      /\ \A j \in 1 .. n : \A x \in nodes :
             <<x, ordered[j]>> \in arcs => \E i \in 1 .. n : i < j /\ ordered[i] = x
      /\ \A x \in nodes : \E i \in 1 .. n : ordered[i] = x
      /\ \A i \in 1 .. n : ordered[i] \in nodes
      /\ \A i, j \in 1 .. n : ordered[i] = ordered[j] => i = j
  <2>1. arcs \in SUBSET (nodes \X nodes)
    BY QuotientFacts
  <2>2. \A j \in 1 .. n : \A x \in nodes :
             <<x, ordered[j]>> \in arcs => \E i \in 1 .. n : i < j /\ ordered[i] = x
    BY <1>1 DEF OrderInv
  <2>3. /\ \A x \in nodes : \E i \in 1 .. n : ordered[i] = x
        /\ \A i \in 1 .. n : ordered[i] \in nodes
    BY <1>1 DEF Range
  <2>4. \A i, j \in 1 .. n : ordered[i] = ordered[j] => i = j
    BY <1>1 DEF IsInjective
  <2>5. QED
    BY <2>1, <2>2, <2>3, <2>4
<1>3. ASSUME NEW i \in 1 .. n, NEW j \in 1 .. n, Reach(arcs, nodes, ordered[i], ordered[j])
      PROVE  i <= j
  <2> DEFINE C == {x \in nodes : \E k \in 1 .. n : i <= k /\ ordered[k] = x}
  <2>1. ASSUME NEW x \in nodes, NEW y \in nodes, <<x, y>> \in arcs, x \in C
        PROVE  y \in C
    <3>1. PICK k \in 1 .. n : i <= k /\ ordered[k] = x
      BY <2>1
    <3>2. PICK l \in 1 .. n : ordered[l] = y
      BY <1>2
    <3>3. PICK m \in 1 .. n : m < l /\ ordered[m] = x
      BY <1>2, <2>1, <3>2
    <3>4. m = k
      BY <1>2, <3>1, <3>3
    <3>5. i <= l
      BY <1>1, <3>1, <3>3, <3>4
    <3>6. QED
      BY <3>2, <3>5
  <2>2. C \in SUBSET nodes /\ ordered[i] \in C
    BY <1>1, <1>2
  <2>3. ordered[j] \in C
    <3> HIDE DEF C
    <3>1. QED
      BY <1>2, <1>3, <2>1, <2>2, ReachStaysIn
  <2>4. PICK k \in 1 .. n : i <= k /\ ordered[k] = ordered[j]
    BY <2>3
  <2>5. k = j
    BY <1>2, <2>4
  <2>6. QED
    BY <2>4, <2>5
<1>4. ASSUME NEW X \in nodes, NEW Y \in nodes, Reach(arcs, nodes, X, Y), Reach(arcs, nodes, Y, X)
      PROVE  X = Y
  <2>1. PICK i \in 1 .. n, j \in 1 .. n : ordered[i] = X /\ ordered[j] = Y
    BY <1>2
  <2>2. i <= j /\ j <= i
    BY <1>3, <1>4, <2>1
  <2>3. i = j
    BY <2>2
  <2>4. QED
    BY <2>1, <2>3
<1>5. QED
  BY <1>1, <1>3, <1>4

\* What lies above a node is the node and what lies above its successors, which do not lead
\* back to it.
LEMMA UpUnfolds ==
  ASSUME graph \in Graphs, QuotientInv, OrderInv, Range(ordered) = nodes, NEW x \in nodes
  PROVE  /\ x \in Up(x) /\ Up(x) \subseteq nodes /\ Supers(x) \subseteq Up(x)
         /\ \A y \in Supers(x) : y \in nodes /\ y # x /\ x \notin Up(y)
         /\ \A y \in Up(x) : Up(y) \subseteq Up(x)
         /\ \A y \in Up(x) : y # x => \E z \in Supers(x) : y \in Up(z)
         /\ \A y \in Up(x) : x \in Up(y) => y = x
<1>1. arcs \in SUBSET (nodes \X nodes)
  BY QuotientFacts
<1>2. \A y \in Supers(x) : y \in nodes /\ <<x, y>> \in arcs /\ y # x /\ Reach(arcs, nodes, x, y)
  BY <1>1, QuotientFacts, ReachIsPreorder DEF Supers
<1>3. x \in Up(x) /\ Up(x) \subseteq nodes /\ Supers(x) \subseteq Up(x)
  BY <1>1, <1>2, ReachIsPreorder DEF Up
<1>4. \A y \in Up(x) : x \in Up(y) => y = x
  BY ReachGoesForward DEF Up
<1>5. \A y \in Supers(x) : y \in nodes /\ y # x /\ x \notin Up(y)
  BY <1>2, <1>3, <1>4
<1>6. \A y \in Up(x) : Up(y) \subseteq Up(x)
  BY <1>1, ReachIsPreorder DEF Up
<1>7. ASSUME NEW y \in Up(x), y # x
      PROVE  \E z \in Supers(x) : y \in Up(z)
  <2>1. y \in nodes /\ Reach(arcs, nodes, x, y)
    BY DEF Up
  <2>2. PICK z \in nodes : <<x, z>> \in arcs /\ Reach(arcs, nodes, z, y)
    BY <1>1, <1>7, <2>1, ReachFirst
  <2>3. QED
    BY <2>1, <2>2 DEF Supers, Up
<1>8. QED
  BY <1>3, <1>4, <1>5, <1>6, <1>7

\* The marking loop reaches what lies above a node.
LEMMA MarkedIsUp ==
  ASSUME graph \in Graphs, QuotientInv, NEW node \in nodes
  PROVE  Marked(node) = Up(node)
<1> DEFINE X == SUBSET nodes
           Widen(R) == R \cup UNION {Supers(x) : x \in R}
           step == [n \in Nat |-> [R \in X |-> Widen(R)]]
           Steps(f) == [n \in Nat |-> IF n = 0 THEN {node}
                                      ELSE f[n - 1] \cup UNION {Supers(x) : x \in f[n - 1]}]
<1>1. {node} \in X
  OBVIOUS
<1>2. \A R \in X : /\ Widen(R) \in X /\ R \subseteq Widen(R)
                   /\ \A y, z \in nodes : y \in R /\ <<y, z>> \in arcs => z \in Widen(R)
                   /\ \A z \in Widen(R) : z \in R \/ \E y \in R : <<y, z>> \in arcs
  <2>1. \A x : Supers(x) \in SUBSET nodes /\ \A z : z \in Supers(x) <=> z \in nodes /\ <<x, z>> \in arcs
    BY DEF Supers
  <2>2. ASSUME NEW R \in X
        PROVE  /\ Widen(R) \in X /\ R \subseteq Widen(R)
               /\ \A y, z \in nodes : y \in R /\ <<y, z>> \in arcs => z \in Widen(R)
               /\ \A z \in Widen(R) : z \in R \/ \E y \in R : <<y, z>> \in arcs
    <3>1. \A z \in Widen(R) : z \in R \/ \E y \in R : z \in Supers(y)
      OBVIOUS
    <3>2. \A y \in R : Supers(y) \subseteq Widen(R)
      OBVIOUS
    <3>3. R \subseteq Widen(R)
      OBVIOUS
    <3> HIDE DEF Widen
    <3>4. Widen(R) \in X
      BY <2>1, <3>1
    <3>5. \A y, z \in nodes : y \in R /\ <<y, z>> \in arcs => z \in Widen(R)
      BY <2>1, <3>2
    <3>6. \A z \in Widen(R) : z \in R \/ \E y \in R : <<y, z>> \in arcs
      BY <2>1, <3>1
    <3>7. QED
      BY <3>3, <3>4, <3>5, <3>6
  <2> HIDE DEF X, Widen
  <2>3. QED
    BY <2>2
<1>3. step \in [Nat -> [X -> X]]
  <2> HIDE DEF X, Widen
  <2>1. QED
    BY <1>2
<1>4. \A n \in Nat, R \in X : step[n][R] = Widen(R)
  OBVIOUS
<1>5. \E f \in [Nat -> X] : f = Steps(f)
  <2> HIDE DEF X, step
  <2>0. PICK f : Iterates(f, X, {node}, step)
    BY <1>1, <1>3, Recursion
  <2>1. f \in [Nat -> X] /\ f[0] = {node} /\ \A n \in Nat : f[n + 1] = step[n + 1][f[n]]
    BY <2>0 DEF Iterates
  <2>2. ASSUME NEW n \in Nat
        PROVE  f[n] = Steps(f)[n]
    <3>1. n # 0 => n - 1 \in Nat /\ f[n - 1] \in X /\ (n - 1) + 1 = n
      BY <2>1
    <3>2. n # 0 => f[n] = Widen(f[n - 1])
      BY <1>4, <2>1, <3>1
    <3>3. QED
      BY <2>1, <3>2
  <2>3. f = Steps(f)
    <3>1. f = [n \in Nat |-> f[n]]
      BY <2>1
    <3>2. QED
      BY <2>2, <3>1
  <2>4. QED
    BY <2>1, <2>3
<1> DEFINE f == CHOOSE f : f = Steps(f)
<1>6. Marked(node) = f[Cardinality(nodes)]
  BY DEF Marked
<1>7. f = Steps(f)
  <2>1. \E g : g = Steps(g)
    BY <1>5
  <2> HIDE DEF Steps
  <2>2. QED
    BY <2>1
<1> HIDE DEF f
<1>8. f[0] = {node} /\ \A n \in Nat : f[n + 1] = Widen(f[n])
  <2>1. \A n \in Nat : n + 1 \in Nat /\ n + 1 # 0 /\ (n + 1) - 1 = n
    OBVIOUS
  <2>2. \A n \in Nat : f[n] = IF n = 0 THEN {node} ELSE Widen(f[n - 1])
    BY <1>7
  <2> HIDE DEF Widen
  <2>3. QED
    BY <2>1, <2>2
<1> HIDE DEF Widen
<1> DEFINE Good(n) == f[n] \in X /\ \A y \in f[n] : Reach(arcs, nodes, node, y)
           B == {n \in Nat : Good(n)}
<1>9. arcs \in SUBSET (nodes \X nodes) /\ IsFiniteSet(nodes)
  BY QuotientFacts
<1>10. 0 \in B
  <2>1. f[0] = {node} /\ {node} \in X
    BY <1>1, <1>8
  <2>2. Reach(arcs, nodes, node, node)
    BY <1>9, ReachIsPreorder
  <2>3. \A y \in f[0] : Reach(arcs, nodes, node, y)
    BY <2>1, <2>2
  <2>4. QED
    BY <2>1, <2>3
<1>11. ASSUME NEW n \in B
       PROVE  n + 1 \in B
  <2>1. Good(n) /\ n \in Nat /\ n + 1 \in Nat /\ f[n + 1] = Widen(f[n])
    BY <1>8, <1>11
  <2>2. f[n + 1] \in X
    BY <1>2, <2>1
  <2>3. ASSUME NEW z \in f[n + 1]
        PROVE  Reach(arcs, nodes, node, z)
    <3>1. z \in f[n] \/ \E y \in f[n] : <<y, z>> \in arcs
      BY <1>2, <2>1, <2>3
    <3>2. CASE z \in f[n]
      BY <2>1, <3>2
    <3>3. ASSUME NEW y \in f[n], <<y, z>> \in arcs
          PROVE  Reach(arcs, nodes, node, z)
      <4>1. Reach(arcs, nodes, node, y) /\ Reach(arcs, nodes, y, z)
        BY <1>9, <2>1, <3>3, ReachIsPreorder
      <4>2. QED
        BY <1>9, <4>1, ReachIsPreorder
    <3>4. QED
      BY <3>1, <3>2, <3>3
  <2>4. QED
    BY <2>1, <2>2, <2>3
<1>12. B = Nat
  <2>1. B \in SUBSET Nat
    OBVIOUS
  <2> HIDE DEF B
  <2>2. QED
    BY <1>10, <1>11, <2>1, AllNumbers
<1>13. \A n \in Nat : Good(n)
  BY <1>12
<1>14. f \in [Nat -> X]
  <2>1. f = [n \in Nat |-> f[n]]
    <3>1. \E g : f = [n \in Nat |-> g[n]]
      <4> DEFINE g == [n \in Nat |-> IF n = 0 THEN {node} ELSE Widen(f[n - 1])]
      <4>1. f = g
        BY <1>7 DEF Widen
      <4>2. g = [n \in Nat |-> g[n]]
        OBVIOUS
      <4>3. QED
        BY <4>1, <4>2
    <3>2. QED
      BY <3>1
  <2>2. QED
    BY <1>13, <2>1
<1>15. ASSUME NEW n \in Nat
       PROVE  /\ f[n] \subseteq f[n + 1]
              /\ \A y, z \in nodes : y \in f[n] /\ <<y, z>> \in arcs => z \in f[n + 1]
              /\ \A y \in f[n] : Reach(arcs, nodes, node, y)
  BY <1>2, <1>8, <1>13
<1>16. node \in f[0]
  BY <1>8
<1>17. f[Cardinality(nodes)] = {y \in nodes : Reach(arcs, nodes, node, y)}
  BY <1>9, <1>14, <1>15, <1>16, Layers
<1>18. QED
  BY <1>6, <1>17 DEF Up


\* The same up to a last place.
IteratesTo(f, X, b, step, L) ==
    f \in [0 .. L -> X] /\ f[0] = b /\ \A i \in 1 .. L : f[i] = step[i][f[i - 1]]

LEMMA RecursionTo ==
  ASSUME NEW X, NEW b \in X, NEW step \in [Nat -> [X -> X]], NEW L \in Nat
  PROVE  \E f : IteratesTo(f, X, b, step, L)
<1>1. PICK g : Iterates(g, X, b, step)
  BY Recursion
<1>2. g \in [Nat -> X] /\ g[0] = b /\ \A n \in Nat : g[n + 1] = step[n + 1][g[n]]
  BY <1>1 DEF Iterates
<1> DEFINE f == [i \in 0 .. L |-> g[i]]
<1>3. f \in [0 .. L -> X] /\ f[0] = b
  BY <1>2
<1>4. ASSUME NEW i \in 1 .. L
      PROVE  f[i] = step[i][f[i - 1]]
  <2>1. i - 1 \in Nat /\ i - 1 \in 0 .. L /\ (i - 1) + 1 = i /\ i \in 0 .. L
    BY <1>4
  <2>2. g[i] = step[i][g[i - 1]]
    BY <1>2, <2>1
  <2>3. f[i] = g[i] /\ f[i - 1] = g[i - 1]
    BY <2>1
  <2>4. QED
    BY <2>2, <2>3
<1> HIDE DEF f
<1>5. QED
  BY <1>3, <1>4 DEF IteratesTo

\* A successor is covered by an earlier one, or it is a cover.
LEMMA EarlierCovers ==
  ASSUME graph \in Graphs, QuotientInv, OrderInv, Range(ordered) = nodes, NEW x \in nodes,
         NEW i \in DOMAIN ordered, ordered[i] \in Supers(x)
  PROVE  ordered[i] \in Covers(x) <=>
            ~\E k \in DOMAIN ordered : k < i /\ ordered[k] \in Supers(x) /\ ordered[i] \in Up(ordered[k])
<1>1. PICK n : n \in Nat /\ DOMAIN ordered = 1 .. n
  BY DEF OrderInv
<1>2. \A k, l \in 1 .. n : ordered[k] = ordered[l] => k = l
  BY <1>1 DEF OrderInv, IsInjective
<1>3. \A y \in nodes : \E k \in 1 .. n : ordered[k] = y
  BY <1>1 DEF Range
<1>4. \A z \in Supers(x) : z \in nodes
  BY DEF Supers
<1>5. \A k \in 1 .. n : ordered[i] \in Up(ordered[k]) => k <= i
  BY <1>1, ReachGoesForward DEF Up
<1>6. ASSUME NEW k \in 1 .. n, k < i, ordered[k] \in Supers(x), ordered[i] \in Up(ordered[k]),
             ordered[i] \in Covers(x)
      PROVE  FALSE
  <2>1. ordered[k] = ordered[i]
    BY <1>6 DEF Covers
  <2>2. QED
    BY <1>1, <1>2, <1>6, <2>1
<1>7. ASSUME ordered[i] \notin Covers(x)
      PROVE  \E k \in 1 .. n : k < i /\ ordered[k] \in Supers(x) /\ ordered[i] \in Up(ordered[k])
  <2>1. PICK z \in Supers(x) : ordered[i] \in Up(z) /\ z # ordered[i]
    BY <1>7 DEF Covers
  <2>2. PICK k \in 1 .. n : ordered[k] = z
    BY <1>3, <1>4
  <2>3. k <= i /\ k # i
    BY <1>5, <2>1, <2>2
  <2>4. k < i
    BY <1>1, <2>3
  <2>5. QED
    BY <2>1, <2>2, <2>4
<1>8. QED
  BY <1>1, <1>6, <1>7

\* The scan by rank keeps the covers.
LEMMA UncoveredIsCovers ==
  ASSUME graph \in Graphs, QuotientInv, OrderInv, Range(ordered) = nodes,
         NEW x \in nodes, NEW covers, \A y \in Supers(x) : covers[y] = Up(y)
  PROVE  Uncovered(x, covers) = Covers(x)
<1>0. PICK L : L = Len(ordered)
  OBVIOUS
<1>1. /\ L \in Nat /\ DOMAIN ordered = 1 .. L
      /\ \A i \in 1 .. L : ordered[i] \in nodes
      /\ \A y \in nodes : \E i \in 1 .. L : ordered[i] = y
  <2>1. ordered \in Seq(nodes)
    BY DEF OrderInv
  <2>2. L \in Nat /\ DOMAIN ordered = 1 .. L /\ \A i \in 1 .. L : ordered[i] \in nodes
    BY <1>0, <2>1
  <2>3. \A y \in nodes : \E i \in 1 .. L : ordered[i] = y
    BY <2>2 DEF Range
  <2>4. QED
    BY <2>2, <2>3
<1> DEFINE X == [kept : SUBSET nodes, covered : SUBSET nodes]
           b == [kept |-> {}, covered |-> {}]
           New(i, r) == ordered[i] \in Supers(x) /\ ordered[i] \notin r.covered
           Take(i, r) == [kept |-> r.kept \cup {ordered[i]}, covered |-> r.covered \cup covers[ordered[i]]]
           step == [i \in Nat |-> [r \in X |-> IF i \in 1 .. L /\ New(i, r) THEN Take(i, r) ELSE r]]
           Scan(f) == [i \in 0 .. L |-> IF i = 0 THEN b
                                        ELSE IF New(i, f[i - 1]) THEN Take(i, f[i - 1]) ELSE f[i - 1]]
<1>2. b \in X
  OBVIOUS
<1>3. \A y \in Supers(x) : y \in nodes /\ covers[y] \in SUBSET nodes
  BY DEF Supers, Up
<1>4. ASSUME NEW i \in 1 .. L, NEW r \in X, New(i, r)
      PROVE  Take(i, r) \in X
  <2>1. r.kept \cup {ordered[i]} \in SUBSET nodes
    BY <1>1
  <2>2. r.covered \cup covers[ordered[i]] \in SUBSET nodes
    BY <1>3, <1>4
  <2>3. QED
    BY <2>1, <2>2
<1>5. step \in [Nat -> [X -> X]]
  <2> HIDE DEF X, New, Take
  <2>1. QED
    BY <1>4
<1>6. \A i \in 1 .. L, r \in X : step[i][r] = IF New(i, r) THEN Take(i, r) ELSE r
  <2>1. \A i \in 1 .. L : i \in Nat
    BY <1>1
  <2> HIDE DEF X, New, Take
  <2>2. QED
    BY <2>1
<1>7. \E f \in [0 .. L -> X] : f = Scan(f)
  <2> HIDE DEF X, b, step
  <2>0. PICK f : IteratesTo(f, X, b, step, L)
    BY <1>1, <1>2, <1>5, RecursionTo
  <2>1. f \in [0 .. L -> X] /\ f[0] = b /\ \A i \in 1 .. L : f[i] = step[i][f[i - 1]]
    BY <2>0 DEF IteratesTo
  <2> HIDE DEF New, Take
  <2>2. ASSUME NEW i \in 0 .. L
        PROVE  f[i] = Scan(f)[i]
    <3>1. i # 0 => i \in 1 .. L /\ i - 1 \in 0 .. L /\ f[i - 1] \in X
      BY <1>1, <2>1
    <3>2. i # 0 => f[i] = IF New(i, f[i - 1]) THEN Take(i, f[i - 1]) ELSE f[i - 1]
      BY <1>6, <2>1, <3>1
    <3>3. QED
      BY <2>1, <3>2
  <2>3. f = [i \in 0 .. L |-> f[i]]
    BY <2>1
  <2>4. f = Scan(f)
    BY <2>2, <2>3
  <2>5. QED
    BY <2>1, <2>4
<1> DEFINE f == CHOOSE f : f = Scan(f)
<1>8. Uncovered(x, covers) = f[L].kept
  BY <1>0 DEF Uncovered, ByRank
<1>9. f = Scan(f)
  <2>1. \E g : g = Scan(g)
    BY <1>7
  <2> HIDE DEF Scan
  <2>2. QED
    BY <2>1
<1> HIDE DEF f
<1>10. f[0] = b /\ \A i \in 1 .. L : f[i] = IF New(i, f[i - 1]) THEN Take(i, f[i - 1]) ELSE f[i - 1]
  <2> HIDE DEF New, Take, b
  <2>1. \A i \in 1 .. L : i \in 0 .. L /\ i # 0
    BY <1>1
  <2>2. 0 \in 0 .. L
    BY <1>1
  <2>3. \A i \in 0 .. L : f[i] = IF i = 0 THEN b
                                 ELSE IF New(i, f[i - 1]) THEN Take(i, f[i - 1]) ELSE f[i - 1]
    BY <1>9
  <2>4. QED
    BY <2>1, <2>2, <2>3
<1> DEFINE Before(i) == {ordered[j] : j \in 1 .. i}
           Good(i) == /\ f[i].kept = Before(i) \cap Covers(x)
                      /\ \A w : w \in f[i].covered <=> \E z \in Before(i) : z \in Supers(x) /\ w \in Up(z)
           B == {i \in Nat : i <= L => Good(i)}
<1>11. 0 \in B
  <2>1. Before(0) = {} /\ f[0].kept = {} /\ f[0].covered = {}
    BY <1>10
  <2> HIDE DEF Before
  <2>2. QED
    BY <2>1
<1>12. ASSUME NEW n \in B
       PROVE  n + 1 \in B
  <2>1. SUFFICES ASSUME n + 1 <= L
                 PROVE  Good(n + 1)
    OBVIOUS
  <2>2. PICK i : i = n + 1 /\ i \in 1 .. L /\ i - 1 = n /\ n \in Nat /\ Good(n)
    BY <1>1, <2>1
  <2>3. PICK y : y = ordered[i] /\ y \in nodes
    BY <1>1, <2>2
  <2>4. Before(i) = Before(n) \cup {y}
    <3>1. \A j : j \in 1 .. i <=> j \in 1 .. n \/ j = i
      BY <2>2
    <3>2. QED
      BY <2>3, <3>1
  <2>5. \A z \in Before(n) : \E k \in 1 .. L : k < i /\ ordered[k] = z
    BY <1>1, <2>2
  <2>6. \A k \in 1 .. L : k < i => ordered[k] \in Before(n)
    <3>1. \A k \in 1 .. L : k < i => k \in 1 .. n
      BY <1>1, <2>2
    <3>2. QED
      BY <3>1
  <2>7. y \in Supers(x) => (y \in Covers(x) <=> y \notin f[n].covered)
    <3> HIDE DEF Before
    <3>1. y \in Supers(x) => (y \in Covers(x) <=>
             ~\E k \in 1 .. L : k < i /\ ordered[k] \in Supers(x) /\ y \in Up(ordered[k]))
      BY <1>1, <2>2, <2>3, EarlierCovers
    <3>2. y \in f[n].covered <=> \E z \in Before(n) : z \in Supers(x) /\ y \in Up(z)
      BY <2>2
    <3>3. QED
      BY <2>5, <2>6, <3>1, <3>2
  <2>8. y \notin Supers(x) => y \notin Covers(x)
    BY DEF Covers
  <2>9. CASE New(i, f[n])
    <3>1. f[i] = Take(i, f[n])
      BY <1>10, <2>2, <2>9
    <3>2. y \in Supers(x) /\ y \in Covers(x) /\ f[i].kept = f[n].kept \cup {y}
          /\ f[i].covered = f[n].covered \cup Up(y)
      BY <2>3, <2>7, <2>9, <3>1
    <3> HIDE DEF Before
    <3>3. f[i].kept = Before(i) \cap Covers(x)
      BY <2>2, <2>4, <3>2
    <3>4. \A w : w \in f[i].covered <=> \E z \in Before(i) : z \in Supers(x) /\ w \in Up(z)
      BY <2>2, <2>4, <3>2
    <3>5. QED
      BY <2>2, <3>3, <3>4
  <2>10. CASE ~New(i, f[n])
    <3>1. f[i] = f[n]
      BY <1>10, <2>2, <2>10
    <3>2. y \notin Covers(x)
      BY <2>3, <2>7, <2>8, <2>10
    <3> HIDE DEF Before
    <3>3. f[i].kept = Before(i) \cap Covers(x)
      BY <2>2, <2>4, <3>1, <3>2
    <3>4. ASSUME y \in Supers(x), NEW w \in Up(y)
          PROVE  w \in f[n].covered
      <4>1. y \in f[n].covered
        BY <2>3, <2>10, <3>4
      <4>2. PICK z \in Before(n) : z \in Supers(x) /\ y \in Up(z)
        BY <2>2, <4>1
      <4>3. w \in Up(z)
        BY <1>3, <3>4, <4>2, UpUnfolds
      <4>4. QED
        BY <2>2, <4>2, <4>3
    <3>5. \A w : w \in f[i].covered <=> \E z \in Before(i) : z \in Supers(x) /\ w \in Up(z)
      BY <2>2, <2>4, <3>1, <3>4
    <3>6. QED
      BY <2>2, <3>3, <3>5
  <2>11. QED
    BY <2>9, <2>10
<1>13. B = Nat
  <2>1. B \in SUBSET Nat
    OBVIOUS
  <2> HIDE DEF B
  <2>2. QED
    BY <1>11, <1>12, <2>1, AllNumbers
<1>14. Good(L)
  <2>1. L \in B /\ L <= L
    BY <1>1, <1>13
  <2>2. QED
    BY <2>1
<1>15. Before(L) = nodes
  BY <1>1
<1>16. Covers(x) \subseteq nodes
  BY <1>3 DEF Covers
<1>17. QED
  <2> HIDE DEF Before
  <2>1. QED
    BY <1>8, <1>14, <1>15, <1>16

\* While the quotient stays, so does what is derived from it.
LEMMA SameQuotient ==
  ASSUME graph' = graph, nodes' = nodes, arcs' = arcs
  PROVE  /\ QuotientInv => QuotientInv'
         /\ \A x : Supers(x)' = Supers(x) /\ Up(x)' = Up(x) /\ Covers(x)' = Covers(x)
<1>1. QuotientInv => QuotientInv'
  <2>1. /\ \A x, y : Leads(x, y)' <=> Leads(x, y)
        /\ \A x : Class(x)' = Class(x)
    BY SameGraph
  <2>2. SUFFICES ASSUME QuotientInv
                 PROVE  QuotientInv'
    OBVIOUS
  <2>3. /\ \A X \in nodes' : X # {} /\ X \subseteq graph'.members /\ \A x, y \in X : Leads(x, y)'
        /\ \A n \in graph'.members : \E X \in nodes' : n \in X
        /\ \A X, Y \in nodes' : X \cap Y # {} => X = Y
    BY <2>1, <2>2 DEF QuotientInv
  <2>4. arcs' = {p \in nodes' \X nodes' :
                  p[1] # p[2] /\ \E n \in p[1], m \in p[2] : <<n, m>> \in graph'.edges}
    BY <2>2 DEF QuotientInv
  <2>5. {Class(n) : n \in graph.members} = {Class(n)' : n \in graph.members}
    BY <2>1
  <2>6. graph'.call = "quotient_and_reduce" => nodes' = {Class(n)' : n \in graph'.members}
    BY <2>2, <2>5 DEF QuotientInv
  <2>7. graph'.call = "transitive_reduction" =>
            /\ nodes' = {{n} : n \in graph'.members}
            /\ \A n \in graph'.members : <<n, n>> \notin graph'.edges
    BY <2>2 DEF QuotientInv
  <2>8. QED
    BY <2>3, <2>4, <2>6, <2>7 DEF QuotientInv
<1>2. \A x : Supers(x)' = Supers(x)
  BY DEF Supers
<1>3. \A x : Up(x)' = Up(x)
  BY DEF Up
<1>4. \A x : Covers(x)' = Covers(x)
  BY <1>2, <1>3 DEF Covers
<1>5. QED
  BY <1>1, <1>2, <1>3, <1>4

LEMMA SameOrder ==
  ASSUME OrderInv, nodes' = nodes, arcs' = arcs, indegree' = indegree, ready' = ready, ordered' = ordered
  PROVE  OrderInv'
<1>1. \A y : Waiting(y)' = Waiting(y)
  BY DEF Waiting
<1>2. /\ ordered' \in Seq(nodes') /\ IsInjective(ordered') /\ indegree' \in [nodes' -> Nat]
      /\ \A y \in nodes' : indegree'[y] = Cardinality(Waiting(y)')
      /\ ready' = {y \in nodes' \ Range(ordered') : Waiting(y)' = {}}
  BY <1>1 DEF OrderInv
<1>3. \A j \in DOMAIN ordered' : \A x \in nodes' :
            <<x, ordered'[j]>> \in arcs' => \E i \in DOMAIN ordered' : i < j /\ ordered'[i] = x
  BY DEF OrderInv
<1>4. QED
  BY <1>2, <1>3 DEF OrderInv

\* A row that is computed holds what lies above its node.
LEMMA RowStep ==
  ASSUME graph \in Graphs, QuotientInv, OrderInv, ReduceInv, ComputeRow
  PROVE  ReduceInv'
<1>0. PICK L, D, c : L = Len(ordered) /\ D = DOMAIN reachable /\ c = Cardinality(DOMAIN reachable)
  OBVIOUS
<1>1. PICK node, row : /\ node = ordered[L - c]
                       /\ row = Supers(node) \cup UNION {reachable[y] : y \in Supers(node)}
  OBVIOUS
<1>2. /\ pc = "rows" /\ reachable' = [x \in D \cup {node} |-> IF x = node THEN row ELSE reachable[x]]
      /\ pc' = IF c + 1 = L THEN "bits" ELSE "rows"
      /\ graph' = graph /\ nodes' = nodes /\ arcs' = arcs /\ ordered' = ordered
      /\ sub' = sub /\ direct' = direct
  BY <1>0, <1>1 DEF ComputeRow, componentVars, orderVars
<1>3. /\ L \in Nat /\ DOMAIN ordered = 1 .. L /\ Range(ordered) = nodes /\ ordered \in Seq(nodes)
      /\ IsInjective(ordered) /\ \A i \in 1 .. L : ordered[i] \in nodes
      /\ \A y \in nodes : \E i \in 1 .. L : ordered[i] = y
      /\ \A i, j \in 1 .. L : ordered[i] = ordered[j] => i = j
  <2>1. ordered \in Seq(nodes) /\ IsInjective(ordered) /\ Range(ordered) = nodes
    BY DEF OrderInv, ReduceInv
  <2>2. L \in Nat /\ DOMAIN ordered = 1 .. L /\ \A i \in 1 .. L : ordered[i] \in nodes
    BY <1>0, <2>1
  <2>3. /\ \A y \in nodes : \E i \in 1 .. L : ordered[i] = y
        /\ \A i, j \in 1 .. L : ordered[i] = ordered[j] => i = j
    BY <2>1, <2>2 DEF Range, IsInjective
  <2>4. QED
    BY <2>1, <2>2, <2>3
<1>4. /\ D \in SUBSET nodes /\ D = {ordered[i] : i \in (L - c) + 1 .. L}
      /\ \A x \in D : reachable[x] = Up(x) \ {x}
      /\ D # nodes
  BY <1>0, <1>2 DEF ReduceInv, RowsInv
<1>5. /\ IsFiniteSet(nodes) /\ Cardinality(nodes) = L
      /\ IsFiniteSet(D) /\ c = Cardinality(D) /\ c \in Nat /\ c < L
  <2>1. IsFiniteSet(nodes) /\ Cardinality(nodes) = L
    BY <1>0, <1>3, RangeCardinality
  <2>2. IsFiniteSet(D) /\ c = Cardinality(D) /\ c <= L /\ (c = L => D = nodes)
    BY <1>0, <1>4, <2>1, FS_Subset
  <2>3. c \in Nat
    BY <2>2, FS_CardinalityType
  <2>4. L \in Nat /\ D # nodes
    BY <1>3, <1>4
  <2>5. c < L
    BY <2>2, <2>3, <2>4
  <2>6. QED
    BY <2>1, <2>2, <2>3, <2>5
<1>6. PICK k : k = L - c /\ k \in 1 .. L
  BY <1>3, <1>5
<1>7. node = ordered[k] /\ node \in nodes /\ node \notin D
  <2>1. \A i \in k + 1 .. L : i \in 1 .. L /\ i # k
    BY <1>3, <1>6
  <2>2. \A i \in k + 1 .. L : ordered[i] # node
    BY <1>1, <1>3, <1>6, <2>1
  <2>3. QED
    BY <1>1, <1>3, <1>4, <1>6, <2>2
<1>8. D \cup {node} = {ordered[i] : i \in k .. L}
  <2>1. \A i : i \in k .. L <=> i = k \/ i \in k + 1 .. L
    BY <1>3, <1>6
  <2>2. D = {ordered[i] : i \in k + 1 .. L}
    BY <1>4, <1>6
  <2>3. QED
    BY <1>7, <2>1, <2>2
<1>9. IsFiniteSet(D \cup {node}) /\ Cardinality(D \cup {node}) = c + 1
  BY <1>5, <1>7, FS_AddElement
<1>10. \A y \in Supers(node) : y \in D
  <2>1. SUFFICES ASSUME NEW y \in nodes, <<node, y>> \in arcs
                 PROVE  y \in D
    BY DEF Supers
  <2>2. PICK j \in 1 .. L : ordered[j] = y
    BY <1>3
  <2>3. PICK i \in 1 .. L : i < j /\ ordered[i] = node
    BY <1>3, <1>7, <2>1, <2>2 DEF OrderInv
  <2>4. i = k
    BY <1>3, <1>6, <1>7, <2>3
  <2>5. j \in k + 1 .. L
    BY <1>3, <1>6, <2>3, <2>4
  <2>6. QED
    BY <1>4, <1>6, <2>2, <2>5
<1>11. row = Up(node) \ {node}
  <2>1. /\ Up(node) \subseteq nodes /\ Supers(node) \subseteq Up(node)
        /\ \A y \in Supers(node) : y \in nodes /\ y # node /\ node \notin Up(y)
        /\ \A y \in Up(node) : Up(y) \subseteq Up(node)
        /\ \A y \in Up(node) : y # node => \E z \in Supers(node) : y \in Up(z)
    BY <1>3, <1>7, UpUnfolds
  <2>2. \A y \in Supers(node) : reachable[y] = Up(y) \ {y}
    BY <1>4, <1>10
  <2>3. ASSUME NEW z \in row
        PROVE  z \in Up(node) \ {node}
    <3>1. CASE z \in Supers(node)
      BY <2>1, <3>1
    <3>2. ASSUME NEW y \in Supers(node), z \in reachable[y]
          PROVE  z \in Up(node) \ {node}
      <4>1. z \in Up(y)
        BY <2>2, <3>2
      <4>2. QED
        BY <2>1, <3>2, <4>1
    <3>3. z \in Supers(node) \/ \E y \in Supers(node) : z \in reachable[y]
      BY <1>1, <2>3
    <3>4. QED
      BY <3>1, <3>2, <3>3
  <2>4. ASSUME NEW z \in Up(node), z # node
        PROVE  z \in row
    <3>1. PICK y \in Supers(node) : z \in Up(y)
      BY <2>1, <2>4
    <3>2. z = y \/ z \in reachable[y]
      BY <2>2, <3>1
    <3>3. QED
      BY <1>1, <3>1, <3>2
  <2>5. QED
    BY <2>3, <2>4
<1>12. RowsInv'
  <2>1. DOMAIN reachable' = D \cup {node}
    BY <1>2
  <2>2. DOMAIN reachable' \subseteq nodes'
    BY <1>2, <1>4, <1>7, <2>1
  <2>3. DOMAIN reachable' = {ordered'[i] : i \in (Len(ordered') - Cardinality(DOMAIN reachable') + 1) .. Len(ordered')}
    <3>1. Len(ordered') = L /\ Cardinality(DOMAIN reachable') = c + 1
      BY <1>0, <1>2, <1>9, <2>1
    <3>2. L - (c + 1) + 1 = k
      BY <1>3, <1>5, <1>6
    <3>3. QED
      BY <1>2, <1>8, <2>1, <3>1, <3>2
  <2>4. \A x \in DOMAIN reachable' : reachable'[x] = Up(x)' \ {x}
    <3>1. \A x : Up(x)' = Up(x)
      BY <1>2, SameQuotient
    <3>2. \A x \in D \cup {node} : reachable'[x] = IF x = node THEN row ELSE reachable[x]
      BY <1>2
    <3>3. QED
      BY <1>4, <1>7, <1>11, <2>1, <3>1, <3>2
  <2>5. pc' = "rows" => DOMAIN reachable' # nodes'
    <3>1. pc' = "rows" => c + 1 # L
      BY <1>2
    <3>2. QED
      BY <1>2, <1>5, <1>9, <2>1, <3>1
  <2>6. pc' = "bits" => DOMAIN reachable' = nodes'
    <3>1. pc' = "bits" => c + 1 = L
      BY <1>2
    <3>2. D \cup {node} \in SUBSET nodes
      BY <1>4, <1>7
    <3>3. c + 1 = L => D \cup {node} = nodes
      BY <1>5, <1>9, <3>2, FS_Subset
    <3>4. QED
      BY <1>2, <2>1, <3>1, <3>3
  <2>7. QED
    BY <2>2, <2>3, <2>4, <2>5, <2>6 DEF RowsInv
<1>13. QED
  <2>1. \A x : Covers(x)' = Covers(x)
    BY <1>2, SameQuotient
  <2>2. Range(ordered') = nodes' /\ sub' \subseteq nodes'
    BY <1>2 DEF ReduceInv
  <2>3. direct' = {p \in nodes' \X nodes' : p[1] \notin sub' /\ p[2] \in Covers(p[1])'}
    BY <1>2, <2>1 DEF ReduceInv
  <2>4. QED
    BY <1>12, <2>2, <2>3 DEF ReduceInv

\* A node that is reduced keeps its covers.
LEMMA NodeReduced ==
  ASSUME graph \in Graphs, QuotientInv, OrderInv, ReduceInv,
         graph' = graph, pc' = pc, nodes' = nodes, arcs' = arcs, ordered' = ordered,
         reachable' = reachable,
         NEW node \in sub, sub' = sub \ {node},
         direct' = direct \cup {<<node, y>> : y \in Covers(node)}
  PROVE  ReduceInv'
<1>1. \A x : Up(x)' = Up(x) /\ Covers(x)' = Covers(x)
  BY SameQuotient
<1>2. RowsInv'
  BY <1>1 DEF ReduceInv, RowsInv
<1>3. /\ Range(ordered') = nodes' /\ sub' \subseteq nodes' /\ node \in nodes
      /\ direct = {p \in nodes \X nodes : p[1] \notin sub /\ p[2] \in Covers(p[1])}
  BY DEF ReduceInv
<1>4. Covers(node) \subseteq nodes
  BY DEF Covers, Supers
<1>5. direct' = {p \in nodes \X nodes : p[1] \notin sub' /\ p[2] \in Covers(p[1])}
  <2>1. ASSUME NEW p \in direct'
        PROVE  p \in nodes \X nodes /\ p[1] \notin sub' /\ p[2] \in Covers(p[1])
    <3>1. CASE p \in direct
      BY <1>3, <3>1
    <3>2. CASE p \notin direct
      <4>1. PICK y \in Covers(node) : p = <<node, y>>
        BY <2>1, <3>2
      <4>2. QED
        BY <1>3, <1>4, <4>1
    <3>3. QED
      BY <3>1, <3>2
  <2>2. ASSUME NEW p \in nodes \X nodes, p[1] \notin sub', p[2] \in Covers(p[1])
        PROVE  p \in direct'
    <3>1. CASE p[1] = node
      <4>1. p = <<node, p[2]>> /\ p[2] \in Covers(node)
        BY <2>2, <3>1
      <4>2. QED
        BY <4>1
    <3>2. CASE p[1] # node
      BY <1>3, <2>2, <3>2
    <3>3. QED
      BY <3>1, <3>2
  <2>3. QED
    BY <2>1, <2>2
<1>6. direct' = {p \in nodes' \X nodes' : p[1] \notin sub' /\ p[2] \in Covers(p[1])'}
  BY <1>1, <1>5
<1>7. QED
  BY <1>2, <1>3, <1>6 DEF ReduceInv

LEMMA ReduceStep ==
  ASSUME graph \in Graphs, QuotientInv, OrderInv, ReduceInv, ReduceWithRows \/ ReduceWithMarks
  PROVE  ReduceInv'
<1>1. PICK node : node = CHOOSE x \in sub : \A y \in sub : Min(x) <= Min(y)
  OBVIOUS
<1>2. /\ sub # {} /\ sub' = sub \ {node} /\ graph' = graph /\ pc' = pc /\ nodes' = nodes
      /\ arcs' = arcs /\ ordered' = ordered /\ reachable' = reachable
  BY <1>1 DEF ReduceWithRows, ReduceWithMarks, componentVars, orderVars
<1>3. sub \in SUBSET nodes /\ Range(ordered) = nodes
  BY DEF ReduceInv
<1>4. node \in sub /\ node \in nodes
  BY <1>1, <1>2, <1>3, FirstNode
<1>5. \A y \in Supers(node) : y \in nodes /\ y \in Up(y)
  BY <1>3, UpUnfolds DEF Supers
<1>6. CASE ReduceWithRows
  <2>1. PICK covers : covers = [y \in Supers(node) |-> {y} \cup reachable[y]]
    OBVIOUS
  <2>2. direct' = direct \cup {<<node, y>> : y \in Uncovered(node, covers)} /\ pc = "bits"
    BY <1>1, <1>6, <2>1 DEF ReduceWithRows
  <2>3. \A y \in nodes : reachable[y] = Up(y) \ {y}
    BY <2>2 DEF ReduceInv, RowsInv
  <2>4. \A y \in Supers(node) : covers[y] = Up(y)
    BY <1>5, <2>1, <2>3
  <2>5. Uncovered(node, covers) = Covers(node)
    BY <1>3, <1>4, <2>4, UncoveredIsCovers
  <2>6. QED
    BY <1>2, <1>4, <2>2, <2>5, NodeReduced
<1>7. CASE ReduceWithMarks
  <2>1. PICK covers : covers = [y \in Supers(node) |-> Marked(y)]
    OBVIOUS
  <2>2. direct' = direct \cup {<<node, y>> : y \in Uncovered(node, covers)}
    BY <1>1, <1>7, <2>1 DEF ReduceWithMarks
  <2>3. \A y \in Supers(node) : covers[y] = Up(y)
    BY <1>5, <2>1, MarkedIsUp
  <2>4. Uncovered(node, covers) = Covers(node)
    BY <1>3, <1>4, <2>3, UncoveredIsCovers
  <2>5. QED
    BY <1>2, <1>4, <2>2, <2>4, NodeReduced
<1>8. QED
  BY <1>6, <1>7

(***************************************************************************)
(* The phases together                                                     *)
(***************************************************************************)

\* A complete order starts the reduction.
LEMMA ChooseStep ==
  ASSUME graph \in Graphs, QuotientInv, OrderInv, reachable = <<>>, direct = {}, ChooseReduction
  PROVE  ReduceInv'
<1>1. /\ Len(ordered) = Cardinality(nodes) /\ pc' = IF IsDense THEN "rows" ELSE "mark"
      /\ sub' = nodes /\ graph' = graph /\ nodes' = nodes /\ arcs' = arcs /\ ordered' = ordered
      /\ reachable' = <<>> /\ direct' = {}
  BY DEF ChooseReduction, componentVars, orderVars
<1>2. Range(ordered) = nodes
  <2>1. ordered \in Seq(nodes) /\ IsInjective(ordered)
    BY DEF OrderInv
  <2>2. IsFiniteSet(nodes) /\ Cardinality(Range(ordered)) = Cardinality(nodes)
    BY <1>1, <2>1, QuotientFacts, RangeCardinality
  <2>3. Range(ordered) \in SUBSET nodes
    BY <2>1 DEF Range
  <2>4. QED
    BY <2>2, <2>3, FS_Subset
<1>3. IsDense => nodes # {}
  <2>1. SUFFICES ASSUME nodes = {}
                 PROVE  ~IsDense
    OBVIOUS
  <2>2. arcs = {}
    BY <2>1, QuotientFacts
  <2>3. Cardinality({}) = 0
    BY FS_EmptySet
  <2>4. QED
    BY <2>1, <2>2, <2>3 DEF IsDense
<1>4. DOMAIN reachable' = {} /\ Cardinality(DOMAIN reachable') = 0
  <2>1. DOMAIN <<>> = {}
    OBVIOUS
  <2>2. QED
    BY <1>1, <2>1, FS_EmptySet
<1>5. RowsInv'
  <2>1. Len(ordered') \in Nat
    BY <1>1 DEF OrderInv
  <2>2. {ordered'[i] : i \in (Len(ordered') - 0 + 1) .. Len(ordered')} = {}
    BY <2>1
  <2>3. pc' # "bits" /\ (pc' = "rows" => nodes' # {})
    BY <1>1, <1>3
  <2>4. QED
    BY <1>4, <2>2, <2>3 DEF RowsInv
<1>6. direct' = {p \in nodes' \X nodes' : p[1] \notin sub' /\ p[2] \in Covers(p[1])'}
  BY <1>1
<1>7. QED
  BY <1>1, <1>2, <1>5, <1>6 DEF ReduceInv

\* What the search leaves behind stays.
LEMMA SameSearch ==
  ASSUME SearchInv, graph' = graph, UNCHANGED searchVars
  PROVE  SearchInv'
<1>1. stack' = stack /\ finished' = finished /\ visited' = visited
  BY DEF searchVars
<1>2. Entered' = Entered
  BY <1>1 DEF Entered
<1>3. /\ \A x, y : Leads(x, y)' <=> Leads(x, y)
      /\ \A x, y : Same(x, y)' <=> Same(x, y)
      /\ \A x : Successors(x)' = Successors(x)
  BY SameGraph
<1>4. /\ stack' \in Seq(graph'.members \X SUBSET graph'.members)
      /\ finished' \in Seq(graph'.members)
      /\ visited' = Entered' \cup Range(finished')
      /\ Entered' \cap Range(finished') = {}
      /\ IsInjective(finished')
  BY <1>1, <1>2 DEF SearchInv
<1>5. \A i, j \in DOMAIN stack' :
            i < j => stack'[i][1] # stack'[j][1] /\ Leads(stack[i][1], stack[j][1])'
  BY <1>1, <1>3 DEF SearchInv, Leads
<1>6. /\ \A i \in DOMAIN stack' :
            /\ stack'[i][2] \subseteq Successors(stack[i][1])'
            /\ Successors(stack[i][1])' \ stack'[i][2] \subseteq visited'
      /\ \A n \in Range(finished') : Successors(n)' \subseteq visited'
  BY <1>1 DEF SearchInv, Successors
<1>7. \A i \in DOMAIN finished' : Settled(i)'
  <2>1. \A i : Settled(i) => Settled(i)'
    BY <1>1, <1>2 DEF Settled, Same, Leads
  <2>2. QED
    BY <1>1, <2>1 DEF SearchInv
<1>8. QED
  BY <1>4, <1>5, <1>6, <1>7 DEF SearchInv

\* The invariant, split at the phase.
LEMMA ReductionInit == Init => ReductionInv
<1>1. SUFFICES ASSUME Init
               PROVE  ReductionInv
  OBVIOUS
<1>2. SearchInv
  BY <1>1, SearchInit
<1>3. QED
  BY <1>1, <1>2 DEF Init, ReductionInv, Phases

LEMMA SameCollect ==
  ASSUME CollectInv, UNCHANGED <<graph, searchVars, componentVars>>
  PROVE  CollectInv'
<1>1. /\ graph' = graph /\ stack' = stack /\ visited' = visited /\ nodes' = nodes
      /\ pending' = pending /\ component' = component /\ assigned' = assigned
  BY DEF searchVars, componentVars
<1>2. Open' = Open /\ Collected' = Collected
  BY <1>1 DEF Open, Collected
<1>3. /\ \A x, y : Leads(x, y)' <=> Leads(x, y)
      /\ \A x : Class(x)' = Class(x)
      /\ \A x : Predecessors(x)' = Predecessors(x)
  BY <1>1, SameGraph
<1>4. /\ stack' = <<>> /\ visited' = graph'.members
      /\ pending' \in Seq(graph'.members)
      /\ component' \subseteq graph'.members
      /\ assigned' = Collected' \cup Open'
      /\ Open' \cap Collected' = {}
  BY <1>1, <1>2 DEF CollectInv
<1>5. \A X \in nodes' : \E n \in graph'.members : X = Class(n)'
  BY <1>1, <1>3 DEF CollectInv
<1>6. /\ \A x, y \in Open' : Leads(x, y)'
      /\ \A c \in Open', y \in graph'.members \ Collected' : Leads(y, c)' => Leads(c, y)'
  BY <1>1, <1>2, <1>3 DEF CollectInv
<1>7. /\ \A n \in Collected' : Predecessors(n)' \subseteq Collected'
      /\ \A n \in component' : Predecessors(n)' \subseteq assigned'
  BY <1>1, <1>2, <1>3 DEF CollectInv
<1>8. QED
  BY <1>4, <1>5, <1>6, <1>7 DEF CollectInv

LEMMA SameReduce ==
  ASSUME ReduceInv, graph' = graph, nodes' = nodes, arcs' = arcs, ordered' = ordered,
         UNCHANGED reduceVars, pc' = pc \/ pc' = "done"
  PROVE  ReduceInv'
<1>1. reachable' = reachable /\ sub' = sub /\ direct' = direct
  BY DEF reduceVars
<1>2. \A x : Up(x)' = Up(x) /\ Covers(x)' = Covers(x)
  BY SameQuotient
<1>3. RowsInv'
  BY <1>1, <1>2 DEF ReduceInv, RowsInv
<1>4. direct' = {p \in nodes' \X nodes' : p[1] \notin sub' /\ p[2] \in Covers(p[1])'}
  BY <1>1, <1>2 DEF ReduceInv
<1>5. QED
  BY <1>1, <1>3, <1>4 DEF ReduceInv

\* The topological order begins with correct counters.
LEMMA EnterOrderStep ==
  ASSUME graph \in Graphs, graph' = graph, QuotientInv', ordered' = <<>>,
         NEW quotient, NEW edges, EnterOrder(quotient, edges)
  PROVE  OrderInv'
<1>1. AtOrderStart'
  BY DEF AtOrderStart, EnterOrder
<1>2. AtOrderStart' => OrderInv'
  BY OrderStart, PTL
<1>3. QED
  BY <1>1, <1>2

\* A rejected graph has a cycle.
LEMMA RejectStep ==
  ASSUME ReductionInv, RejectSelfEdge \/ RejectCycle
  PROVE  /\ graph.call = "transitive_reduction"
         /\ \E e \in graph.edges : Leads(e[2], e[1])
<1>1. graph \in Graphs
  BY DEF ReductionInv
<1>2. CASE RejectSelfEdge
  <2>1. graph.call = "transitive_reduction"
    BY <1>2 DEF RejectSelfEdge
  <2>2. PICK n \in graph.members : <<n, n>> \in graph.edges
    BY <1>2 DEF RejectSelfEdge
  <2>3. Leads(n, n)
    BY <1>1, LeadsIsPreorder
  <2>4. QED
    BY <2>1, <2>2, <2>3
<1>3. CASE RejectCycle
  <2>1. QuotientInv /\ OrderInv /\ ready = {} /\ Len(ordered) # Cardinality(nodes)
    BY <1>3 DEF RejectCycle, ReductionInv
  <2>2. PICK X \in nodes, Y \in nodes : <<X, Y>> \in arcs /\ Reach(arcs, nodes, Y, X)
    BY <1>1, <2>1, LeftOverMeansCycle
  <2>3. QED
    BY <1>1, <2>1, <2>2, CyclesAreCycles
<1>4. QED
  BY <1>2, <1>3

\* The invariant holds again after every step.
LEMMA ReductionStep ==
  ASSUME ReductionInv, [Next \/ Ended]_vars
  PROVE  ReductionInv'
<1> USE DEF Phases
<1>0. /\ graph \in Graphs /\ pc \in Phases /\ SearchInv
      /\ graph' = graph => graph' \in Graphs
      /\ graph' = graph => \A x, y : Leads(x, y)' <=> Leads(x, y)
  BY SameGraph DEF ReductionInv
<1>1. CASE CallQuotient
  <2>1. /\ pc = "call" /\ pc' = "finish" /\ graph' = graph /\ graph.call = "quotient_and_reduce"
        /\ assigned' = assigned /\ pending' = pending /\ component' = component /\ nodes' = nodes
        /\ ordered' = ordered /\ reachable' = reachable /\ direct' = direct
        /\ UNCHANGED searchVars
    BY <1>1 DEF CallQuotient, componentVars, orderVars, reduceVars
  <2>2. SearchInv'
    BY <1>0, <2>1, SameSearch
  <2>3. QED
    BY <1>0, <2>1, <2>2 DEF ReductionInv
<1>2. CASE CallReduction
  <2>1. /\ pc = "call" /\ pc' = "order" /\ graph' = graph
        /\ ordered' = ordered /\ reachable' = reachable /\ direct' = direct
        /\ UNCHANGED searchVars
        /\ EnterOrder({{n} : n \in graph.members}, {<<{e[1]}, {e[2]}>> : e \in graph.edges})
    BY <1>2 DEF CallReduction, EnterOrder, reduceVars
  <2>2. SearchInv'
    BY <1>0, <2>1, SameSearch
  <2>3. QuotientInv'
    BY <1>0, <1>2, CallReductionStep
  <2>4. ordered' = <<>>
    BY <2>1 DEF ReductionInv
  <2>5. OrderInv'
    BY <1>0, <2>1, <2>3, <2>4, EnterOrderStep
  <2>6. QED
    BY <1>0, <2>1, <2>2, <2>3, <2>5 DEF ReductionInv
<1>3. CASE RejectSelfEdge \/ RejectCycle
  <2>1. pc' = "rejected" /\ graph' = graph /\ UNCHANGED searchVars
    BY <1>3 DEF RejectSelfEdge, RejectCycle
  <2>2. SearchInv'
    BY <1>0, <2>1, SameSearch
  <2>3. graph'.call = "transitive_reduction" /\ \E e \in graph'.edges : Leads(e[2], e[1])'
    BY <1>0, <1>3, <2>1, RejectStep
  <2>4. QED
    BY <1>0, <2>1, <2>2, <2>3 DEF ReductionInv
<1>4. CASE StartSearch \/ Search
  <2>1. /\ pc = "finish" /\ pc' = "finish" /\ graph' = graph
        /\ assigned' = assigned /\ pending' = pending /\ component' = component /\ nodes' = nodes
        /\ ordered' = ordered /\ reachable' = reachable /\ direct' = direct
    BY <1>4 DEF StartSearch, Search, componentVars, orderVars, reduceVars
  <2>2. SearchInv'
    BY <1>0, <1>4, StartSearchStep, SearchStep
  <2>3. QED
    BY <1>0, <2>1, <2>2 DEF ReductionInv
<1>5. CASE SearchDone
  <2>1. /\ pc = "finish" /\ pc' = "collect" /\ graph' = graph
        /\ ordered' = ordered /\ reachable' = reachable /\ direct' = direct
        /\ UNCHANGED searchVars
    BY <1>5 DEF SearchDone, orderVars, reduceVars
  <2>2. SearchInv'
    BY <1>0, <2>1, SameSearch
  <2>3. CollectInv'
    BY <1>0, <1>5, <2>1, SearchDoneStep DEF ReductionInv
  <2>4. QED
    BY <1>0, <2>1, <2>2, <2>3 DEF ReductionInv
<1>6. CASE OpenComponent \/ GrowComponent \/ CloseComponent
  <2>1. /\ pc = "collect" /\ pc' = "collect" /\ graph' = graph
        /\ ordered' = ordered /\ reachable' = reachable /\ direct' = direct
        /\ UNCHANGED searchVars
    BY <1>6 DEF OpenComponent, GrowComponent, CloseComponent, orderVars, reduceVars
  <2>2. SearchInv'
    BY <1>0, <2>1, SameSearch
  <2>3. CollectInv
    BY <2>1 DEF ReductionInv
  <2>4. CollectInv'
    BY <1>0, <1>6, <2>3, OpenStep, GrowStep, CloseStep
  <2>5. QED
    BY <1>0, <2>1, <2>2, <2>4 DEF ReductionInv
<1>7. CASE Quotient
  <2>1. PICK edges : EnterOrder(nodes, edges)
    BY <1>7 DEF Quotient
  <2>2. /\ pc = "collect" /\ pc' = "order" /\ graph' = graph
        /\ ordered' = ordered /\ reachable' = reachable /\ direct' = direct
        /\ UNCHANGED searchVars
    BY <1>7 DEF Quotient, EnterOrder, reduceVars
  <2>3. SearchInv'
    BY <1>0, <2>2, SameSearch
  <2>4. CollectInv /\ graph.call = "quotient_and_reduce" /\ ordered' = <<>>
    BY <2>2 DEF ReductionInv
  <2>5. QuotientInv'
    BY <1>0, <1>7, <2>4, QuotientStep
  <2>6. OrderInv'
    BY <1>0, <2>1, <2>2, <2>4, <2>5, EnterOrderStep
  <2>7. QED
    BY <1>0, <2>2, <2>3, <2>5, <2>6 DEF ReductionInv
<1>8. CASE OrderNode
  <2>1. /\ pc = "order" /\ pc' = "order" /\ graph' = graph /\ nodes' = nodes /\ arcs' = arcs
        /\ reachable' = reachable /\ direct' = direct
        /\ UNCHANGED searchVars
    BY <1>8 DEF OrderNode, componentVars, reduceVars
  <2>2. SearchInv'
    BY <1>0, <2>1, SameSearch
  <2>3. QuotientInv /\ OrderInv
    BY <2>1 DEF ReductionInv
  <2>4. QuotientInv'
    BY <2>1, <2>3, SameQuotient
  <2>5. OrderInv'
    BY <1>0, <1>8, <2>3, OrderStep
  <2>6. QED
    BY <1>0, <2>1, <2>2, <2>4, <2>5 DEF ReductionInv
<1>9. CASE ChooseReduction
  <2>1. /\ pc = "order" /\ pc' \in {"rows", "mark"} /\ graph' = graph /\ nodes' = nodes /\ arcs' = arcs
        /\ indegree' = indegree /\ ready' = ready /\ ordered' = ordered
        /\ UNCHANGED searchVars
    BY <1>9 DEF ChooseReduction, componentVars, orderVars
  <2>2. SearchInv'
    BY <1>0, <2>1, SameSearch
  <2>3. QuotientInv /\ OrderInv /\ reachable = <<>> /\ direct = {}
    BY <2>1 DEF ReductionInv
  <2>4. QuotientInv' /\ OrderInv'
    BY <2>1, <2>3, SameQuotient, SameOrder
  <2>5. ReduceInv'
    BY <1>0, <1>9, <2>3, ChooseStep
  <2>6. QED
    BY <1>0, <2>1, <2>2, <2>4, <2>5 DEF ReductionInv
<1>10. CASE ComputeRow \/ ReduceWithRows \/ ReduceWithMarks \/ ReductionDone
  <2>1. /\ pc \in {"rows", "bits", "mark"} /\ pc' \in {"rows", "bits", "mark", "done"}
        /\ graph' = graph /\ nodes' = nodes /\ arcs' = arcs
        /\ indegree' = indegree /\ ready' = ready /\ ordered' = ordered
        /\ UNCHANGED searchVars
    BY <1>10 DEF ComputeRow, ReduceWithRows, ReduceWithMarks, ReductionDone, componentVars, orderVars
  <2>2. SearchInv'
    BY <1>0, <2>1, SameSearch
  <2>3. QuotientInv /\ OrderInv /\ ReduceInv
    BY <2>1 DEF ReductionInv
  <2>4. QuotientInv' /\ OrderInv'
    BY <2>1, <2>3, SameQuotient, SameOrder
  <2>5. ReduceInv' /\ (pc' = "done" => sub' = {})
    <3>1. CASE ComputeRow
      BY <1>0, <2>3, <3>1, RowStep DEF ComputeRow
    <3>2. CASE ReduceWithRows \/ ReduceWithMarks
      <4>1. pc' # "done"
        BY <3>2 DEF ReduceWithRows, ReduceWithMarks
      <4>2. QED
        BY <1>0, <2>3, <3>2, <4>1, ReduceStep
    <3>3. CASE ReductionDone
      <4>1. UNCHANGED reduceVars /\ pc' = "done" /\ sub' = {}
        BY <3>3 DEF ReductionDone, reduceVars
      <4>2. QED
        BY <2>1, <2>3, <4>1, SameReduce
    <3>4. QED
      BY <1>10, <3>1, <3>2, <3>3
  <2>6. QED
    BY <1>0, <2>1, <2>2, <2>4, <2>5 DEF ReductionInv
<1>11. CASE UNCHANGED vars
  <2>1. /\ pc' = pc /\ graph' = graph /\ nodes' = nodes /\ arcs' = arcs
        /\ indegree' = indegree /\ ready' = ready /\ ordered' = ordered
        /\ assigned' = assigned /\ pending' = pending /\ component' = component
        /\ reachable' = reachable /\ sub' = sub /\ direct' = direct
        /\ UNCHANGED searchVars /\ UNCHANGED componentVars /\ UNCHANGED reduceVars
    BY <1>11 DEF vars, componentVars, orderVars, reduceVars
  <2>2. SearchInv'
    BY <1>0, <2>1, SameSearch
  <2>3. CollectInv => CollectInv'
    BY <2>1, SameCollect
  <2>4. QuotientInv /\ OrderInv => QuotientInv' /\ OrderInv'
    BY <2>1, SameQuotient, SameOrder
  <2>5. ReduceInv => ReduceInv'
    BY <2>1, SameReduce
  <2>6. QED
    BY <1>0, <2>1, <2>2, <2>3, <2>4, <2>5 DEF ReductionInv
<1>12. QED
  BY <1>1, <1>2, <1>3, <1>4, <1>5, <1>6, <1>7, <1>8, <1>9, <1>10, <1>11 DEF Next, Ended

\* Every call keeps the invariant of its phase.
THEOREM ReductionInvariant == Spec => []ReductionInv
<1>1. Init => ReductionInv
  BY ReductionInit
<1>2. ReductionInv /\ [Next \/ Ended]_vars => ReductionInv'
  BY ReductionStep
<1>3. QED
  BY <1>1, <1>2, PTL DEF Spec

(***************************************************************************)
(* What the calls return                                                   *)
(***************************************************************************)

\* The reference closure of the properties is reachability.
LEMMA ReachesIsLeads ==
  ASSUME graph \in Graphs
  PROVE  Reaches = {p \in graph.members \X graph.members : Leads(p[1], p[2])}
  BY GraphIsFinite, PreorderIsReach DEF Reaches, Leads

\* quotient_and_reduce gives one node to each class of mutual subsumption, the one of the
\* reference closure, from the moment the two searches are over (_strong_components).
THEOREM ComponentsAreEquivalenceClasses == Spec => []NodesAreEquivalenceClasses
<1>1. ReductionInv => NodesAreEquivalenceClasses
  <2>1. SUFFICES ASSUME ReductionInv, graph.call = "quotient_and_reduce",
                        pc \in {"order", "rows", "bits", "mark", "done"}
                 PROVE  nodes = EquivalenceNodes
    BY DEF NodesAreEquivalenceClasses
  <2>2. graph \in Graphs /\ nodes = {Class(n) : n \in graph.members}
    BY <2>1 DEF ReductionInv, QuotientInv
  <2>3. ASSUME NEW n \in graph.members
        PROVE  Class(n) = {m \in graph.members : <<n, m>> \in Reaches /\ <<m, n>> \in Reaches}
    <3>1. \A m \in graph.members : /\ <<n, m>> \in Reaches <=> Leads(n, m)
                                   /\ <<m, n>> \in Reaches <=> Leads(m, n)
      BY <2>2, ReachesIsLeads
    <3>2. QED
      BY <3>1 DEF Class, Same
  <2>4. QED
    BY <2>2, <2>3 DEF EquivalenceNodes
<1>2. QED
  BY <1>1, ReductionInvariant, PTL

\* transitive_reduction raises "transitive reduction requires an acyclic graph" exactly for
\* a graph with a cycle, and never for the quotient of quotient_and_reduce.
THEOREM OnlyCyclesAreRejected == Spec => []RejectsOnlyCycles
<1>1. ReductionInv => RejectsOnlyCycles
  <2>1. SUFFICES ASSUME ReductionInv
                 PROVE  RejectsOnlyCycles
    OBVIOUS
  <2>2. graph \in Graphs
    BY <2>1 DEF ReductionInv
  <2>3. \A e \in graph.edges : <<e[2], e[1]>> \in Reaches <=> Leads(e[2], e[1])
    <3>1. \A e \in graph.edges : e[1] \in graph.members /\ e[2] \in graph.members
      BY <2>2, GraphIsFinite
    <3>2. QED
      BY <2>2, <3>1, ReachesIsLeads
  <2>4. pc = "rejected" => /\ graph.call = "transitive_reduction"
                           /\ \E e \in graph.edges : <<e[2], e[1]>> \in Reaches
    BY <2>1, <2>3 DEF ReductionInv
  <2>5. ASSUME pc = "done", graph.call # "quotient_and_reduce",
               NEW e \in graph.edges, Leads(e[2], e[1])
        PROVE  FALSE
    <3>1. QuotientInv /\ OrderInv /\ Range(ordered) = nodes
      BY <2>1, <2>5 DEF ReductionInv, ReduceInv
    <3>2. graph.call = "transitive_reduction"
      BY <2>2, <2>5, GraphsAssumption
    <3>3. PICK n \in graph.members, m \in graph.members : e = <<n, m>> /\ <<n, m>> \in graph.edges
      BY <2>2, GraphIsFinite
    <3>4. {n} \in nodes /\ {m} \in nodes /\ n # m
      BY <3>1, <3>2, <3>3 DEF QuotientInv
    <3>5. Leads(n, m) /\ Leads(m, n)
      BY <2>2, <2>5, <3>3, LeadsIsPreorder
    <3>6. n \in {n} /\ m \in {m}
      OBVIOUS
    <3>7. Reach(arcs, nodes, {n}, {m}) /\ Reach(arcs, nodes, {m}, {n})
      BY <2>2, <3>1, <3>4, <3>5, <3>6, NodesLead
    <3>8. {n} = {m}
      BY <2>2, <3>1, <3>4, <3>7, ReachGoesForward
    <3>9. QED
      BY <3>4, <3>8
  <2>6. QED
    BY <2>3, <2>4, <2>5 DEF RejectsOnlyCycles
<1>2. QED
  BY <1>1, ReductionInvariant, PTL

\* The direct edges of a call that returns are the covering pairs of the order on nodes,
\* whether the rows or the marks were used: no pair is missing, none is redundant.
THEOREM DirectEdgesAreExact == Spec => []DirectEdgesAreCovers
<1>1. ReductionInv => DirectEdgesAreCovers
  <2>1. SUFFICES ASSUME ReductionInv, pc = "done"
                 PROVE  direct = {p \in Below : ~\E x \in nodes : <<p[1], x>> \in Below /\ <<x, p[2]>> \in Below}
    BY DEF DirectEdgesAreCovers
  <2>2. /\ graph \in Graphs /\ QuotientInv /\ OrderInv /\ Range(ordered) = nodes
        /\ direct = {p \in nodes \X nodes : p[2] \in Covers(p[1])}
    BY <2>1 DEF ReductionInv, ReduceInv
  <2>3. ASSUME NEW x \in nodes, NEW y \in nodes
        PROVE  <<x, y>> \in Below <=> x # y /\ y \in Up(x)
    <3>1. /\ Min(x) \in x /\ Min(y) \in y
          /\ Min(x) \in graph.members /\ Min(y) \in graph.members
      BY <2>2, QuotientFacts
    <3>2. <<Min(x), Min(y)>> \in Reaches <=> Leads(Min(x), Min(y))
      BY <2>2, <3>1, ReachesIsLeads
    <3>3. Leads(Min(x), Min(y)) <=> Reach(arcs, nodes, x, y)
      BY <2>2, <3>1, NodesLead
    <3>4. QED
      BY <3>2, <3>3 DEF Below, Up
  <2>4. ASSUME NEW x \in nodes, NEW y \in Covers(x)
        PROVE  /\ y \in nodes /\ <<x, y>> \in Below
               /\ ~\E z \in nodes : <<x, z>> \in Below /\ <<z, y>> \in Below
    <3>1. y \in Supers(x) /\ \A w \in Supers(x) : y \in Up(w) => w = y
      BY <2>4 DEF Covers
    <3>2. y \in nodes /\ y # x /\ y \in Up(x)
      BY <2>2, <3>1, UpUnfolds
    <3>3. ASSUME NEW z \in nodes, <<x, z>> \in Below, <<z, y>> \in Below
          PROVE  FALSE
      <4>1. z # x /\ z \in Up(x) /\ y # z /\ y \in Up(z)
        BY <2>3, <3>2, <3>3
      <4>2. PICK w \in Supers(x) : z \in Up(w) /\ w \in nodes
        BY <2>2, <4>1, UpUnfolds
      <4>3. Up(z) \subseteq Up(w)
        BY <2>2, <4>2, UpUnfolds
      <4>4. w = y
        BY <3>1, <4>1, <4>2, <4>3
      <4>5. \A u \in Up(y) : y \in Up(u) => u = y
        BY <2>2, <3>2, UpUnfolds
      <4>6. QED
        BY <4>1, <4>2, <4>4, <4>5
    <3>4. QED
      BY <2>3, <3>2, <3>3
  <2>5. ASSUME NEW x \in nodes, NEW y \in nodes, <<x, y>> \in Below,
               ~\E z \in nodes : <<x, z>> \in Below /\ <<z, y>> \in Below
        PROVE  y \in Covers(x)
    <3>1. x # y /\ y \in Up(x)
      BY <2>3, <2>5
    <3>2. /\ \A w \in Supers(x) : w \in nodes /\ w # x /\ w \in Up(x)
          /\ \E w \in Supers(x) : y \in Up(w)
      BY <2>2, <3>1, UpUnfolds
    <3>3. \A w \in Supers(x) : y \in Up(w) => w = y
      <4>1. SUFFICES ASSUME NEW w \in Supers(x), y \in Up(w), w # y
                     PROVE  FALSE
        OBVIOUS
      <4>2. w \in nodes /\ <<x, w>> \in Below /\ <<w, y>> \in Below
        BY <2>3, <3>2, <4>1
      <4>3. QED
        BY <2>5, <4>2
    <3>4. QED
      BY <3>2, <3>3 DEF Covers
  <2>6. Below \subseteq nodes \X nodes
    BY DEF Below
  <2>7. ASSUME NEW p
        PROVE  p \in direct <=> /\ p \in Below
                                /\ ~\E x \in nodes : <<p[1], x>> \in Below /\ <<x, p[2]>> \in Below
    <3>1. CASE p \in nodes \X nodes
      <4>1. p = <<p[1], p[2]>> /\ p[1] \in nodes /\ p[2] \in nodes
        BY <3>1
      <4>2. p \in direct <=> p[2] \in Covers(p[1])
        BY <2>2, <3>1
      <4>3. QED
        BY <2>4, <2>5, <4>1, <4>2
    <3>2. CASE p \notin nodes \X nodes
      BY <2>2, <2>6, <3>2
    <3>3. QED
      BY <3>1, <3>2
  <2>8. QED
    BY <2>7
<1>2. QED
  BY <1>1, ReductionInvariant, PTL

=============================================================================
