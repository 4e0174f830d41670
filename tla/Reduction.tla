----------------------------- MODULE Reduction -----------------------------
(***************************************************************************)
(* quotient_and_reduce, from a subsumption relation to taxonomy nodes and  *)
(* direct edges, and transitive_reduction, which also validates taxonomies *)
(* on its own.  An iterative depth-first search gives a finishing order, *)
(* a second one over the reversed edges collects the strong components,    *)
(* their quotient is ordered topologically and reduced, with reachability  *)
(* rows when it is small and dense and with a marking pass otherwise.      *)
(* Members are their IDs; a node of the quotient is the set of its members,*)
(* and nodes are ordered, as sorted tuples are, by their least member.     *)
(***************************************************************************)
EXTENDS Naturals, Sequences, FiniteSets, SequencesExt, FiniteSetsExt, Preorders

CONSTANTS
    Graphs,            \* the inputs: records [call, members, edges]
    BITSET_NODE_LIMIT  \* _BITSET_NODE_LIMIT

ASSUME GraphsAssumption ==
    \A g \in Graphs : /\ g.call \in {"quotient_and_reduce", "transitive_reduction"}
                      /\ g.members \subseteq Nat /\ IsFiniteSet(g.members)
                      /\ g.edges \subseteq g.members \X g.members

VARIABLES
    graph,       \* the input
    pc,          \* the loop that is running
    visited, stack, finished,         \* _finishing_order
    assigned, pending, component,     \* _strong_components
    nodes, arcs,                      \* the quotient
    indegree, ready, ordered,         \* _topological_order
    reachable,                        \* _bitset_reduction: the rows computed so far
    sub, direct                       \* the nodes still to be reduced, the direct edges

searchVars == <<visited, stack, finished>>
componentVars == <<assigned, pending, component, nodes>>
orderVars == <<arcs, indegree, ready, ordered>>
reduceVars == <<reachable, sub, direct>>
vars == <<graph, pc, searchVars, componentVars, orderVars, reduceVars>>

\* A set of IDs in increasing order.
Ascending(S) ==
    CHOOSE s \in [1 .. Cardinality(S) -> S] :
        Range(s) = S /\ \A i, j \in DOMAIN s : i < j => s[i] < s[j]

\* Self edges are dropped, duplicates are merged.
Successors(n) == {m \in graph.members : m # n /\ <<n, m>> \in graph.edges}
Predecessors(n) == {m \in graph.members : m # n /\ <<m, n>> \in graph.edges}

Init ==
    /\ graph \in Graphs
    /\ pc = "call"
    /\ visited = {}
    /\ stack = <<>>
    /\ finished = <<>>
    /\ assigned = {}
    /\ pending = <<>>
    /\ component = {}
    /\ nodes = {}
    /\ arcs = {}
    /\ indegree = <<>>
    /\ ready = {}
    /\ ordered = <<>>
    /\ reachable = <<>>
    /\ sub = {}
    /\ direct = {}

\* quotient_and_reduce starts with the components.
CallQuotient ==
    /\ pc = "call"
    /\ graph.call = "quotient_and_reduce"
    /\ pc' = "finish"
    /\ UNCHANGED <<graph, searchVars, componentVars, orderVars, reduceVars>>

\* The node count and edges transitive_reduction is entered with.
EnterOrder(quotient, edges) ==
    /\ nodes' = quotient
    /\ arcs' = edges
    /\ indegree' = [y \in quotient |-> Cardinality({x \in quotient : <<x, y>> \in edges})]
    /\ ready' = {y \in quotient : indegree'[y] = 0}
    /\ pc' = "order"

\* transitive_reduction of a given graph without self edges.
CallReduction ==
    /\ pc = "call"
    /\ graph.call = "transitive_reduction"
    /\ \A n \in graph.members : <<n, n>> \notin graph.edges
    /\ EnterOrder({{n} : n \in graph.members}, {<<{e[1]}, {e[2]}>> : e \in graph.edges})
    /\ UNCHANGED <<graph, searchVars, assigned, pending, component, ordered, reduceVars>>

\* _validated_edges: "a DAG cannot contain self edges".
RejectSelfEdge ==
    /\ pc = "call"
    /\ graph.call = "transitive_reduction"
    /\ \E n \in graph.members : <<n, n>> \in graph.edges
    /\ pc' = "rejected"
    /\ UNCHANGED <<graph, searchVars, componentVars, orderVars, reduceVars>>

(***************************************************************************)
(* _finishing_order                                                        *)
(***************************************************************************)

\* The next start that no earlier search has visited.  A stack entry is a node with its
\* successors from the current position on; they are taken in increasing order.
StartSearch ==
    /\ pc = "finish"
    /\ stack = <<>>
    /\ visited # graph.members
    /\ LET start == Min(graph.members \ visited)
       IN  /\ visited' = visited \cup {start}
           /\ stack' = <<<<start, Successors(start)>>>>
    /\ UNCHANGED <<graph, pc, finished, componentVars, orderVars, reduceVars>>

\* Mutant of Search: a successor that was visited is looked at again.
SearchStuck ==
    /\ pc = "finish"
    /\ stack # <<>>
    /\ LET node == Last(stack)[1]
           left == Last(stack)[2]
           successor == Min(left)
       IN  \/ /\ left = {}
              /\ stack' = Front(stack)
              /\ finished' = Append(finished, node)
              /\ UNCHANGED visited
           \/ /\ left # {}
              /\ successor \in visited
              /\ UNCHANGED searchVars
           \/ /\ left # {}
              /\ successor \notin visited
              /\ stack' = Append(stack, <<successor, Successors(successor)>>)
              /\ visited' = visited \cup {successor}
              /\ UNCHANGED finished
    /\ UNCHANGED <<graph, pc, componentVars, orderVars, reduceVars>>

\* One iteration of the search loop: leave a node whose successors are done, or look at
\* its next successor and enter it.
Search ==
    /\ pc = "finish"
    /\ stack # <<>>
    /\ LET node == Last(stack)[1]
           left == Last(stack)[2]
           successor == Min(left)
           advanced == Append(Front(stack), <<node, left \ {successor}>>)
       IN  \/ /\ left = {}
              /\ stack' = Front(stack)
              /\ finished' = Append(finished, node)
              /\ UNCHANGED visited
           \/ /\ left # {}
              /\ successor \in visited
              /\ stack' = advanced
              /\ UNCHANGED <<visited, finished>>
           \/ /\ left # {}
              /\ successor \notin visited
              /\ stack' = Append(advanced, <<successor, Successors(successor)>>)
              /\ visited' = visited \cup {successor}
              /\ UNCHANGED finished
    /\ UNCHANGED <<graph, pc, componentVars, orderVars, reduceVars>>

SearchDone ==
    /\ pc = "finish"
    /\ stack = <<>>
    /\ visited = graph.members
    /\ pc' = "collect"
    /\ UNCHANGED <<graph, searchVars, componentVars, orderVars, reduceVars>>

(***************************************************************************)
(* _strong_components                                                      *)
(***************************************************************************)

\* Mutant of OpenComponent: the finishing order is not reversed.
OpenComponentFirst ==
    /\ pc = "collect"
    /\ pending = <<>>
    /\ component = {}
    /\ assigned # graph.members
    /\ LET start == finished[Min({i \in DOMAIN finished : finished[i] \notin assigned})]
       IN  /\ assigned' = assigned \cup {start}
           /\ pending' = <<start>>
    /\ UNCHANGED <<graph, pc, searchVars, component, nodes, orderVars, reduceVars>>

\* The unassigned member that finished last opens the next component.
OpenComponent ==
    /\ pc = "collect"
    /\ pending = <<>>
    /\ component = {}
    /\ assigned # graph.members
    /\ LET start == finished[Max({i \in DOMAIN finished : finished[i] \notin assigned})]
       IN  /\ assigned' = assigned \cup {start}
           /\ pending' = <<start>>
    /\ UNCHANGED <<graph, pc, searchVars, component, nodes, orderVars, reduceVars>>

\* Mutant of GrowComponent: the predecessors are not followed.
GrowComponentAlone ==
    /\ pc = "collect"
    /\ pending # <<>>
    /\ component' = component \cup {Last(pending)}
    /\ pending' = Front(pending)
    /\ UNCHANGED <<graph, pc, searchVars, assigned, nodes, orderVars, reduceVars>>

\* One iteration of the loop over the reversed edges.
GrowComponent ==
    /\ pc = "collect"
    /\ pending # <<>>
    /\ LET node == Last(pending)
           fresh == Predecessors(node) \ assigned
       IN  /\ component' = component \cup {node}
           /\ assigned' = assigned \cup fresh
           /\ pending' = Front(pending) \o Reverse(Ascending(fresh))
    /\ UNCHANGED <<graph, pc, searchVars, nodes, orderVars, reduceVars>>

CloseComponent ==
    /\ pc = "collect"
    /\ pending = <<>>
    /\ component # {}
    /\ nodes' = nodes \cup {component}
    /\ component' = {}
    /\ UNCHANGED <<graph, pc, searchVars, assigned, pending, orderVars, reduceVars>>

\* The rest of quotient_and_reduce: the edges between components are reduced.
Quotient ==
    /\ pc = "collect"
    /\ pending = <<>>
    /\ component = {}
    /\ assigned = graph.members
    /\ EnterOrder(nodes, {p \in nodes \X nodes :
                            p[1] # p[2] /\ \E n \in p[1] : Successors(n) \cap p[2] # {}})
    /\ UNCHANGED <<graph, searchVars, assigned, pending, component, ordered, reduceVars>>

(***************************************************************************)
(* _topological_order                                                      *)
(***************************************************************************)

Supers(x) == {y \in nodes : <<x, y>> \in arcs}

\* The ready node that comes first leaves the heap and releases its successors.
OrderNode ==
    /\ pc = "order"
    /\ ready # {}
    /\ LET node == CHOOSE x \in ready : \A y \in ready : Min(x) <= Min(y)
           released == {y \in Supers(node) : indegree[y] = 1}
       IN  /\ ordered' = Append(ordered, node)
           /\ indegree' = [y \in nodes |->
                              IF y \in Supers(node) THEN indegree[y] - 1 ELSE indegree[y]]
           /\ ready' = (ready \ {node}) \cup released
    /\ UNCHANGED <<graph, pc, searchVars, componentVars, arcs, reduceVars>>

\* A cycle would leave nodes unordered: ValueError.
RejectCycle ==
    /\ pc = "order"
    /\ ready = {}
    /\ Len(ordered) # Cardinality(nodes)
    /\ pc' = "rejected"
    /\ UNCHANGED <<graph, searchVars, componentVars, orderVars, reduceVars>>

IsDense == Cardinality(nodes) <= BITSET_NODE_LIMIT /\ Cardinality(arcs) > Cardinality(nodes) * 2

ChooseReduction ==
    /\ pc = "order"
    /\ ready = {}
    /\ Len(ordered) = Cardinality(nodes)
    /\ pc' = IF IsDense THEN "rows" ELSE "mark"
    /\ sub' = nodes
    /\ UNCHANGED <<graph, searchVars, componentVars, orderVars, reachable, direct>>

(***************************************************************************)
(* _bitset_reduction and the marking pass of transitive_reduction          *)
(***************************************************************************)

\* Mutant of ByRank: successors are taken in the order of their IDs.
ByRankOfId == SetToSortSeq(nodes, LAMBDA x, y : Min(x) < Min(y))

\* The nodes by rank, the order in which successors are taken.
ByRank == ordered

\* The rows are computed from the last node of the order to the first.
ComputeRow ==
    /\ pc = "rows"
    /\ LET node == ordered[Len(ordered) - Cardinality(DOMAIN reachable)]
           row == Supers(node) \cup UNION {reachable[y] : y \in Supers(node)}
       IN  /\ reachable' = [x \in DOMAIN reachable \cup {node} |->
                               IF x = node THEN row ELSE reachable[x]]
           /\ pc' = IF Cardinality(DOMAIN reachable) + 1 = Len(ordered) THEN "bits" ELSE "rows"
    /\ UNCHANGED <<graph, searchVars, componentVars, orderVars, sub, direct>>

\* The successors that no earlier successor covers, where covers[y] is what y covers.
Uncovered(node, covers) ==
    LET scan[i \in 0 .. Len(ByRank)] ==
            IF i = 0 THEN [kept |-> {}, covered |-> {}]
            ELSE LET before == scan[i - 1]
                     y == ByRank[i]
                 IN  IF y \in Supers(node) /\ y \notin before.covered
                     THEN [kept |-> before.kept \cup {y}, covered |-> before.covered \cup covers[y]]
                     ELSE before
    IN  scan[Len(ByRank)].kept

ReduceWithRows ==
    /\ pc = "bits"
    /\ sub # {}
    /\ LET node == CHOOSE x \in sub : \A y \in sub : Min(x) <= Min(y)
       IN  /\ direct' = direct \cup {<<node, y>> : y \in Uncovered(node, [y \in Supers(node) |-> {y} \cup reachable[y]])}
           /\ sub' = sub \ {node}
    /\ UNCHANGED <<graph, pc, searchVars, componentVars, orderVars, reachable>>

\* What the marking loop reaches from node, itself included.
Marked(node) ==
    LET steps[n \in Nat] == IF n = 0 THEN {node}
                            ELSE steps[n - 1] \cup UNION {Supers(x) : x \in steps[n - 1]}
    IN  steps[Cardinality(nodes)]

\* A node with at most one successor keeps it without a search.
ReduceWithMarks ==
    /\ pc = "mark"
    /\ sub # {}
    /\ LET node == CHOOSE x \in sub : \A y \in sub : Min(x) <= Min(y)
       IN  /\ direct' = direct \cup {<<node, y>> : y \in Uncovered(node, [y \in Supers(node) |-> Marked(y)])}
           /\ sub' = sub \ {node}
    /\ UNCHANGED <<graph, pc, searchVars, componentVars, orderVars, reachable>>

ReductionDone ==
    /\ pc \in {"bits", "mark"}
    /\ sub = {}
    /\ pc' = "done"
    /\ UNCHANGED <<graph, searchVars, componentVars, orderVars, reduceVars>>

Next ==
    \/ CallQuotient \/ CallReduction \/ RejectSelfEdge
    \/ StartSearch \/ Search \/ SearchDone
    \/ OpenComponent \/ GrowComponent \/ CloseComponent \/ Quotient
    \/ OrderNode \/ RejectCycle \/ ChooseReduction
    \/ ComputeRow \/ ReduceWithRows \/ ReduceWithMarks \/ ReductionDone

\* A call returns or raises.
Ended == pc \in {"done", "rejected"} /\ UNCHANGED vars

Spec == Init /\ [][Next \/ Ended]_vars

FairSpec == Spec /\ WF_vars(Next)

(***************************************************************************)
(* Properties                                                              *)
(***************************************************************************)

\* Members reached over edges, independently of the algorithm.
Reaches == Preorder(graph.edges, graph.members)

\* The classes of mutual reachability.
EquivalenceNodes ==
    LET reaches == Reaches
    IN  {{m \in graph.members : <<n, m>> \in reaches /\ <<m, n>> \in reaches} : n \in graph.members}

\* The components collected in two linear passes are exactly the classes of mutual
\* subsumption, so that equivalent entities share one taxonomy node.
NodesAreEquivalenceClasses ==
    (graph.call = "quotient_and_reduce" /\ pc \in {"order", "rows", "bits", "mark", "done"}) =>
        nodes = EquivalenceNodes

\* <<x, y>>: node x is strictly below node y.
Below ==
    LET reaches == Reaches
    IN  {p \in nodes \X nodes : p[1] # p[2] /\ <<Min(p[1]), Min(p[2])>> \in reaches}

\* The direct edges are the covering pairs of the order on nodes: none is missing and none
\* is redundant, whichever reduction was chosen.
DirectEdgesAreCovers ==
    pc = "done" =>
        LET below == Below
        IN  direct = {p \in below : ~\E x \in nodes : <<p[1], x>> \in below /\ <<x, p[2]>> \in below}

\* "transitive reduction requires an acyclic graph": a graph is rejected exactly if it has
\* a cycle, and the quotient of the components never has one, so that a classification
\* never ends in that ValueError.
RejectsOnlyCycles ==
    LET cyclic == \E e \in graph.edges : <<e[2], e[1]>> \in Reaches
    IN  /\ pc = "rejected" => graph.call = "transitive_reduction" /\ cyclic
        /\ pc = "done" => graph.call = "quotient_and_reduce" \/ ~cyclic

\* The iterative loops end: every call returns or raises.
Terminates == <>(pc \in {"done", "rejected"})

=============================================================================
