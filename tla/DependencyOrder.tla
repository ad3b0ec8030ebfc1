-------------------------- MODULE DependencyOrder --------------------------
(***************************************************************************)
(* The algorithm of deps.NewGraphFromConfig and Graph.TopologicalSort      *)
(* (internal/deps/graph.go), step by step: Validate, the depth-first       *)
(* search of HasCycle, then Kahn's algorithm with its in-degrees and its   *)
(* sorted queue.  Go ranges over the node map in any order, so the roots   *)
(* of the search are chosen nondeterministically.                          *)
(***************************************************************************)
EXTENDS DependencyGraph

CONSTANT Tables   \* the process tables (config.Processes) to order

ASSUME DependencyOrderAssumption ==
    \A t \in Tables : IsFiniteSet(t.present) /\ t.present \subseteq Nat

VARIABLES
    table,      \* the processes
    stage,      \* "validate", "search", "sort", or a result: "ordered", "invalid", "cycle"
    visited,    \* nodes the search has reached
    stack,      \* its recursion: [node, left], left = dependencies not yet looked at
    inDegree,   \* dependencies of a node not yet placed
    queue,      \* nodes without such dependencies (kept sorted, so a set)
    result      \* the order so far

sortVars == <<table, stage, visited, stack, inDegree, queue, result>>

(* Graph.nodes; the lists are sets here, so the search may look at the     *)
(* dependencies of a node in any order.                                    *)
graph == NewGraph(table)

(* Mutant: a repeated entry of depends_on is counted again.                *)
DegreeOfList(p) == Len(SelectSeq(table.depends[p], LAMBDA dep : KeepsEdge(table, dep)))

(* The length of a node's list, which has been freed of repetitions.       *)
Degree(p) == Cardinality(graph[p])

SortInit ==
    /\ table \in Tables
    /\ stage = "validate"
    /\ visited = {}
    /\ stack = <<>>
    /\ inDegree = [p \in Nodes(graph) |-> 0]
    /\ queue = {}
    /\ result = <<>>

DoValidate ==
    /\ stage = "validate"
    /\ stage' = IF Validate(graph) THEN "search" ELSE "invalid"
    /\ UNCHANGED <<table, visited, stack, inDegree, queue, result>>

-----------------------------------------------------------------------------
OnStack == {stack[i].node : i \in DOMAIN stack}
Top     == Last(stack)
FrameOf(p) == [node |-> p, left |-> graph[p]]

Visit(p) == /\ visited' = visited \cup {p}
            /\ UNCHANGED <<table, stage, inDegree, queue, result>>

(* HasCycle calls the search for a node that was not visited yet.          *)
SearchRoot(p) ==
    /\ stage = "search" /\ stack = <<>>
    /\ p \in Nodes(graph) \ visited
    /\ stack' = <<FrameOf(p)>>
    /\ Visit(p)

(* The node on top still has the dependency dep to look at.                *)
LooksAt(dep)  == stage = "search" /\ stack # <<>> /\ dep \in Top.left
Advanced(dep) == [stack EXCEPT ![Len(stack)].left = @ \ {dep}]

(* hasCycleDFS looks at the next dependency of the node on top: recurse    *)
(* into it, report a cycle, or skip what has been searched completely.     *)
SearchInto(dep) ==
    /\ LooksAt(dep) /\ dep \notin visited
    /\ stack' = Append(Advanced(dep), FrameOf(dep))
    /\ Visit(dep)

SearchMeets(dep) ==
    /\ LooksAt(dep) /\ dep \in visited
    /\ IF dep \in OnStack THEN stage' = "cycle" /\ UNCHANGED stack
                          ELSE stack' = Advanced(dep) /\ UNCHANGED stage
    /\ UNCHANGED <<table, visited, inDegree, queue, result>>

SearchReturns ==
    /\ stage = "search" /\ stack # <<>> /\ Top.left = {}
    /\ stack' = Front(stack)
    /\ UNCHANGED <<table, stage, visited, inDegree, queue, result>>

-----------------------------------------------------------------------------
(* No cycle: the in-degree of a node is the length of its list.            *)
SortBegin ==
    /\ stage = "search" /\ stack = <<>> /\ visited = Nodes(graph)
    /\ stage' = "sort"
    /\ inDegree' = [p \in Nodes(graph) |-> Degree(p)]
    /\ queue' = {p \in Nodes(graph) : Degree(p) = 0}
    /\ UNCHANGED <<table, visited, stack, result>>

FirstOf(names) == CHOOSE p \in names : \A q \in names : p <= q
Dependents(node) == {p \in Nodes(graph) : node \in graph[p]}

(* Mutant of SortStep: a dependent is queued with its first dependency.    *)
SortStepEager ==
    LET node == FirstOf(queue)
    IN  /\ stage = "sort" /\ queue # {}
        /\ result' = Append(result, node)
        /\ inDegree' = inDegree
        /\ queue' = (queue \cup {p \in Dependents(node) : ~Contains(result, p)}) \ {node}
        /\ UNCHANGED <<table, stage, visited, stack>>

(* Take the first name of the queue, and release its dependents.           *)
SortStep ==
    LET node == FirstOf(queue)
    IN  /\ stage = "sort" /\ queue # {}
        /\ result' = Append(result, node)
        /\ inDegree' = [p \in Nodes(graph) |->
                            IF p \in Dependents(node) THEN inDegree[p] - 1 ELSE inDegree[p]]
        /\ queue' = (queue \ {node}) \cup {p \in Dependents(node) : inDegree[p] = 1}
        /\ UNCHANGED <<table, stage, visited, stack>>

SortEnd ==
    /\ stage = "sort" /\ queue = {}
    /\ stage' = IF Len(result) = Cardinality(Nodes(graph)) THEN "ordered" ELSE "cycle"
    /\ UNCHANGED <<table, visited, stack, inDegree, queue, result>>

SortNext ==
    \/ DoValidate
    \/ \E p \in Nodes(graph) : SearchRoot(p) \/ SearchInto(p) \/ SearchMeets(p)
    \/ SearchReturns
    \/ SortBegin
    \/ SortStep
    \/ SortEnd

SortSpec == SortInit /\ [][SortNext]_sortVars

-----------------------------------------------------------------------------
(* A configuration is refused as cyclic only if it has a cycle: neither a  *)
(* diamond nor a dependency written twice is taken for one.                *)
CycleIsReal == stage = "cycle" => Validate(graph) /\ HasCycle(graph)

(* No process is placed before everything it depends on is.                *)
DependenciesFirst ==
    \A i \in DOMAIN result :
        graph[result[i]] \subseteq ToSet(SubSeq(result, 1, i - 1))

(* The order does not depend on Go's map order: it is complete, free of    *)
(* cycles and the one TopologicalSort defines.                             *)
OrderIsDetermined ==
    stage = "ordered" => ~HasCycle(graph) /\ result = TopologicalSort(graph)

(* What a configuration gets is a function of the configuration: refused   *)
(* for a cycle it really has, or the one order.                            *)
ResultIsDetermined == CycleIsReal /\ OrderIsDetermined
=============================================================================
