-------------------------- MODULE DependencyGraph --------------------------
(***************************************************************************)
(* internal/deps/graph.go: the dependency graph of a configuration.        *)
(*                                                                         *)
(* A process name is a number, so that the alphabetical order of names is  *)
(* the order of numbers.  A configuration c names its processes            *)
(* (c.present), which of them are enabled, and for each the list           *)
(* c.depends[p] as it is written in the file: a sequence, because a name   *)
(* may be repeated in it.                                                  *)
(***************************************************************************)
EXTENDS Integers, FiniteSets, Sequences, SequencesExt

(* An edge to a process that is present but disabled is dropped; an edge   *)
(* to an absent one stays, for Validate to report.                         *)
KeepsEdge(c, dep) == ~(dep \in c.present /\ dep \notin c.enabled)

(* NewGraphFromConfig, up to its Validate: the dependencies of a node are  *)
(* a set, since the list is freed of repetitions.  (Its order matters only *)
(* to the search of HasCycle, module DependencyOrder.)                     *)
NewGraph(c) ==
    [p \in c.present \cap c.enabled |-> {dep \in ToSet(c.depends[p]) : KeepsEdge(c, dep)}]

Nodes(g) == DOMAIN g

(* Every dependency exists, and no process depends on itself.              *)
Validate(g) ==
    \A p \in Nodes(g) : \A dep \in g[p] : dep \in Nodes(g) /\ dep # p

(* What HasCycle looks for: a set of nodes that can never be entered,      *)
(* because each depends on another one of the set.                         *)
HasCycle(g) ==
    \E S \in (SUBSET Nodes(g)) \ {{}} : \A p \in S : g[p] \cap S # {}

(* With the nodes S not yet placed: the first name whose dependencies all  *)
(* are.                                                                    *)
ComesNext(g, S, p) ==
    LET free == {q \in S : g[q] \cap S = {}}
    IN  p \in free /\ \A q \in free : p <= q

(* The nodes of g that are not among the first i of s.                     *)
Unplaced(g, s, i) == Nodes(g) \ {s[j] : j \in 1..i}

(* What TopologicalSort returns for a valid graph without a cycle: again   *)
(* and again the node that comes next, until all are placed.               *)
TopologicalSort(g) ==
    CHOOSE s \in [1..Cardinality(Nodes(g)) -> Nodes(g)] :
        \A i \in DOMAIN s : ComesNext(g, Unplaced(g, s, i - 1), s[i])

=============================================================================
