-------------------------- MODULE DependencyProofs --------------------------
(***************************************************************************)
(* TLAPS proofs about the startup order of DependencyGraph, for every      *)
(* finite graph, and about the algorithm of DependencyOrder that finds it. *)
(* Manager and Reload start and stop processes along that order.           *)
(***************************************************************************)
EXTENDS DependencyOrder, TLAPS, FiniteSetTheorems, WellFoundedInduction

(* A set of numbers has a least one.                                       *)
LEMMA LeastNat ==
    ASSUME NEW T, T \subseteq Nat, T # {}
    PROVE  \E x \in T : \A y \in T : x <= y
<1>1. PICK x \in T : \A y \in T : ~(<<y, x>> \in OpToRel(<, Nat))
    BY NatLessThanWellFounded, WFMin
<1>2. \A y \in T : ~(y < x)
    BY <1>1 DEF OpToRel
<1> QED BY <1>2

(* While there is no cycle, some node always comes next.                   *)
LEMMA SomeComesNext ==
    ASSUME NEW g, Nodes(g) \subseteq Nat, ~HasCycle(g), NEW S \in SUBSET Nodes(g), S # {}
    PROVE  \E p \in S : ComesNext(g, S, p)
<1> DEFINE free == {q \in S : g[q] \cap S = {}}
<1>1. free # {} /\ free \subseteq Nat
    BY DEF HasCycle
<1>2. PICK p \in free : \A q \in free : p <= q
    BY <1>1, LeastNat
<1> QED BY <1>2 DEF ComesNext

SortedUpTo(g, k, s) ==
    s \in [1..k -> Nodes(g)] /\ \A i \in 1..k : ComesNext(g, Unplaced(g, s, i - 1), s[i])

(* As long as a graph without cycles has unplaced nodes, one of them has   *)
(* all its dependencies placed: the sort can take one more.                *)
LEMMA SortGoesOn ==
    ASSUME NEW g, IsFiniteSet(Nodes(g)), Nodes(g) \subseteq Nat, ~HasCycle(g),
           NEW k \in Nat, k < Cardinality(Nodes(g)), NEW s, SortedUpTo(g, k, s)
    PROVE  \E t : SortedUpTo(g, k + 1, t)
<1> DEFINE S == Unplaced(g, s, k)
<1>1. S # {}
    <2>1. SUFFICES ASSUME S = {} PROVE FALSE
        OBVIOUS
    <2>2. IsFiniteSet(1..k) /\ Cardinality(1..k) = k
        BY FS_Interval
    <2>3. s \in Surjection(1..k, Nodes(g))
        BY <2>1 DEF Unplaced, SortedUpTo, Surjection
    <2>4. Cardinality(Nodes(g)) <= k
        BY <2>2, <2>3, FS_Surjection
    <2>5. Cardinality(Nodes(g)) \in Nat
        BY FS_CardinalityType
    <2> QED BY <2>4, <2>5
<1>2. S \in SUBSET Nodes(g)
    BY DEF Unplaced
<1>3. PICK p \in S : ComesNext(g, S, p)
    BY <1>1, <1>2, SomeComesNext
<1> DEFINE t == [i \in 1..k+1 |-> IF i = k + 1 THEN p ELSE s[i]]
<1>4. t \in [1..k+1 -> Nodes(g)]
    BY <1>2, <1>3 DEF SortedUpTo
<1>5. \A i \in 1..k : t[i] = s[i]
    OBVIOUS
<1>6. \A i \in 1..k+1 : Unplaced(g, t, i - 1) = Unplaced(g, s, i - 1)
    <2> SUFFICES ASSUME NEW i \in 1..k+1 PROVE Unplaced(g, t, i - 1) = Unplaced(g, s, i - 1)
        OBVIOUS
    <2>1. \A j \in 1..i-1 : t[j] = s[j]
        BY <1>5
    <2>2. {t[j] : j \in 1..i-1} = {s[j] : j \in 1..i-1}
        BY <2>1
    <2> QED BY <2>2 DEF Unplaced
<1>7. \A i \in 1..k+1 : ComesNext(g, Unplaced(g, t, i - 1), t[i])
    <2> SUFFICES ASSUME NEW i \in 1..k+1 PROVE ComesNext(g, Unplaced(g, s, i - 1), t[i])
        BY <1>6
    <2>1. CASE i = k + 1
        BY <1>3, <2>1
    <2>2. CASE i # k + 1
        BY <1>5, <2>2 DEF SortedUpTo
    <2> QED BY <2>1, <2>2
<1> QED BY <1>4, <1>7 DEF SortedUpTo

(* A graph without a cycle has the order TopologicalSort chooses.          *)
LEMMA SortExists ==
    ASSUME NEW g, IsFiniteSet(Nodes(g)), Nodes(g) \subseteq Nat, ~HasCycle(g)
    PROVE  SortedUpTo(g, Cardinality(Nodes(g)), TopologicalSort(g))
<1> DEFINE n == Cardinality(Nodes(g))
           bad == {k \in Nat : k <= n /\ ~\E s : SortedUpTo(g, k, s)}
<1>1. n \in Nat
    BY FS_CardinalityType
<1>2. bad = {}
    <2>1. SUFFICES ASSUME bad # {} PROVE FALSE
        OBVIOUS
    <2>2. PICK k \in bad : \A m \in bad : k <= m
        BY <2>1, LeastNat
    <2>3. CASE k = 0
        <3>1. SortedUpTo(g, 0, [i \in 1..0 |-> 0])
            BY DEF SortedUpTo
        <3> QED BY <2>2, <2>3, <3>1
    <2>4. CASE k # 0
        <3>1. k - 1 \in Nat /\ k - 1 < n /\ k - 1 \notin bad /\ (k - 1) + 1 = k
            BY <1>1, <2>2, <2>4
        <3>2. PICK s : SortedUpTo(g, k - 1, s)
            BY <1>1, <3>1
        <3>3. \E t : SortedUpTo(g, k, t)
            BY <3>1, <3>2, SortGoesOn
        <3> QED BY <2>2, <3>3
    <2> QED BY <2>3, <2>4
<1>3. \E s : SortedUpTo(g, n, s)
    BY <1>1, <1>2
<1> DEFINE P(s) == \A i \in DOMAIN s : ComesNext(g, Unplaced(g, s, i - 1), s[i])
<1>4. \E s \in [1..n -> Nodes(g)] : P(s)
    BY <1>3 DEF SortedUpTo
<1>5. TopologicalSort(g) \in [1..n -> Nodes(g)] /\ P(TopologicalSort(g))
    BY <1>4 DEF TopologicalSort
<1> QED BY <1>5 DEF SortedUpTo

(* TopologicalSort (graph.go): for a graph that Validate accepts and that  *)
(* has no cycle, every process has exactly one place in the startup order, *)
(* and it comes after all that it depends on.                              *)
THEOREM SortOrdersDependencies ==
    ASSUME NEW g, IsFiniteSet(Nodes(g)), Nodes(g) \subseteq Nat, Validate(g), ~HasCycle(g)
    PROVE  LET s == TopologicalSort(g) IN
           /\ s \in Bijection(1..Cardinality(Nodes(g)), Nodes(g))
           /\ \A i \in 1..Cardinality(Nodes(g)) : g[s[i]] \subseteq {s[j] : j \in 1..i-1}
<1> DEFINE s == TopologicalSort(g)
           n == Cardinality(Nodes(g))
<1>1. n \in Nat /\ IsFiniteSet(1..n) /\ Cardinality(1..n) = n
    BY FS_CardinalityType, FS_Interval
<1>2. SortedUpTo(g, n, s)
    BY SortExists
<1> HIDE DEF s, n
<1>3. s \in [1..n -> Nodes(g)]
      /\ \A i \in 1..n : s[i] \in Unplaced(g, s, i - 1) /\ g[s[i]] \cap Unplaced(g, s, i - 1) = {}
    BY <1>2 DEF SortedUpTo, ComesNext
<1>4. \A i \in 1..n, j \in 1..n : j < i => s[i] # s[j]
    BY <1>1, <1>3 DEF Unplaced
<1>5. s \in Injection(1..n, Nodes(g))
    BY <1>1, <1>3, <1>4 DEF Injection, IsInjective
<1>6. s \in Surjection(1..n, Nodes(g))
    BY <1>1, <1>5, FS_Injection DEF n
<1>7. \A i \in 1..n : g[s[i]] \subseteq {s[j] : j \in 1..i-1}
    BY <1>3 DEF Validate, Unplaced
<1> QED BY <1>5, <1>6, <1>7 DEF Bijection, s, n

(* Among any of its processes there is one that none of them depends on.   *)
LEMMA SomeIsFree ==
    ASSUME NEW g, IsFiniteSet(Nodes(g)), Nodes(g) \subseteq Nat, Validate(g), ~HasCycle(g),
           NEW S \in SUBSET Nodes(g), S # {}
    PROVE  \E p \in S : \A q \in S : p \notin g[q]
<1> DEFINE n == Cardinality(Nodes(g))
<1>1. n \in Nat
    BY FS_CardinalityType
<1>2. PICK s : s \in Bijection(1..n, Nodes(g)) /\ \A i \in 1..n : g[s[i]] \subseteq {s[j] : j \in 1..i-1}
    BY SortOrdersDependencies
<1> HIDE DEF n
<1>3. /\ s \in [1..n -> Nodes(g)]
      /\ \A p \in Nodes(g) : \E i \in 1..n : s[i] = p
      /\ \A i, j \in 1..n : s[i] = s[j] => i = j
    BY <1>2 DEF Bijection, Injection, Surjection, IsInjective
<1> DEFINE last == {m \in Nat : m < n /\ s[n - m] \in S}
<1>4. last # {}
    <2>1. PICK i \in 1..n : s[i] \in S
        BY <1>3
    <2>2. n - i \in Nat /\ n - i < n /\ n - (n - i) = i
        BY <1>1
    <2> QED BY <2>1, <2>2
<1>5. PICK m \in last : \A k \in last : m <= k
    BY <1>4, LeastNat
<1>6. n - m \in 1..n /\ s[n - m] \in S
    BY <1>1, <1>5
<1>7. ASSUME NEW q \in S, s[n - m] \in g[q] PROVE FALSE
    <2>1. PICK i \in 1..n : s[i] = q
        BY <1>3
    <2>2. PICK j \in 1..i-1 : s[j] = s[n - m]
        BY <1>2, <1>7, <2>1
    <2>3. j \in 1..n /\ j = n - m /\ j < i
        BY <1>1, <1>3, <1>6, <2>2
    <2>4. n - i \in Nat /\ n - i < m /\ n - i < n /\ n - (n - i) = i
        BY <1>1, <1>5, <2>3
    <2>5. n - i \in last
        BY <2>1, <2>4
    <2> QED BY <1>5, <2>4, <2>5
<1> QED BY <1>6, <1>7


(* There is one order that SortedUpTo describes.                           *)
LEMMA SortUnique ==
    ASSUME NEW g, Nodes(g) \subseteq Nat, NEW k \in Nat, NEW s, NEW t,
           SortedUpTo(g, k, s), SortedUpTo(g, k, t)
    PROVE  s = t
<1> DEFINE differ == {i \in 1..k : s[i] # t[i]}
<1>1. differ = {}
    <2>1. SUFFICES ASSUME differ # {} PROVE FALSE
        OBVIOUS
    <2>0. differ \subseteq Nat
        OBVIOUS
    <2>2. PICK i \in differ : \A j \in differ : i <= j
        BY <2>0, <2>1, LeastNat
    <2>3. \A j \in 1..i-1 : s[j] = t[j]
        BY <2>2
    <2>4. {s[j] : j \in 1..i-1} = {t[j] : j \in 1..i-1}
        BY <2>3
    <2>5. Unplaced(g, s, i - 1) = Unplaced(g, t, i - 1)
        BY <2>4 DEF Unplaced
    <2>6. ComesNext(g, Unplaced(g, s, i - 1), s[i]) /\ ComesNext(g, Unplaced(g, s, i - 1), t[i])
        BY <2>2, <2>5 DEF SortedUpTo
    <2>7. s[i] <= t[i] /\ t[i] <= s[i] /\ s[i] \in Nat /\ t[i] \in Nat
        BY <2>2, <2>6 DEF ComesNext, SortedUpTo
    <2> QED BY <2>2, <2>7
<1>2. s \in [1..k -> Nodes(g)] /\ t \in [1..k -> Nodes(g)] /\ \A i \in 1..k : s[i] = t[i]
    BY <1>1 DEF SortedUpTo
<1> QED BY <1>2

(* A graph all of whose nodes could be placed has no cycle.                *)
LEMMA SortedHasNoCycle ==
    ASSUME NEW g, NEW k \in Nat, NEW s, SortedUpTo(g, k, s), Unplaced(g, s, k) = {}
    PROVE  ~HasCycle(g)
<1> SUFFICES ASSUME NEW S \in SUBSET Nodes(g), S # {}, \A p \in S : g[p] \cap S # {}
             PROVE  FALSE
    BY DEF HasCycle
<1> DEFINE places == {i \in 1..k : s[i] \in S}
<1>1. places # {} /\ places \subseteq Nat
    BY DEF Unplaced
<1>2. PICK i \in places : \A j \in places : i <= j
    BY <1>1, LeastNat
<1>3. \A j \in 1..i-1 : s[j] \notin S
    BY <1>2
<1>4. S \subseteq Unplaced(g, s, i - 1)
    BY <1>3 DEF Unplaced
<1>5. g[s[i]] \cap Unplaced(g, s, i - 1) = {}
    BY <1>2 DEF SortedUpTo, ComesNext
<1> QED BY <1>2, <1>4, <1>5

-----------------------------------------------------------------------------
(***************************************************************************)
(* The algorithm of graph.go.  DependencyOrder, for every finite           *)
(* configuration and every order in which Go ranges over the nodes.        *)
(***************************************************************************)

(* The nodes the sort has not taken yet.                                   *)
Waiting == Unplaced(graph, result, Len(result))

(* The recursion of the search is a path of the graph.                     *)
PathInv ==
    stage \in {"validate", "search"} =>
        /\ stack \in Seq([node : Nodes(graph), left : SUBSET Nodes(graph)])
        /\ \A i \in 1..Len(stack) : stack[i].left \subseteq graph[stack[i].node]
        /\ \A i \in 1..Len(stack)-1 : stack[i + 1].node \in graph[stack[i].node]

(* What is placed so far is the beginning of the one order there is.       *)
PrefixInv ==
    /\ result \in Seq(Nodes(graph)) /\ SortedUpTo(graph, Len(result), result)
    /\ result # <<>> => Validate(graph)

(* The in-degrees count what is not placed, and the queue holds exactly    *)
(* the nodes that wait for nothing.                                        *)
CountInv ==
    stage = "sort" =>
        /\ inDegree = [p \in Nodes(graph) |-> Cardinality(graph[p] \cap Waiting)]
        /\ queue = {p \in Waiting : graph[p] \cap Waiting = {}}

EndInv ==
    /\ stage \in {"search", "sort", "ordered", "cycle"} => Validate(graph)
    /\ stage \in {"validate", "search"} => result = <<>>
    /\ stage = "cycle" => HasCycle(graph)
    /\ stage = "ordered" => Len(result) = Cardinality(Nodes(graph))

KahnInv == table \in Tables /\ PathInv /\ PrefixInv /\ CountInv /\ EndInv

(* The graph of a configuration.                                           *)
LEMMA GraphFacts ==
    ASSUME table \in Tables
    PROVE  IsFiniteSet(Nodes(graph)) /\ Nodes(graph) \subseteq Nat
<1>1. Nodes(graph) = table.present \cap table.enabled
    BY DEF Nodes, graph, NewGraph
<1>2. IsFiniteSet(table.present) /\ table.present \subseteq Nat
    BY DependencyOrderAssumption
<1>3. IsFiniteSet(table.present \cap table.enabled)
    BY <1>2, FS_Subset
<1> QED BY <1>1, <1>2, <1>3

-----------------------------------------------------------------------------
(* The search.                                                             *)

Frame == [node : Nodes(graph), left : SUBSET Nodes(graph)]

(* A stack that is a path of the graph.                                    *)
Path(frames) ==
    /\ frames \in Seq(Frame)
    /\ \A i \in 1..Len(frames) : frames[i].left \subseteq graph[frames[i].node]
    /\ \A i \in 1..Len(frames)-1 : frames[i + 1].node \in graph[frames[i].node]

(* A step of the search leaves the sort and its result alone.              *)
LEMMA SearchKeeps ==
    ASSUME KahnInv, stage \in {"validate", "search"}, Path(stack'),
           UNCHANGED <<table, result>>, stage' \in {"search", "cycle", "invalid"},
           stage' # "invalid" => Validate(graph), stage' = "cycle" => HasCycle(graph)
    PROVE  KahnInv'
<1>1. graph' = graph
    BY DEF graph
<1>2. PathInv'
    BY <1>1 DEF PathInv, Path, Frame
<1> QED BY <1>1, <1>2 DEF KahnInv, PrefixInv, CountInv, EndInv

LEMMA DoValidateKeeps ==
    ASSUME KahnInv, DoValidate
    PROVE  KahnInv'
<1>1. stage' \in {"search", "invalid"} /\ (stage' = "search" => Validate(graph))
    BY DEF DoValidate, graph
<1>2. Path(stack')
    BY DEF KahnInv, PathInv, Path, Frame, DoValidate
<1> QED BY <1>1, <1>2, SearchKeeps DEF DoValidate

(* A new frame for a node of a valid graph.                                *)
LEMMA NewFrame ==
    ASSUME Validate(graph), NEW p \in Nodes(graph)
    PROVE  /\ FrameOf(p) \in Frame
           /\ FrameOf(p).node = p /\ FrameOf(p).left = graph[p]
BY DEF Validate, Nodes, FrameOf, Frame, graph

LEMMA SearchRootKeeps ==
    ASSUME KahnInv, NEW p \in Nodes(graph), SearchRoot(p)
    PROVE  KahnInv'
<1>1. stage = "search" /\ Validate(graph)
    BY DEF KahnInv, EndInv, SearchRoot
<1>2. stack' = <<FrameOf(p)>> /\ FrameOf(p) \in Frame /\ FrameOf(p).left = graph[p]
      /\ FrameOf(p).node = p
    BY <1>1, NewFrame DEF SearchRoot
<1>3. Path(stack')
    BY <1>2 DEF Path
<1> QED BY <1>1, <1>3, SearchKeeps DEF SearchRoot, Visit

(* The node on top has looked at one more of its dependencies.             *)
LEMMA AdvancedIsPath ==
    ASSUME Path(stack), stack # <<>>, NEW dep
    PROVE  /\ Path(Advanced(dep)) /\ Len(Advanced(dep)) = Len(stack)
           /\ \A i \in 1..Len(stack) : Advanced(dep)[i].node = stack[i].node
<1> DEFINE n == Len(stack)
           a == Advanced(dep)
<1>1. n \in Nat /\ n \in 1..n /\ stack \in Seq(Frame)
    BY DEF Path
<1>2. a = [stack EXCEPT ![n].left = @ \ {dep}]
    BY DEF Advanced
<1>3. stack[n] \in Frame
    BY <1>1
<1> DEFINE top == [stack[n] EXCEPT !.left = @ \ {dep}]
<1>4. top \in Frame /\ top.node = stack[n].node /\ top.left \subseteq stack[n].left
    BY <1>3 DEF Frame
<1>5. a = [stack EXCEPT ![n] = top]
    BY <1>2
<1> HIDE DEF a, top
<1>6. a \in Seq(Frame) /\ Len(a) = n /\ a[n] = top /\ \A i \in 1..n : i # n => a[i] = stack[i]
    BY <1>1, <1>4, <1>5
<1>7. \A i \in 1..n : a[i].node = stack[i].node /\ a[i].left \subseteq stack[i].left
    BY <1>4, <1>6
<1>8. Path(a)
    <2>1. \A i \in 1..n : a[i].left \subseteq graph[a[i].node]
        BY <1>7 DEF Path
    <2>2. ASSUME NEW i \in 1..n-1 PROVE a[i + 1].node \in graph[a[i].node]
        <3>1. i \in 1..n /\ i + 1 \in 1..n
            BY <1>1
        <3> QED BY <1>7, <3>1 DEF Path
    <2> QED BY <1>6, <2>1, <2>2 DEF Path
<1> QED BY <1>6, <1>7, <1>8 DEF a

(* The dependency looked at is one of the node on top.                     *)
LEMMA LooksAtEdge ==
    ASSUME KahnInv, NEW dep, LooksAt(dep)
    PROVE  /\ stage = "search" /\ Validate(graph) /\ Path(stack) /\ stack # <<>>
           /\ Len(stack) \in Nat /\ Len(stack) >= 1
           /\ dep \in graph[stack[Len(stack)].node] /\ dep \in Nodes(graph)
<1>1. stage = "search" /\ Validate(graph) /\ Path(stack) /\ stack # <<>>
    BY DEF KahnInv, PathInv, Path, Frame, EndInv, LooksAt
<1>2. Len(stack) \in Nat /\ Len(stack) >= 1 /\ stack[Len(stack)] \in Frame
    BY <1>1 DEF Path
<1>3. dep \in stack[Len(stack)].left
    BY DEF LooksAt, Top, Last
<1> QED BY <1>1, <1>2, <1>3 DEF Path, Frame

LEMMA SearchIntoKeeps ==
    ASSUME KahnInv, NEW dep \in Nodes(graph), SearchInto(dep)
    PROVE  KahnInv'
<1> DEFINE n == Len(stack)
           a == Advanced(dep)
           f == FrameOf(dep)
<1>1. /\ stage = "search" /\ Validate(graph) /\ Path(stack) /\ stack # <<>>
      /\ n \in Nat /\ n >= 1 /\ dep \in graph[stack[n].node]
    BY LooksAtEdge DEF SearchInto
<1>2. Path(a) /\ Len(a) = n /\ \A i \in 1..n : a[i].node = stack[i].node
    BY <1>1, AdvancedIsPath
<1>3. f \in Frame /\ f.node = dep /\ f.left = graph[dep]
    BY <1>1, NewFrame
<1>4. stack' = Append(a, f)
    BY DEF SearchInto
<1> HIDE DEF a, f, n
<1>5. /\ a \in Seq(Frame) /\ stack' \in Seq(Frame) /\ Len(stack') = n + 1
      /\ stack'[n + 1] = f /\ \A i \in 1..n : stack'[i] = a[i]
    BY <1>1, <1>2, <1>3, <1>4 DEF Path
<1>6. Path(stack')
    <2>1. ASSUME NEW i \in 1..n+1 PROVE stack'[i].left \subseteq graph[stack'[i].node]
        <3>1. CASE i = n + 1
            BY <1>3, <1>5, <3>1
        <3>2. CASE i \in 1..n
            BY <1>2, <1>5, <3>2 DEF Path
        <3> QED BY <1>1, <3>1, <3>2
    <2>2. ASSUME NEW i \in 1..n PROVE stack'[i + 1].node \in graph[stack'[i].node]
        <3>1. CASE i = n
            BY <1>1, <1>2, <1>3, <1>5, <3>1
        <3>2. CASE i # n
            <4>1. i \in 1..n-1 /\ i + 1 \in 1..n
                BY <1>1, <3>2
            <4> QED BY <1>2, <1>5, <4>1 DEF Path
        <3> QED BY <3>1, <3>2
    <2>3. (n + 1) - 1 = n
        BY <1>1
    <2> QED BY <1>5, <2>1, <2>2, <2>3 DEF Path
<1> QED BY <1>1, <1>6, SearchKeeps DEF SearchInto, Visit

(* A dependency on the stack closes a cycle: the nodes from it to the top. *)
LEMMA MeetsCycle ==
    ASSUME KahnInv, NEW dep \in OnStack, LooksAt(dep)
    PROVE  HasCycle(graph)
<1> DEFINE n == Len(stack)
<1>1. n \in Nat /\ Path(stack) /\ dep \in graph[stack[n].node]
    BY LooksAtEdge
<1>2. PICK k \in 1..n : dep = stack[k].node
    BY <1>1 DEF OnStack, Path
<1> HIDE DEF n
<1> DEFINE S == {stack[i].node : i \in k..n}
<1>3. \A i \in 1..n : stack[i].node \in Nodes(graph)
    <2>1. \A i \in 1..n : stack[i] \in Frame
        BY <1>1 DEF Path, n
    <2> QED BY <2>1 DEF Frame
<1>4. S \in SUBSET Nodes(graph) /\ S # {}
    BY <1>1, <1>2, <1>3
<1>5. ASSUME NEW p \in S PROVE graph[p] \cap S # {}
    <2>1. PICK i \in k..n : p = stack[i].node
        OBVIOUS
    <2>2. CASE i = n
        <3>1. dep \in S
            BY <1>1, <1>2
        <3> QED BY <1>1, <2>1, <2>2, <3>1
    <2>3. CASE i # n
        <3>1. i \in 1..n-1 /\ i + 1 \in k..n
            BY <1>1, <1>2, <2>3
        <3>2. stack[i + 1].node \in graph[p] /\ stack[i + 1].node \in S
            BY <1>1, <2>1, <3>1 DEF Path, n
        <3> QED BY <3>2
    <2> QED BY <2>2, <2>3
<1> QED BY <1>4, <1>5 DEF HasCycle

LEMMA SearchMeetsKeeps ==
    ASSUME KahnInv, NEW dep \in Nodes(graph), SearchMeets(dep)
    PROVE  KahnInv'
<1>1. stage = "search" /\ Validate(graph) /\ Path(stack) /\ stack # <<>>
    BY LooksAtEdge DEF SearchMeets
<1>2. CASE dep \in OnStack
    BY <1>1, <1>2, MeetsCycle, SearchKeeps DEF SearchMeets
<1>3. CASE dep \notin OnStack
    <2>1. Path(stack') /\ stage' = stage
        BY <1>1, <1>3, AdvancedIsPath DEF SearchMeets
    <2> QED BY <1>1, <2>1, SearchKeeps DEF SearchMeets
<1> QED BY <1>2, <1>3

LEMMA SearchReturnsKeeps ==
    ASSUME KahnInv, SearchReturns
    PROVE  KahnInv'
<1> DEFINE n == Len(stack)
<1>1. stage = "search" /\ Validate(graph) /\ Path(stack) /\ stack # <<>>
    BY DEF KahnInv, PathInv, Path, Frame, EndInv, SearchReturns
<1>2. stack' = SubSeq(stack, 1, n - 1) /\ n \in Nat /\ n >= 1 /\ stack \in Seq(Frame)
    BY <1>1 DEF SearchReturns, Front, Path
<1>3. /\ stack' \in Seq(Frame) /\ Len(stack') = n - 1
      /\ \A i \in 1..n-1 : stack'[i] = stack[i]
    <2>1. n - 1 \in Nat /\ n - 1 <= n
        BY <1>2
    <2>2. stack' = [i \in 1..n-1 |-> stack[i]]
        BY <1>2, <2>1
    <2>3. \A i \in 1..n-1 : stack[i] \in Frame
        BY <1>2
    <2> QED BY <2>1, <2>2, <2>3
<1>4. Path(stack')
    BY <1>1, <1>2, <1>3 DEF Path
<1> QED BY <1>1, <1>4, SearchKeeps DEF SearchReturns

-----------------------------------------------------------------------------
(* The sort.                                                               *)

(* A prefix of the order names no node twice, and is all of it exactly     *)
(* when it is as long as there are nodes.                                  *)
LEMMA PrefixLength ==
    ASSUME NEW g, IsFiniteSet(Nodes(g)), NEW k \in Nat, NEW s, SortedUpTo(g, k, s)
    PROVE  k = Cardinality(Nodes(g)) <=> Unplaced(g, s, k) = {}
<1>1. IsFiniteSet(1..k) /\ Cardinality(1..k) = k
    BY FS_Interval
<1>2. s \in [1..k -> Nodes(g)] /\ \A i \in 1..k : s[i] \in Unplaced(g, s, i - 1)
    BY DEF SortedUpTo, ComesNext
<1>3. \A i \in 1..k, j \in 1..k : j < i => s[i] # s[j]
    BY <1>2 DEF Unplaced
<1>4. s \in Injection(1..k, Nodes(g))
    BY <1>2, <1>3 DEF Injection, IsInjective
<1>5. k = Cardinality(Nodes(g)) <=> s \in Surjection(1..k, Nodes(g))
    BY <1>1, <1>4, FS_Injection
<1> QED BY <1>2, <1>5 DEF Surjection, Unplaced

(* What a node still waits for is finite.                                  *)
LEMMA WaitsForFinite ==
    ASSUME IsFiniteSet(Nodes(graph)), NEW p
    PROVE  IsFiniteSet(graph[p] \cap Waiting)
BY FS_Subset DEF Waiting, Unplaced

LEMMA SortBeginKeeps ==
    ASSUME KahnInv, SortBegin
    PROVE  KahnInv'
<1>1. /\ stage = "search" /\ stage' = "sort" /\ result = <<>> /\ Validate(graph)
      /\ UNCHANGED <<table, result>>
    BY DEF KahnInv, EndInv, SortBegin
<1>2. graph' = graph /\ IsFiniteSet(Nodes(graph))
    BY <1>1, GraphFacts DEF graph, KahnInv
<1>3. Waiting = Nodes(graph) /\ Waiting' = Nodes(graph)
    BY <1>1, <1>2 DEF Waiting, Unplaced
<1>4. ASSUME NEW p \in Nodes(graph)
      PROVE  /\ graph[p] \cap Waiting = graph[p] /\ Degree(p) = Cardinality(graph[p])
             /\ Cardinality(graph[p]) = 0 <=> graph[p] = {}
    <2>1. graph[p] \cap Waiting = graph[p]
        BY <1>1, <1>3 DEF Validate
    <2>2. Degree(p) = Cardinality(graph[p])
        BY DEF Degree, graph
    <2>3. IsFiniteSet(graph[p])
        BY <1>2, <2>1, WaitsForFinite
    <2> QED BY <2>1, <2>2, <2>3, FS_EmptySet
<1>5. /\ inDegree' = [p \in Nodes(graph) |-> Degree(p)]
      /\ queue' = {p \in Nodes(graph) : Degree(p) = 0}
    BY DEF SortBegin, graph
<1>6. CountInv'
    <2>1. inDegree' = [p \in Nodes(graph) |-> Cardinality(graph[p] \cap Waiting)]
        BY <1>4, <1>5
    <2>2. queue' = {p \in Waiting : graph[p] \cap Waiting = {}}
        BY <1>3, <1>4, <1>5
    <2> QED BY <1>2, <1>3, <2>1, <2>2 DEF CountInv
<1> QED BY <1>1, <1>2, <1>6 DEF KahnInv, PathInv, PrefixInv, EndInv

(* SortStep places the node that comes next and no other.                  *)
LEMMA PlacesNext ==
    ASSUME KahnInv, SortStep
    PROVE  \E node \in queue :
              /\ ComesNext(graph, Waiting, node) /\ result' = Append(result, node)
              /\ inDegree' = [p \in Nodes(graph) |->
                     IF node \in graph[p] THEN inDegree[p] - 1 ELSE inDegree[p]]
              /\ queue' = (queue \ {node})
                     \cup {p \in Nodes(graph) : node \in graph[p] /\ inDegree[p] = 1}
<1> DEFINE node == FirstOf(queue)
<1>1. stage = "sort" /\ queue # {} /\ queue = {p \in Waiting : graph[p] \cap Waiting = {}}
    BY DEF KahnInv, CountInv, SortStep
<1>2. queue \subseteq Nat
    BY <1>1, GraphFacts DEF KahnInv, Waiting, Unplaced
<1>3. \E p \in queue : \A q \in queue : p <= q
    BY <1>1, <1>2, LeastNat
<1>4. node \in queue /\ \A q \in queue : node <= q
    BY <1>3 DEF FirstOf
<1>5. Dependents(node) = {p \in Nodes(graph) : node \in graph[p]}
    BY DEF Dependents, graph
<1>6. /\ result' = Append(result, node)
      /\ inDegree' = [p \in Nodes(graph) |->
             IF p \in Dependents(node) THEN inDegree[p] - 1 ELSE inDegree[p]]
      /\ queue' = (queue \ {node}) \cup {p \in Dependents(node) : inDegree[p] = 1}
    BY DEF SortStep, graph
<1> HIDE DEF node
<1>7. ComesNext(graph, Waiting, node)
    BY <1>1, <1>4 DEF ComesNext
<1>8. inDegree' = [p \in Nodes(graph) |->
             IF node \in graph[p] THEN inDegree[p] - 1 ELSE inDegree[p]]
    BY <1>5, <1>6
<1>9. queue' = (queue \ {node})
             \cup {p \in Nodes(graph) : node \in graph[p] /\ inDegree[p] = 1}
    BY <1>5, <1>6
<1> QED BY <1>4, <1>6, <1>7, <1>8, <1>9

(* One more node at the end of a prefix of the order.                      *)
LEMMA PrefixGrows ==
    ASSUME PrefixInv, NEW node \in Waiting, ComesNext(graph, Waiting, node)
    PROVE  LET longer == Append(result, node) IN
           /\ longer \in Seq(Nodes(graph)) /\ SortedUpTo(graph, Len(longer), longer)
           /\ Unplaced(graph, longer, Len(longer)) = Waiting \ {node}
<1> DEFINE k == Len(result)
           longer == Append(result, node)
<1>1. /\ result \in Seq(Nodes(graph)) /\ k \in Nat /\ node \in Nodes(graph)
      /\ SortedUpTo(graph, k, result)
    BY DEF PrefixInv, Waiting, Unplaced
<1>2. /\ longer \in Seq(Nodes(graph)) /\ Len(longer) = k + 1 /\ longer[k + 1] = node
      /\ \A i \in 1..k : longer[i] = result[i]
    BY <1>1
<1>3. Waiting = Unplaced(graph, result, k)
    BY DEF Waiting
<1> HIDE DEF k, longer
<1>4. \A i \in 1..k+1 : Unplaced(graph, longer, i - 1) = Unplaced(graph, result, i - 1)
    <2> SUFFICES ASSUME NEW i \in 1..k+1
                 PROVE  Unplaced(graph, longer, i - 1) = Unplaced(graph, result, i - 1)
        OBVIOUS
    <2>1. \A j \in 1..i-1 : longer[j] = result[j]
        BY <1>1, <1>2
    <2>2. {longer[j] : j \in 1..i-1} = {result[j] : j \in 1..i-1}
        BY <2>1
    <2> QED BY <2>2 DEF Unplaced
<1>5. ASSUME NEW i \in 1..k+1 PROVE ComesNext(graph, Unplaced(graph, longer, i - 1), longer[i])
    <2>1. CASE i = k + 1
        <3>1. i - 1 = k
            BY <1>1, <2>1
        <3> QED BY <1>2, <1>3, <1>4, <2>1, <3>1
    <2>2. CASE i # k + 1
        <3>1. i \in 1..k
            BY <1>1, <2>2
        <3> QED BY <1>1, <1>2, <1>4, <3>1 DEF SortedUpTo
    <2> QED BY <2>1, <2>2
<1>6. longer \in [1..k+1 -> Nodes(graph)]
    BY <1>1, <1>2
<1>7. SortedUpTo(graph, k + 1, longer)
    BY <1>5, <1>6 DEF SortedUpTo
<1>8. {longer[j] : j \in 1..k+1} = {result[j] : j \in 1..k} \cup {node}
    <2>1. \A j \in 1..k+1 : j \in 1..k \/ j = k + 1
        BY <1>1
    <2>2. k + 1 \in 1..k+1 /\ \A j \in 1..k : j \in 1..k+1
        BY <1>1
    <2> QED BY <1>2, <2>1, <2>2
<1>9. Unplaced(graph, longer, k + 1) = Waiting \ {node}
    BY <1>3, <1>8 DEF Unplaced
<1> QED BY <1>2, <1>7, <1>9 DEF longer

(* A node that is placed waits for nothing.                                *)
LEMMA PlacedIsFree ==
    ASSUME PrefixInv, Validate(graph), NEW p \in Nodes(graph) \ Waiting
    PROVE  graph[p] \cap Waiting = {}
<1>1. PICK i \in 1..Len(result) : result[i] = p
    BY DEF Waiting, Unplaced
<1>2. graph[p] \cap Unplaced(graph, result, i - 1) = {}
    BY <1>1 DEF PrefixInv, SortedUpTo, ComesNext
<1>3. Waiting \subseteq Unplaced(graph, result, i - 1)
    <2>1. \A j \in 1..i-1 : j \in 1..Len(result)
        BY <1>1 DEF PrefixInv
    <2> QED BY <2>1 DEF Waiting, Unplaced
<1> QED BY <1>2, <1>3

LEMMA SortStepKeeps ==
    ASSUME KahnInv, SortStep
    PROVE  KahnInv'
<1>1. PICK node \in queue :
          /\ ComesNext(graph, Waiting, node) /\ result' = Append(result, node)
          /\ inDegree' = [p \in Nodes(graph) |->
                 IF node \in graph[p] THEN inDegree[p] - 1 ELSE inDegree[p]]
          /\ queue' = (queue \ {node})
                 \cup {p \in Nodes(graph) : node \in graph[p] /\ inDegree[p] = 1}
    BY PlacesNext
<1>2. /\ stage = "sort" /\ stage' = stage /\ table' = table /\ Validate(graph)
      /\ inDegree = [p \in Nodes(graph) |-> Cardinality(graph[p] \cap Waiting)]
      /\ queue = {p \in Waiting : graph[p] \cap Waiting = {}}
    BY DEF KahnInv, CountInv, EndInv, SortStep
<1>3. graph' = graph /\ IsFiniteSet(Nodes(graph)) /\ node \in Waiting
    BY <1>1, <1>2, GraphFacts DEF graph, KahnInv
<1>4. /\ result' \in Seq(Nodes(graph)) /\ SortedUpTo(graph, Len(result'), result')
      /\ Waiting' = Waiting \ {node}
    BY <1>1, <1>3, PrefixGrows DEF KahnInv, Waiting
<1>5. PrefixInv'
    BY <1>2, <1>3, <1>4 DEF PrefixInv
<1>6. ASSUME NEW p \in Nodes(graph)
      PROVE  /\ graph[p] \cap (Waiting \ {node}) = (graph[p] \cap Waiting) \ {node}
             /\ inDegree'[p] = Cardinality(graph[p] \cap (Waiting \ {node}))
             /\ inDegree[p] = 1 /\ node \in graph[p] <=> graph[p] \cap Waiting = {node}
    <2> DEFINE D == graph[p] \cap Waiting
    <2>1. IsFiniteSet(D) /\ inDegree[p] = Cardinality(D)
        BY <1>2, <1>3, WaitsForFinite
    <2>2. node \in graph[p] <=> node \in D
        BY <1>3
    <2>3. graph[p] \cap (Waiting \ {node}) = D \ {node}
        OBVIOUS
    <2> HIDE DEF D
    <2>4. Cardinality(D \ {node}) = IF node \in D THEN Cardinality(D) - 1 ELSE Cardinality(D)
        BY <2>1, FS_RemoveElement
    <2>5. inDegree'[p] = Cardinality(D \ {node})
        BY <1>1, <2>1, <2>2, <2>4
    <2>6. Cardinality(D) = 1 /\ node \in D <=> D = {node}
        BY <2>1, FS_Singleton
    <2> QED BY <2>1, <2>2, <2>3, <2>5, <2>6 DEF D
<1>7. inDegree' = [p \in Nodes(graph) |-> Cardinality(graph[p] \cap (Waiting \ {node}))]
    BY <1>1, <1>6
<1>8. queue' = {p \in Waiting \ {node} : graph[p] \cap (Waiting \ {node}) = {}}
    <2>1. ASSUME NEW p \in Nodes(graph) \ Waiting, node \in graph[p] PROVE FALSE
        <3>1. graph[p] \cap Waiting = {}
            BY <1>2, <2>1, PlacedIsFree DEF KahnInv
        <3> QED BY <1>3, <2>1, <3>1
    <2>2. node \notin graph[node]
        BY <1>2, <1>3 DEF Validate, Waiting, Unplaced
    <2>3. Waiting \subseteq Nodes(graph)
        BY DEF Waiting, Unplaced
    <2>4. ASSUME NEW p PROVE p \in queue' <=>
              p \in Waiting \ {node} /\ graph[p] \cap (Waiting \ {node}) = {}
        <3>1. CASE p \in Waiting \ {node}
            <4>1. p \in Nodes(graph)
                BY <2>3, <3>1
            <4>2. /\ graph[p] \cap (Waiting \ {node}) = (graph[p] \cap Waiting) \ {node}
                  /\ inDegree[p] = 1 /\ node \in graph[p] <=> graph[p] \cap Waiting = {node}
                BY <1>6, <4>1
            <4>3. p \in queue' <=> graph[p] \cap Waiting \in {{}, {node}}
                BY <1>1, <1>2, <3>1, <4>1, <4>2
            <4> QED BY <3>1, <4>2, <4>3
        <3>2. CASE p = node
            BY <1>1, <2>2, <3>2
        <3>3. CASE p \notin Waiting
            BY <1>1, <1>2, <2>1, <3>3
        <3> QED BY <3>1, <3>2, <3>3
    <2> QED BY <2>4
<1>9. CountInv'
    BY <1>3, <1>4, <1>7, <1>8 DEF CountInv
<1> QED BY <1>2, <1>3, <1>5, <1>9 DEF KahnInv, PathInv, EndInv

LEMMA SortEndKeeps ==
    ASSUME KahnInv, SortEnd
    PROVE  KahnInv'
<1>1. /\ stage = "sort" /\ queue = {} /\ UNCHANGED <<table, result>> /\ Validate(graph)
      /\ queue = {p \in Waiting : graph[p] \cap Waiting = {}}
      /\ result \in Seq(Nodes(graph)) /\ SortedUpTo(graph, Len(result), result)
    BY DEF KahnInv, CountInv, PrefixInv, EndInv, SortEnd
<1>2. graph' = graph /\ IsFiniteSet(Nodes(graph))
    BY <1>1, GraphFacts DEF graph, KahnInv
<1>3. stage' = IF Len(result) = Cardinality(Nodes(graph)) THEN "ordered" ELSE "cycle"
    BY DEF SortEnd, graph
<1>4. ASSUME Len(result) # Cardinality(Nodes(graph)) PROVE HasCycle(graph)
    <2>1. Waiting # {}
        BY <1>1, <1>2, <1>4, PrefixLength DEF Waiting
    <2>2. \A p \in Waiting : graph[p] \cap Waiting # {}
        BY <1>1
    <2>3. Waiting \in (SUBSET Nodes(graph)) \ {{}}
        BY <2>1 DEF Waiting, Unplaced
    <2> QED BY <2>2, <2>3 DEF HasCycle
<1> QED BY <1>1, <1>2, <1>3, <1>4 DEF KahnInv, PathInv, PrefixInv, CountInv, EndInv

-----------------------------------------------------------------------------
(* The algorithm.                                                          *)

LEMMA KahnInit ==
    ASSUME SortInit
    PROVE  KahnInv
<1>1. stage = "validate" /\ stack = <<>> /\ result = <<>> /\ table \in Tables
    BY DEF SortInit
<1>2. result \in [1..0 -> Nodes(graph)] /\ Len(result) = 0
    BY <1>1
<1> QED BY <1>1, <1>2 DEF KahnInv, PathInv, PrefixInv, SortedUpTo, CountInv, EndInv

(* One case per action.                                                    *)
LEMMA KahnNext ==
    ASSUME KahnInv, [SortNext]_sortVars
    PROVE  KahnInv'
<1>1. CASE UNCHANGED sortVars
    <2>1. UNCHANGED <<table, stage, stack, inDegree, queue, result>> /\ graph' = graph
        BY <1>1 DEF sortVars, graph
    <2> QED BY <2>1 DEF KahnInv, PathInv, PrefixInv, CountInv, EndInv, Waiting
<1>2. ASSUME NEW p \in Nodes(graph),
             SearchRoot(p) \/ SearchInto(p) \/ SearchMeets(p)
      PROVE  KahnInv'
    BY <1>2, SearchRootKeeps, SearchIntoKeeps, SearchMeetsKeeps
<1>3. Nodes(graph) = Nodes(graph)
    BY DEF graph
<1> QED BY <1>1, <1>2, <1>3, DoValidateKeeps, SearchReturnsKeeps, SortBeginKeeps, SortStepKeeps, SortEndKeeps
        DEF SortNext

LEMMA KahnAlways ==
    SortSpec => []KahnInv
<1>1. SortInit => KahnInv
    BY KahnInit
<1>2. KahnInv /\ [SortNext]_sortVars => KahnInv'
    BY KahnNext
<1> QED BY <1>1, <1>2, PTL DEF SortSpec

(* TopologicalSort (graph.go): at every moment of the sort, for every      *)
(* finite configuration, all that a placed process depends on is placed    *)
(* before it.                                                              *)
THEOREM PlacedAfterDependencies ==
    SortSpec => []DependenciesFirst
<1>1. KahnInv => DependenciesFirst
    <2> SUFFICES ASSUME KahnInv, NEW i \in DOMAIN result
                 PROVE  graph[result[i]] \subseteq ToSet(SubSeq(result, 1, i - 1))
        BY DEF DependenciesFirst, graph
    <2>1. /\ result \in Seq(Nodes(graph)) /\ SortedUpTo(graph, Len(result), result)
          /\ i \in 1..Len(result) /\ Validate(graph)
        BY DEF KahnInv, PrefixInv
    <2>2. /\ result[i] \in Nodes(graph)
          /\ graph[result[i]] \cap Unplaced(graph, result, i - 1) = {}
        BY <2>1 DEF SortedUpTo, ComesNext
    <2>3. graph[result[i]] \subseteq {result[j] : j \in 1..i-1}
        BY <2>1, <2>2 DEF Validate, Unplaced
    <2>4. i - 1 \in Nat /\ i - 1 <= Len(result)
        BY <2>1
    <2>5. SubSeq(result, 1, i - 1) = [j \in 1..i-1 |-> result[j]]
        BY <2>1, <2>4
    <2>6. ToSet(SubSeq(result, 1, i - 1)) = {result[j] : j \in 1..i-1}
        BY <2>5 DEF ToSet
    <2> QED BY <2>3, <2>6
<1> QED BY <1>1, KahnAlways, PTL

(* HasCycle and TopologicalSort (graph.go): for every finite               *)
(* configuration and however Go ranges over its maps, a configuration is   *)
(* refused for a cycle only if it has one, and an order that is returned   *)
(* is complete, free of cycles and the one the configuration determines.   *)
THEOREM OrderIsFunctional ==
    SortSpec => []ResultIsDetermined
<1>1. KahnInv => ResultIsDetermined
    <2> SUFFICES ASSUME KahnInv PROVE ResultIsDetermined
        OBVIOUS
    <2>1. CycleIsReal
        BY DEF CycleIsReal, KahnInv, EndInv, graph
    <2>2. ASSUME stage = "ordered" PROVE ~HasCycle(graph) /\ result = TopologicalSort(graph)
        <3>1. /\ Len(result) = Cardinality(Nodes(graph)) /\ Len(result) \in Nat
              /\ SortedUpTo(graph, Len(result), result)
            BY <2>2 DEF KahnInv, EndInv, PrefixInv
        <3>2. IsFiniteSet(Nodes(graph)) /\ Nodes(graph) \subseteq Nat
            BY GraphFacts DEF KahnInv
        <3>3. ~HasCycle(graph)
            BY <3>1, <3>2, PrefixLength, SortedHasNoCycle
        <3>4. SortedUpTo(graph, Len(result), TopologicalSort(graph))
            BY <3>1, <3>2, <3>3, SortExists
        <3> QED BY <3>1, <3>2, <3>3, <3>4, SortUnique
    <2>3. OrderIsDetermined
        BY <2>2 DEF OrderIsDetermined, graph
    <2> QED BY <2>1, <2>3 DEF ResultIsDetermined
<1> QED BY <1>1, KahnAlways, PTL
=============================================================================
