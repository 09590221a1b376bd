-------------------------- MODULE DagBuilderProofs --------------------------
(***************************************************************************)
(* Proofs about DagBuilder, for any set of ids and any number of edges:    *)
(* Kahn's algorithm as written in dag.rs accepts exactly the acyclic       *)
(* graphs and returns a topological order of them.                         *)
(***************************************************************************)
EXTENDS DagBuilder, FiniteSetTheorems, TLAPS

Sorting == pc \in {"pop", "scan"}

\* The edges into n that topo_sort has not subtracted yet
Open(n) == {i \in InEdges(dag, n) : ~Relaxed(i)}

\* Where the build is
StageInv ==
  /\ pc \in {"build", "count"} => out = << >> /\ q = << >>
  /\ pc # "done" => verdict = "none"
  /\ pc \in {"count", "pop", "scan"} => RefsKnown(dag)
  /\ \A j \in DOMAIN out : out[j] \in Nodes(dag)
  /\ \A j \in DOMAIN q : q[j] \in Nodes(dag)

\* What a cycle leaves behind never gets into the queue or the order
SupportInv ==
  \A S \in SUBSET Nodes(dag) :
    SelfSupporting(dag, S) => \A n \in S : ~InSeq(out, n) /\ ~InSeq(q, n)

\* Every node in the order comes after all its parents
OrderInv ==
  \A e \in DOMAIN dag.edges, j \in DOMAIN out :
    out[j] = dag.edges[e].to => \E i \in DOMAIN out : i < j /\ out[i] = dag.edges[e].from

SortInv == TypeOK /\ StageInv /\ InDegreeExact /\ SupportInv /\ OrderInv

-----------------------------------------------------------------------------
\* The edges of a graph
LEMMA EdgeType ==
  ASSUME dag \in Graph
  PROVE  /\ dag.edges \in Seq(Edge)
         /\ DOMAIN dag.edges = 1..Len(dag.edges)
         /\ Len(dag.edges) \in Nat
         /\ \A i \in DOMAIN dag.edges :
              /\ i \in Nat
              /\ dag.edges[i].from \in NodeId
              /\ dag.edges[i].to \in NodeId
         /\ Nodes(dag) \subseteq NodeId
  <1>1. dag.edges \in Seq(Edge) /\ dag.nodes \in UNION {[S -> Payload] : S \in SUBSET NodeId}
    BY DEF Graph
  <1>2. Len(dag.edges) \in Nat /\ DOMAIN dag.edges = 1..Len(dag.edges)
    BY <1>1
  <1>3. \A i \in DOMAIN dag.edges : dag.edges[i] \in Edge
    BY <1>1
  <1>4. Nodes(dag) \subseteq NodeId
    BY <1>1 DEF Nodes
  <1> QED  BY <1>1, <1>2, <1>3, <1>4 DEF Edge

\* A graph with known references counts in-degrees of its nodes only
LEMMA KeysAreNodes ==
  ASSUME dag \in Graph, RefsKnown(dag)
  PROVE  Keys = Nodes(dag)
  BY EdgeType DEF Keys, RefsKnown

LEMMA EdgeSetsFinite ==
  ASSUME dag \in Graph, NEW n, NEW T \in SUBSET InEdges(dag, n)
  PROVE  /\ IsFiniteSet(T)
         /\ Cardinality(T) \in Nat
         /\ Cardinality(T) = 0 <=> T = {}
  <1>1. IsFiniteSet(1..Len(dag.edges))
    BY EdgeType, FS_Interval
  <1>2. T \subseteq 1..Len(dag.edges)
    BY EdgeType DEF InEdges
  <1>3. IsFiniteSet(T)
    BY <1>1, <1>2, FS_Subset
  <1> QED  BY <1>3, FS_CardinalityType, FS_EmptySet

LEMMA FunctionIsSeq ==
  ASSUME NEW T, NEW n \in Nat, NEW s \in [1..n -> T]
  PROVE  s \in Seq(T) /\ DOMAIN s = 1..n
  OBVIOUS

\* A sequence without repetition has as many elements as its range
LEMMA InjectiveLength ==
  ASSUME NEW T, NEW s \in Seq(T), Injective(s)
  PROVE  Cardinality({s[j] : j \in DOMAIN s}) = Len(s)
  <1> DEFINE R == {s[j] : j \in DOMAIN s}
  <1>1. Len(s) \in Nat /\ DOMAIN s = 1..Len(s)
    OBVIOUS
  <1>2. s \in [1..Len(s) -> R]
    OBVIOUS
  <1>3. s \in Bijection(1..Len(s), R)
    BY <1>1, <1>2 DEF Bijection, Injection, Surjection, IsInjective, Injective
  <1>4. ExistsBijection(1..Len(s), R)
    BY <1>3 DEF ExistsBijection
  <1> QED  BY <1>1, <1>4, FS_CountingElements
\* push_back and push
LEMMA AppendFacts ==
  ASSUME NEW T, NEW s \in Seq(T), NEW x \in T
  PROVE  /\ Append(s, x) \in Seq(T)
         /\ Len(Append(s, x)) = Len(s) + 1
         /\ DOMAIN Append(s, x) = 1..(Len(s) + 1)
         /\ DOMAIN s = 1..Len(s) /\ Len(s) \in Nat
         /\ \A j \in 1..Len(s) : Append(s, x)[j] = s[j]
         /\ Append(s, x)[Len(s) + 1] = x
         /\ \A y : InSeq(Append(s, x), y) <=> InSeq(s, y) \/ y = x
         /\ Injective(s) /\ ~InSeq(s, x) => Injective(Append(s, x))
  <1> DEFINE a == Append(s, x)
  <1>1. /\ a \in Seq(T) /\ Len(a) = Len(s) + 1 /\ DOMAIN a = 1..(Len(s) + 1)
        /\ DOMAIN s = 1..Len(s) /\ Len(s) \in Nat
        /\ \A j \in 1..Len(s) : a[j] = s[j]
        /\ a[Len(s) + 1] = x
    OBVIOUS
  <1> HIDE DEF a
  <1>2. \A y : InSeq(a, y) <=> InSeq(s, y) \/ y = x
    BY <1>1 DEF InSeq
  <1>3. ASSUME Injective(s), ~InSeq(s, x) PROVE Injective(a)
    BY <1>1, <1>3 DEF Injective, InSeq
  <1> QED  BY <1>1, <1>2, <1>3 DEF a

\* pop_front
LEMMA TailFacts ==
  ASSUME NEW T, NEW s \in Seq(T), s # << >>, Injective(s)
  PROVE  /\ Tail(s) \in Seq(T) /\ Head(s) \in T
         /\ \A y : InSeq(Tail(s), y) <=> InSeq(s, y) /\ y # Head(s)
         /\ InSeq(s, Head(s))
         /\ Injective(Tail(s))
  <1> DEFINE a == Tail(s)
             h == Head(s)
  <1>1. /\ a \in Seq(T) /\ h \in T /\ h = s[1]
        /\ DOMAIN s = 1..Len(s) /\ Len(s) \in Nat /\ Len(s) >= 1
        /\ DOMAIN a = 1..(Len(s) - 1)
        /\ \A j \in 1..(Len(s) - 1) : a[j] = s[j + 1]
    OBVIOUS
  <1> HIDE DEF a, h
  <1>2. Injective(a)
    <2> SUFFICES ASSUME NEW i \in 1..(Len(s) - 1), NEW j \in 1..(Len(s) - 1), a[i] = a[j]
                 PROVE  i = j
      BY <1>1 DEF Injective
    <2>1. i + 1 \in 1..Len(s) /\ j + 1 \in 1..Len(s) /\ s[i + 1] = s[j + 1]
      BY <1>1
    <2>2. i + 1 = j + 1
      BY <1>1, <2>1 DEF Injective
    <2> QED  BY <1>1, <2>2
  <1>3. ASSUME NEW y, InSeq(a, y) PROVE InSeq(s, y) /\ y # h
    <2>1. PICK j \in 1..(Len(s) - 1) : a[j] = y
      BY <1>1, <1>3 DEF InSeq
    <2>2. j + 1 \in 1..Len(s) /\ s[j + 1] = y /\ j + 1 # 1 /\ 1 \in 1..Len(s)
      BY <1>1, <2>1
    <2> QED  BY <1>1, <2>2 DEF InSeq, Injective
  <1>4. ASSUME NEW y, InSeq(s, y), y # h PROVE InSeq(a, y)
    <2>1. PICK j \in 1..Len(s) : s[j] = y
      BY <1>1, <1>4 DEF InSeq
    <2>2. j # 1 /\ j - 1 \in 1..(Len(s) - 1) /\ a[j - 1] = y
      BY <1>1, <1>4, <2>1
    <2> QED  BY <1>1, <2>2 DEF InSeq
  <1>5. InSeq(s, h)
    BY <1>1 DEF InSeq
  <1> QED  BY <1>1, <1>2, <1>3, <1>4, <1>5 DEF a, h

-----------------------------------------------------------------------------
\* The builder's calls keep the graph well formed
LEMMA AddNodeInv ==
  ASSUME SortInv, NEW id \in NodeId, NEW p \in Payload, AddNode(id, p)
  PROVE  SortInv'
  <1> DEFINE new == [n \in Nodes(dag) \cup {id} |-> IF n = id THEN p ELSE dag.nodes[n]]
  <1>1. dag \in Graph /\ pc = "build" /\ pc' = "build" /\ out' = << >> /\ q' = << >>
    BY DEF SortInv, TypeOK, StageInv, AddNode, sortVars
  <1>2. new \in UNION {[S -> Payload] : S \in SUBSET NodeId}
    <2>1. PICK S \in SUBSET NodeId : dag.nodes \in [S -> Payload]
      BY <1>1 DEF Graph
    <2>2. Nodes(dag) = S
      BY <2>1 DEF Nodes
    <2>3. new \in [S \cup {id} -> Payload]
      BY <2>1, <2>2
    <2> QED  BY <2>3
  <1>3. dag' = [dag EXCEPT !.nodes = new]
    BY DEF AddNode
  <1> HIDE DEF new
  <1>4. dag' \in Graph /\ dag'.edges = dag.edges
    BY <1>1, <1>2, <1>3 DEF Graph
  <1>5. TypeOK'
    BY <1>1, <1>4 DEF SortInv, TypeOK, AddNode, sortVars
  <1> QED  BY <1>1, <1>5
           DEF SortInv, StageInv, InDegreeExact, SupportInv, OrderInv, InSeq, AddNode

LEMMA AddEdgeInv ==
  ASSUME SortInv, NEW f \in NodeId, NEW t \in NodeId, NEW c \in Condition, AddEdge(f, t, c)
  PROVE  SortInv'
  <1> DEFINE e == [from |-> f, to |-> t, condition |-> c]
  <1>1. dag \in Graph /\ pc = "build" /\ pc' = "build" /\ out' = << >> /\ q' = << >>
    BY DEF SortInv, TypeOK, StageInv, AddEdge, sortVars
  <1>2. e \in Edge
    BY DEF Edge
  <1>3. dag' = [dag EXCEPT !.edges = Append(dag.edges, e)]
    BY DEF AddEdge
  <1> HIDE DEF e
  <1>4. dag' \in Graph /\ dag'.edges = Append(dag.edges, e)
    <2>1. Append(dag.edges, e) \in Seq(Edge)
      BY <1>1, <1>2, EdgeType
    <2> QED  BY <1>1, <1>3, <2>1 DEF Graph
  <1>5. Len(dag'.edges) = Len(dag.edges) + 1
    BY <1>4, <1>1, <1>2, EdgeType
  <1>6. k' \in 1..Len(dag'.edges) + 1
    BY <1>1, <1>5, EdgeType DEF SortInv, TypeOK, AddEdge, sortVars
  <1>7. TypeOK'
    BY <1>1, <1>4, <1>6 DEF SortInv, TypeOK, AddEdge, sortVars
  <1> QED  BY <1>1, <1>7
           DEF SortInv, StageInv, InDegreeExact, SupportInv, OrderInv, InSeq, AddEdge

LEMMA BuildInv ==
  ASSUME SortInv, Build
  PROVE  SortInv'
  <1>1. TypeOK'
    BY DEF SortInv, TypeOK, Build, sortVars, PCs, Verdicts, Keys, Nodes
  <1> QED  BY <1>1
           DEF SortInv, StageInv, InDegreeExact, SupportInv, OrderInv, InSeq, Build, sortVars,
               RefsKnown, Nodes

\* Counting: nothing is subtracted yet, and the queue holds the nodes no edge enters
LEMMA CountEdgesInv ==
  ASSUME SortInv, CountEdges
  PROVE  SortInv'
  <1> DEFINE Z == {n \in Keys : InEdges(dag, n) = {}}
  <1>1. /\ dag \in Graph /\ RefsKnown(dag) /\ dag' = dag
        /\ out = << >> /\ out' = << >> /\ pc' = "pop" /\ k' = k
        /\ verdict = "none" /\ verdict' = "none"
    BY DEF SortInv, TypeOK, StageInv, CountEdges
  <1>2. Keys = Nodes(dag) /\ Keys' = Keys /\ Keys \subseteq NodeId
    BY <1>1, KeysAreNodes, EdgeType DEF Keys
  <1>3. IsFiniteSet(Z) /\ Cardinality(Z) \in Nat
    BY <1>2, NodeIdAssumption, FS_Subset, FS_CardinalityType
  <1>4. /\ q' \in [1..Cardinality(Z) -> Z]
        /\ \A i, j \in DOMAIN q' : i < j => q'[i] < q'[j]
        /\ \A z \in Z : \E i \in DOMAIN q' : q'[i] = z
    BY DEF CountEdges, InKeyOrder
  <1> DEFINE m == Cardinality(Z)
  <1>5. Z \subseteq NodeId /\ Z \subseteq Nat
    BY <1>2, NodeIdAssumption
  <1> HIDE DEF Z, m
  <1>6. m \in Nat /\ q' \in [1..m -> Z] /\ q' \in [1..m -> NodeId]
    BY <1>3, <1>4, <1>5 DEF m
  <1>7. /\ q' \in Seq(NodeId) /\ DOMAIN q' = 1..m
        /\ \A n : InSeq(q', n) <=> n \in Z
        /\ Injective(q')
    <2>1. q' \in Seq(NodeId) /\ DOMAIN q' = 1..m
      BY <1>6, FunctionIsSeq
    <2>2. \A i \in 1..m : i \in Nat /\ q'[i] \in Z /\ q'[i] \in Nat
      <3>1. \A i \in 1..m : i \in Nat
        BY <1>6
      <3>2. \A i \in 1..m : q'[i] \in Z
        BY <1>6
      <3> QED  BY <1>5, <3>1, <3>2
    <2>3. ASSUME NEW i \in 1..m, NEW j \in 1..m, q'[i] = q'[j] PROVE i = j
      <3>1. ~(i < j) /\ ~(j < i)
        BY <1>4, <2>1, <2>2, <2>3
      <3> QED  BY <2>2, <3>1
    <2> QED  BY <1>4, <2>1, <2>2, <2>3 DEF InSeq, Injective
  <1>8. indeg' = [n \in Keys |-> Cardinality(InEdges(dag, n))]
    BY DEF CountEdges
  <1>9. \A i : ~Relaxed(i)'
    BY <1>1 DEF Relaxed
  <1>10. \A n : {i \in InEdges(dag', n) : ~Relaxed(i)'} = InEdges(dag, n)
    BY <1>1, <1>9
  <1>11. \A n : Cardinality(InEdges(dag, n)) \in Nat /\ (Cardinality(InEdges(dag, n)) = 0 <=> InEdges(dag, n) = {})
    BY <1>1, EdgeSetsFinite
  <1>12. TypeOK'
    BY <1>1, <1>2, <1>7, <1>8, <1>11 DEF SortInv, TypeOK, PCs, Verdicts
  <1>13. StageInv'
    BY <1>1, <1>2, <1>6, <1>7 DEF StageInv, Z
  <1>14. \A n : ~InSeq(out', n)
    BY <1>1 DEF InSeq
  <1>15. InDegreeExact'
    <2>1. \A n \in Keys' : indeg'[n] = Cardinality({i \in InEdges(dag', n) : ~Relaxed(i)'})
      BY <1>2, <1>8, <1>10
    <2>2. \A n \in Keys' : indeg'[n] = 0 <=> InSeq(out', n) \/ InSeq(q', n)
      BY <1>2, <1>7, <1>8, <1>11, <1>14 DEF Z
    <2>3. Injective(out')
      BY <1>1 DEF Injective
    <2> QED  BY <1>7, <1>14, <2>1, <2>2, <2>3 DEF InDegreeExact
  <1>16. SupportInv'
    BY <1>1, <1>7, <1>14 DEF SupportInv, SelfSupporting, Z
  <1>17. OrderInv'
    BY <1>1 DEF OrderInv
  <1> QED  BY <1>12, <1>13, <1>15, <1>16, <1>17 DEF SortInv
-----------------------------------------------------------------------------
\* What holds at every step of the sort
LEMMA SortFacts ==
  ASSUME SortInv, Sorting
  PROVE  /\ dag \in Graph /\ RefsKnown(dag) /\ Keys = Nodes(dag)
         /\ indeg \in [Nodes(dag) -> Nat]
         /\ \A i \in DOMAIN dag.edges :
              i \in Nat /\ i >= 1 /\ dag.edges[i].from \in Nodes(dag) /\ dag.edges[i].to \in Nodes(dag)
         /\ \A n \in Nodes(dag) : indeg[n] = Cardinality(Open(n))
         /\ \A n \in Nodes(dag) : indeg[n] = 0 <=> Open(n) = {}
         /\ \A n \in Nodes(dag) : Open(n) = {} <=> InSeq(out, n) \/ InSeq(q, n)
         /\ \A n \in Nodes(dag) : ~(InSeq(out, n) /\ InSeq(q, n))
         /\ Injective(out) /\ Injective(q)
         /\ out \in Seq(NodeId) /\ q \in Seq(NodeId) /\ k \in Nat /\ Len(out) \in Nat
         /\ verdict = "none"
  <1>1. dag \in Graph /\ RefsKnown(dag) /\ Keys = Nodes(dag) /\ indeg \in [Nodes(dag) -> Nat]
    BY KeysAreNodes DEF SortInv, TypeOK, StageInv, Sorting
  <1>2. \A i \in DOMAIN dag.edges :
          i \in Nat /\ i >= 1 /\ dag.edges[i].from \in Nodes(dag) /\ dag.edges[i].to \in Nodes(dag)
    BY <1>1, EdgeType DEF RefsKnown
  <1>3. /\ \A n \in Nodes(dag) : indeg[n] = Cardinality(Open(n))
        /\ \A n \in Nodes(dag) : indeg[n] = 0 <=> InSeq(out, n) \/ InSeq(q, n)
        /\ \A n \in Nodes(dag) : ~(InSeq(out, n) /\ InSeq(q, n))
        /\ Injective(out) /\ Injective(q)
    BY <1>1 DEF SortInv, InDegreeExact, Sorting, Open
  <1>4. \A n \in Nodes(dag) : Cardinality(Open(n)) = 0 <=> Open(n) = {}
    BY <1>1, EdgeSetsFinite DEF Open
  <1>5. out \in Seq(NodeId) /\ q \in Seq(NodeId) /\ k \in Nat /\ Len(out) \in Nat
    BY <1>1, EdgeType DEF SortInv, TypeOK
  <1>6. verdict = "none"
    BY DEF SortInv, StageInv, Sorting
  <1> QED  BY <1>1, <1>2, <1>3, <1>4, <1>5, <1>6

\* Steps of the sort leave the graph alone; the part of SortInv that speaks of
\* in-degrees follows from the sets of open edges
LEMMA OpenSuffices ==
  ASSUME SortInv, Sorting, Sorting', dag' = dag, indeg' \in [Nodes(dag) -> Nat],
         \A n \in Nodes(dag) : indeg'[n] = Cardinality(Open(n)'),
         \A n \in Nodes(dag) : indeg'[n] = 0 <=> InSeq(out', n) \/ InSeq(q', n),
         \A n \in Nodes(dag) : ~(InSeq(out', n) /\ InSeq(q', n)),
         Injective(out'), Injective(q')
  PROVE  InDegreeExact'
  <1>1. Keys' = Nodes(dag)
    BY SortFacts DEF Keys
  <1> QED  BY <1>1 DEF InDegreeExact, Open

\* Taking a node off the queue: all its parents are in the order already, and
\* no edge is subtracted yet
LEMMA PopInv ==
  ASSUME SortInv, Pop
  PROVE  SortInv'
  <1> DEFINE n == Head(q)
             L == Len(out)
  <1>1. Sorting /\ Sorting' /\ pc = "pop" /\ pc' = "scan" /\ k' = 1 /\ q # << >>
        /\ dag' = dag /\ indeg' = indeg /\ verdict' = verdict
        /\ out' = Append(out, n) /\ q' = Tail(q)
    BY DEF Pop, Sorting
  <1> USE SortFacts
  <1>2. /\ n \in NodeId /\ q' \in Seq(NodeId)
        /\ \A y : InSeq(q', y) <=> InSeq(q, y) /\ y # n
        /\ InSeq(q, n) /\ Injective(q')
    BY <1>1, TailFacts
  <1>3. n \in Nodes(dag) /\ ~InSeq(out, n)
    BY <1>1, <1>2 DEF SortInv, StageInv, InSeq
  <1> HIDE DEF n
  <1>4. /\ out' \in Seq(NodeId) /\ Len(out') = L + 1 /\ DOMAIN out' = 1..(L + 1)
        /\ DOMAIN out = 1..L /\ L \in Nat
        /\ \A j \in 1..L : out'[j] = out[j]
        /\ out'[L + 1] = n
        /\ \A y : InSeq(out', y) <=> InSeq(out, y) \/ y = n
        /\ Injective(out')
    BY <1>1, <1>2, <1>3, AppendFacts
  <1> HIDE DEF L
  <1>5. ASSUME NEW i \in DOMAIN dag.edges PROVE Relaxed(i)' <=> Relaxed(i)
    <2>1. Relaxed(i) <=> \E j \in 1..L : out[j] = dag.edges[i].from
      BY <1>1, <1>4 DEF Relaxed
    <2>2. i >= 1 /\ i \in Nat
      BY <1>1
    <2>3. Relaxed(i)' <=> \E j \in 1..(L + 1) : out'[j] = dag.edges[i].from /\ (j = L + 1 => i < 1)
      BY <1>1, <1>4 DEF Relaxed
    <2>4. Relaxed(i)' <=> \E j \in 1..L : out'[j] = dag.edges[i].from
      BY <1>4, <2>2, <2>3
    <2> QED  BY <1>4, <2>1, <2>4
  <1>6. \A m \in Nodes(dag) : Open(m)' = Open(m)
    BY <1>1, <1>5 DEF Open, InEdges
  <1>7. TypeOK'
    <2>1. k' \in 1..Len(dag.edges) + 1
      BY <1>1, EdgeType
    <2>2. Keys' = Keys
      BY <1>1 DEF Keys
    <2>3. out' # << >>
      BY <1>4
    <2> QED  BY <1>1, <1>2, <1>4, <2>1, <2>2, <2>3 DEF SortInv, TypeOK, PCs, Sorting
  <1>8. StageInv'
    <2>1. \A j \in DOMAIN out' : out'[j] \in Nodes(dag)
      BY <1>3, <1>4 DEF SortInv, StageInv
    <2>2. \A j \in DOMAIN q' : q'[j] \in Nodes(dag)
      BY <1>2 DEF SortInv, StageInv, InSeq
    <2> QED  BY <1>1, <2>1, <2>2 DEF StageInv
  <1>9. InDegreeExact'
    BY <1>1, <1>2, <1>3, <1>4, <1>6, OpenSuffices
  <1>10. SupportInv'
    BY <1>1, <1>2, <1>4 DEF SortInv, SupportInv
  <1>11. OrderInv'
    <2> SUFFICES ASSUME NEW e \in DOMAIN dag.edges, NEW j \in DOMAIN out',
                        out'[j] = dag.edges[e].to
                 PROVE  \E i \in DOMAIN out' : i < j /\ out'[i] = dag.edges[e].from
      BY <1>1, Zenon DEF OrderInv
    <2>1. CASE j \in 1..L
      <3>1. out[j] = dag.edges[e].to
        BY <1>4, <2>1
      <3>2. PICK i \in 1..L : i < j /\ out[i] = dag.edges[e].from
        BY <1>4, <2>1, <3>1 DEF SortInv, OrderInv
      <3> QED  BY <1>4, <3>2
    <2>2. CASE j = L + 1
      <3>1. e \in InEdges(dag, n) /\ Open(n) = {}
        BY <1>1, <1>2, <1>3, <1>4, <2>2 DEF InEdges
      <3>2. Relaxed(e)
        BY <3>1 DEF Open
      <3>3. PICK i \in 1..L : out[i] = dag.edges[e].from
        BY <1>4, <3>2 DEF Relaxed
      <3> QED  BY <1>4, <2>2, <3>3
    <2> QED  BY <1>4, <2>1, <2>2
  <1> QED  BY <1>7, <1>8, <1>9, <1>10, <1>11 DEF SortInv

\* A step of the inner loop that changes no in-degree
LEMMA SilentInv ==
  ASSUME SortInv, Skip \/ EndScan
  PROVE  SortInv'
  <1>1. /\ Sorting /\ Sorting' /\ pc = "scan" /\ dag' = dag /\ indeg' = indeg
        /\ q' = q /\ out' = out /\ verdict' = verdict
    BY DEF Skip, Leaves, EndScan, Sorting, sortVars
  <1> USE SortFacts
  <1>2. out # << >> /\ Len(out) \in DOMAIN out
    BY <1>1 DEF SortInv, TypeOK
  <1>3. ASSUME NEW i \in DOMAIN dag.edges PROVE Relaxed(i)' <=> Relaxed(i)
    <2>1. CASE Skip
      BY <1>1, <1>2, <2>1 DEF Skip, Leaves, Relaxed, Cur
    <2>2. CASE EndScan
      BY <1>1, <2>2, EdgeType DEF EndScan, Relaxed, sortVars
    <2> QED  BY <2>1, <2>2
  <1>4. \A m \in Nodes(dag) : Open(m)' = Open(m)
    BY <1>1, <1>3 DEF Open, InEdges
  <1>5. \A m : (InSeq(out', m) <=> InSeq(out, m)) /\ (InSeq(q', m) <=> InSeq(q, m))
    BY <1>1 DEF InSeq
  <1>6. Injective(out') /\ Injective(q')
    BY <1>1 DEF Injective
  <1>7. TypeOK'
    <2>1. k' \in 1..Len(dag.edges) + 1
      BY <1>1, EdgeType DEF SortInv, TypeOK, Skip, Leaves, EndScan, sortVars
    <2>2. Keys' = Keys
      BY <1>1 DEF Keys
    <2> QED  BY <1>1, <2>1, <2>2 DEF SortInv, TypeOK, PCs, Sorting, Skip, Leaves, EndScan
  <1>8. StageInv'
    BY <1>1 DEF SortInv, StageInv, Sorting
  <1>9. InDegreeExact'
    BY <1>1, <1>4, <1>5, <1>6, OpenSuffices
  <1>10. SupportInv' /\ OrderInv'
    BY <1>1, <1>5 DEF SortInv, SupportInv, OrderInv
  <1> QED  BY <1>7, <1>8, <1>9, <1>10 DEF SortInv

\* Subtracting edge k: it was open, and it is the only edge that is closed; a
\* node whose last open edge it was is queued, and no cycle can have kept it
LEMMA RelaxInv ==
  ASSUME SortInv, Relax
  PROVE  SortInv'
  <1> DEFINE L == Len(out)
  <1>a. PICK e \in Nat, t \in NodeId : e = k /\ e \in DOMAIN dag.edges /\ t = dag.edges[e].to
    BY EdgeType DEF SortInv, TypeOK, Relax, Leaves, QueueIfLast
  <1>1. /\ Sorting /\ Sorting' /\ pc = "scan" /\ pc' = "scan" /\ dag' = dag
        /\ k = e /\ k' = e + 1 /\ dag.edges[e].from = out[L]
        /\ indeg' = [indeg EXCEPT ![t] = indeg[t] - 1]
        /\ q' = (IF indeg[t] = 1 THEN Append(q, t) ELSE q)
        /\ out' = out /\ verdict' = verdict
    BY <1>a DEF Relax, Leaves, QueueIfLast, Sorting, Cur
  <1>2. t \in Nodes(dag) /\ L \in Nat /\ L \in DOMAIN out /\ DOMAIN out = 1..L
    <2>1. t \in Nodes(dag)
      BY <1>a, <1>1, SortFacts
    <2>2. out \in Seq(NodeId) /\ out # << >>
      BY <1>1 DEF SortInv, TypeOK
    <2> QED  BY <2>1, <2>2
  <1> HIDE DEF L
  <1>3. ~Relaxed(e)
    <2> SUFFICES ASSUME NEW j \in DOMAIN out, out[j] = dag.edges[e].from, j = L => e < e
                 PROVE  FALSE
      BY <1>1 DEF Relaxed, L
    <2>1. j = L
      BY <1>1, <1>2, SortFacts DEF Injective
    <2> QED  BY <1>2, <2>1
  <1>4. Relaxed(e)'
    BY <1>1, <1>2 DEF Relaxed, L
  <1>5. ASSUME NEW i \in DOMAIN dag.edges, i # e PROVE Relaxed(i)' <=> Relaxed(i)
    <2>1. i \in Nat
      BY <1>1, SortFacts
    <2>2. i < e + 1 <=> i < e
      BY <1>2, <1>5, <2>1
    <2> QED  BY <1>1, <2>2 DEF Relaxed
  <1>6. Open(t)' = Open(t) \ {e} /\ e \in Open(t)
    BY <1>a, <1>1, <1>3, <1>4, <1>5 DEF Open, InEdges
  <1>7. \A n \in Nodes(dag) : n # t => Open(n)' = Open(n)
    BY <1>a, <1>1, <1>5 DEF Open, InEdges
  <1>8. /\ IsFiniteSet(Open(t)) /\ Cardinality(Open(t)') = Cardinality(Open(t)) - 1
        /\ Cardinality(Open(t)') = 0 <=> Open(t)' = {}
    <2>1. IsFiniteSet(Open(t))
      BY <1>1, SortFacts, EdgeSetsFinite DEF Open
    <2>2. Cardinality(Open(t) \ {e}) = Cardinality(Open(t)) - 1 /\ IsFiniteSet(Open(t) \ {e})
      BY <1>6, <2>1, FS_RemoveElement
    <2> QED  BY <1>6, <2>1, <2>2, FS_EmptySet
  <1>9. /\ indeg \in [Nodes(dag) -> Nat] /\ indeg[t] = Cardinality(Open(t)) /\ indeg[t] # 0
    BY <1>1, <1>2, <1>6, SortFacts
  <1>10. /\ indeg' \in [Nodes(dag) -> Nat]
         /\ indeg'[t] = indeg[t] - 1
         /\ \A n \in Nodes(dag) : n # t => indeg'[n] = indeg[n]
    BY <1>1, <1>2, <1>9
  <1>11. ~InSeq(out, t) /\ ~InSeq(q, t)
    BY <1>1, <1>2, <1>6, SortFacts
  <1>12. /\ q' \in Seq(NodeId) /\ Injective(q')
         /\ \A n : InSeq(q', n) <=> InSeq(q, n) \/ (n = t /\ indeg[t] = 1)
    <2>1. q \in Seq(NodeId) /\ Injective(q)
      BY <1>1, SortFacts
    <2>2. CASE indeg[t] = 1
      <3>1. q' = Append(q, t)
        BY <1>1, <2>2
      <3> QED  BY <1>2, <1>11, <2>1, <2>2, <3>1, AppendFacts
    <2>3. CASE indeg[t] # 1
      BY <1>1, <2>1, <2>3
    <2> QED  BY <2>2, <2>3
  <1>13. TypeOK'
    <2>1. k' \in 1..Len(dag.edges) + 1
      BY <1>a, <1>1, EdgeType, SortFacts
    <2>2. Keys' = Nodes(dag)
      BY <1>1, SortFacts DEF Keys
    <2> QED  BY <1>1, <1>10, <1>12, <2>1, <2>2 DEF SortInv, TypeOK, PCs
  <1>14. StageInv'
    <2>1. \A j \in DOMAIN q' : InSeq(q', q'[j])
      BY DEF InSeq
    <2>2. \A n : InSeq(q, n) => n \in Nodes(dag)
      BY DEF SortInv, StageInv, InSeq
    <2>3. \A j \in DOMAIN q' : q'[j] \in Nodes(dag)
      BY <1>2, <1>12, <2>1, <2>2
    <2> QED  BY <1>1, <2>3 DEF SortInv, StageInv, Sorting
  <1>15. InDegreeExact'
    <2>1. \A n \in Nodes(dag) : indeg'[n] = Cardinality(Open(n)')
      BY <1>1, <1>2, <1>7, <1>8, <1>9, <1>10, SortFacts
    <2>2. \A n \in Nodes(dag) : indeg'[n] = 0 <=> InSeq(out', n) \/ InSeq(q', n)
      <3>1. ASSUME NEW n \in Nodes(dag), n # t
            PROVE  indeg'[n] = 0 <=> InSeq(out', n) \/ InSeq(q', n)
        BY <1>1, <1>10, <1>12, <3>1, SortFacts
      <3>2. indeg'[t] = 0 <=> InSeq(out', t) \/ InSeq(q', t)
        BY <1>1, <1>2, <1>9, <1>10, <1>11, <1>12
      <3> QED  BY <3>1, <3>2
    <2>3. \A n \in Nodes(dag) : ~(InSeq(out', n) /\ InSeq(q', n))
      BY <1>1, <1>11, <1>12, SortFacts
    <2>4. Injective(out')
      BY <1>1, SortFacts
    <2> QED  BY <1>1, <1>10, <1>12, <2>1, <2>2, <2>3, <2>4, OpenSuffices
  <1>16. SupportInv'
    <2> SUFFICES ASSUME NEW S \in SUBSET Nodes(dag), SelfSupporting(dag, S)
                 PROVE  \A n \in S : ~InSeq(out, n) /\ ~InSeq(q', n)
      BY <1>1, Zenon DEF SupportInv
    <2>1. \A n \in S : ~InSeq(out, n) /\ ~InSeq(q, n)
      BY DEF SortInv, SupportInv
    <2>2. ASSUME t \in S, indeg[t] = 1 PROVE FALSE
      <3>1. Open(t)' = {}
        BY <1>8, <1>9, <2>2
      <3>2. PICK i \in InEdges(dag, t) : dag.edges[i].from \in S
        BY <2>2 DEF SelfSupporting
      <3>3. Relaxed(i)'
        BY <1>1, <3>1, <3>2 DEF Open
      <3>4. InSeq(out, dag.edges[i].from)
        BY <1>1, <3>3 DEF Relaxed, InSeq
      <3> QED  BY <2>1, <3>2, <3>4
    <2> QED  BY <1>12, <2>1, <2>2
  <1>17. OrderInv'
    BY <1>1 DEF SortInv, OrderInv
  <1> QED  BY <1>13, <1>14, <1>15, <1>16, <1>17 DEF SortInv

LEMMA ReturnInv ==
  ASSUME SortInv, Return
  PROVE  SortInv'
  <1>1. /\ pc' = "done" /\ dag' = dag /\ q' = q /\ out' = out /\ k' = k
        /\ verdict' \in Verdicts
    BY DEF Return, Complete, sortVars, Verdicts
  <1> QED  BY <1>1
           DEF SortInv, TypeOK, StageInv, InDegreeExact, SupportInv, OrderInv, InSeq, PCs

LEMMA SortInductive == SortInv /\ [Next]_vars => SortInv'
  <1> SUFFICES ASSUME SortInv, [Next]_vars PROVE SortInv'
    OBVIOUS
  <1>1. CASE UNCHANGED vars
    <2> USE <1>1 DEF vars
    <2>1. Keys' = Keys /\ \A i : Relaxed(i)' <=> Relaxed(i)
      BY DEF Keys, Relaxed
    <2>2. TypeOK' /\ StageInv'
      BY <2>1 DEF SortInv, TypeOK, StageInv
    <2>3. InDegreeExact'
      BY <2>1 DEF SortInv, InDegreeExact
    <2>4. SupportInv' /\ OrderInv'
      BY DEF SortInv, SupportInv, OrderInv
    <2> QED  BY <2>2, <2>3, <2>4 DEF SortInv
  <1> QED  BY <1>1, AddNodeInv, AddEdgeInv, BuildInv, CountEdgesInv, PopInv, SilentInv, RelaxInv,
              ReturnInv DEF Next, SortNext

LEMMA SortInit == Init => SortInv
  <1> SUFFICES ASSUME Init PROVE SortInv
    OBVIOUS
  <1>1. << >> \in UNION {[S -> Payload] : S \in SUBSET NodeId}
    <2>1. << >> \in [{} -> Payload]
      OBVIOUS
    <2> QED  BY <2>1
  <1>2. dag \in Graph /\ Len(dag.edges) = 0
    BY <1>1 DEF Init, Graph
  <1> QED  BY <1>2 DEF Init, EmptySort, SortInv, TypeOK, StageInv, InDegreeExact, SupportInv,
                       OrderInv, InSeq, PCs, Verdicts
-----------------------------------------------------------------------------
\* When the queue is empty, the order is complete exactly when the graph has no cycle
LEMMA OrderComplete ==
  ASSUME SortInv, pc = "pop", q = << >>
  PROVE  /\ Len(out) = Cardinality(Nodes(dag)) <=> {out[j] : j \in DOMAIN out} = Nodes(dag)
         /\ {out[j] : j \in DOMAIN out} = Nodes(dag) <=> Acyclic(dag)
  <1> DEFINE R == {out[j] : j \in DOMAIN out}
             S == Nodes(dag) \ R
  <1>1. Sorting
    BY DEF Sorting
  <1>2. IsFiniteSet(Nodes(dag)) /\ R \subseteq Nodes(dag)
    <2>1. Nodes(dag) \subseteq NodeId
      BY EdgeType DEF SortInv, TypeOK
    <2> QED  BY <2>1, NodeIdAssumption, FS_Subset DEF SortInv, StageInv
  <1>3. Cardinality(R) = Len(out)
    BY <1>1, SortFacts, InjectiveLength
  <1>4. Len(out) = Cardinality(Nodes(dag)) <=> R = Nodes(dag)
    BY <1>2, <1>3, FS_Subset
  <1>5. \A n : ~InSeq(q, n)
    BY DEF InSeq
  <1>6. \A n : n \in R <=> InSeq(out, n)
    BY DEF InSeq
  <1>7. ASSUME R = Nodes(dag) PROVE Acyclic(dag)
    <2>1. ASSUME NEW T \in SUBSET Nodes(dag), SelfSupporting(dag, T) PROVE T = {}
      <3>1. \A n \in T : ~InSeq(out, n)
        BY <2>1 DEF SortInv, SupportInv
      <3> QED  BY <1>6, <1>7, <3>1
    <2> QED  BY <2>1 DEF Acyclic
  <1>8. SelfSupporting(dag, S)
    <2> SUFFICES ASSUME NEW n \in Nodes(dag), n \notin R
                 PROVE  \E i \in InEdges(dag, n) : dag.edges[i].from \in S
      BY DEF SelfSupporting
    <2>1. Open(n) # {}
      BY <1>1, <1>5, <1>6, SortFacts
    <2>2. PICK i \in InEdges(dag, n) : ~Relaxed(i)
      BY <2>1 DEF Open
    <2>3. dag.edges[i].from \notin R
      BY <2>2 DEF Relaxed
    <2>4. dag.edges[i].from \in Nodes(dag)
      BY <1>1, SortFacts DEF InEdges
    <2> QED  BY <2>3, <2>4
  <1>9. ASSUME Acyclic(dag) PROVE R = Nodes(dag)
    <2>1. S \in SUBSET Nodes(dag)
      OBVIOUS
    <2>2. S = {}
      BY <1>8, <1>9, <2>1 DEF Acyclic
    <2> QED  BY <1>2, <2>2
  <1> QED  BY <1>4, <1>7, <1>9

Correct == BuildCorrect /\ TopologicalOrder

LEMMA CorrectInductive ==
  ASSUME SortInv, Correct, [Next]_vars
  PROVE  Correct'
  <1>1. CASE Return
    <2>1. /\ dag' = dag /\ out' = out
          /\ verdict' = (IF Len(out) = Cardinality(Nodes(dag)) THEN "Ok" ELSE "CycleDetected")
          /\ pc = "pop" /\ q = << >>
      BY <1>1 DEF Return, Complete, sortVars
    <2>2. RefsKnown(dag) /\ Injective(out)
      BY <2>1, SortFacts DEF Sorting
    <2>3. CASE Len(out) = Cardinality(Nodes(dag))
      <3>1. verdict' = "Ok" /\ {out[j] : j \in DOMAIN out} = Nodes(dag) /\ Acyclic(dag)
        BY <2>1, <2>3, OrderComplete
      <3>2. BuildCorrect'
        BY <2>1, <2>2, <3>1 DEF BuildCorrect
      <3>3. TopologicalOrder'
        BY <2>1, <2>2, <3>1 DEF TopologicalOrder, SortInv, OrderInv
      <3> QED  BY <3>2, <3>3 DEF Correct
    <2>4. CASE Len(out) # Cardinality(Nodes(dag))
      <3>1. verdict' = "CycleDetected" /\ ~Acyclic(dag)
        BY <2>1, <2>4, OrderComplete
      <3> QED  BY <2>1, <2>2, <3>1 DEF Correct, BuildCorrect, TopologicalOrder
    <2> QED  BY <2>3, <2>4
  <1>2. CASE Build
    BY <1>2 DEF Build, Correct, BuildCorrect, TopologicalOrder, SortInv, StageInv
  <1>3. CASE UNCHANGED vars
    BY <1>3 DEF vars, Correct, BuildCorrect, TopologicalOrder, Injective
  <1>4. CASE Next /\ ~Return /\ ~Build
    <2>1. verdict' = verdict /\ pc # "done"
      BY <1>4 DEF Next, SortNext, AddNode, AddEdge, CountEdges, Pop, Relax, Leaves, QueueIfLast, Skip, EndScan
    <2>2. verdict' = "none"
      BY <2>1 DEF SortInv, StageInv
    <2> QED  BY <2>2 DEF Correct, BuildCorrect, TopologicalOrder
  <1> QED  BY <1>1, <1>2, <1>3, <1>4
-----------------------------------------------------------------------------
\* dag.rs: topo_sort keeps its types; in particular `*d -= 1` never underflows.
THEOREM TypeCorrect == Spec => []TypeOK
  BY SortInit, SortInductive, PTL DEF Spec, SortInv

\* dag.rs: at every step of Kahn's loop the in-degrees count the edges left.
THEOREM InDegrees == Spec => []InDegreeExact
  BY SortInit, SortInductive, PTL DEF Spec, SortInv

LEMMA AlwaysCorrect == Spec => []Correct
  <1>1. Init => Correct
    BY DEF Init, EmptySort, Correct, BuildCorrect, TopologicalOrder
  <1> QED  BY <1>1, SortInit, SortInductive, CorrectInductive, PTL DEF Spec

\* build accepts a graph if and only if its edges join known nodes and it has
\* no cycle, for graphs of any size.
THEOREM BuildDecides == Spec => []BuildCorrect
  BY AlwaysCorrect, PTL DEF Correct

\* An order topo_sort returns inside build is a topological order of all nodes.
THEOREM BuildOrders == Spec => []TopologicalOrder
  BY AlwaysCorrect, PTL DEF Correct
-----------------------------------------------------------------------------
(* topo_sort without build *)

\* Calling topo_sort on a graph whose edges join known nodes is what build does
LEMMA DeserializedInductive ==
  DeserializedSpec => [](RefsKnown(dag) => SortInv /\ Correct)
  <1>1. DeserializedInit => (RefsKnown(dag) => SortInv /\ Correct)
    <2> SUFFICES ASSUME DeserializedInit, RefsKnown(dag) PROVE SortInv /\ Correct
      OBVIOUS
    <2>1. dag \in Graph /\ pc = "count" /\ EmptySort
      BY DagBuilderAssumption DEF DeserializedInit
    <2>2. Len(dag.edges) \in Nat
      BY <2>1, EdgeType
    <2>3. SortInv
      BY <2>1, <2>2 DEF EmptySort, SortInv, TypeOK, StageInv, InDegreeExact, SupportInv, OrderInv, InSeq,
                        PCs, Verdicts
    <2>4. Correct
      BY <2>1 DEF EmptySort, Correct, BuildCorrect, TopologicalOrder
    <2> QED  BY <2>3, <2>4
  <1>2. (RefsKnown(dag) => SortInv /\ Correct) /\ [SortNext]_vars => (RefsKnown(dag) => SortInv /\ Correct)'
    <2>1. [SortNext]_vars => [Next]_vars
      BY DEF Next
    <2>2. [SortNext]_vars => (RefsKnown(dag)' <=> RefsKnown(dag))
      BY DEF SortNext, CountEdges, Pop, Relax, Leaves, QueueIfLast, Skip, EndScan, Return, sortVars, vars,
             RefsKnown, Nodes
    <2> QED  BY <2>1, <2>2, SortInductive, CorrectInductive
  <1> QED  BY <1>1, <1>2, PTL DEF DeserializedSpec

\* dag.rs: on a graph that was deserialized, topo_sort rejects cycles as its
\* comment says provided the references are known: a dangling edge is the only
\* reason why it may accept one.
THEOREM KnownRefsSuffice == DeserializedSpec => [](RefsKnown(dag) => CyclesRejected /\ TopologicalOrder)
  <1>1. Correct => CyclesRejected /\ TopologicalOrder
    BY DEF Correct, BuildCorrect, CyclesRejected
  <1> QED  BY <1>1, DeserializedInductive, PTL
-----------------------------------------------------------------------------
(* Why topo_sort comes to an end, on cyclic graphs as well *)

\* What one node in the order costs: the inner loop over the edges and its ends
TurnCost == Len(dag.edges) + 3

\* A bound for the steps of topo_sort that are left
StepsLeft ==
  CASE pc = "count" -> Cardinality(Nodes(dag)) * TurnCost + 2
    [] pc = "pop" -> (Cardinality(Nodes(dag)) - Len(out)) * TurnCost + 1
    [] pc = "scan" -> (Cardinality(Nodes(dag)) - Len(out)) * TurnCost + (Len(dag.edges) + 1 - k) + 2
    [] OTHER -> 0

\* The order never gets longer than the graph
LEMMA OrderBounded ==
  ASSUME SortInv, pc \in {"count", "pop", "scan"}
  PROVE  /\ Cardinality(Nodes(dag)) \in Nat /\ Len(out) \in Nat /\ TurnCost \in Nat
         /\ Len(out) <= Cardinality(Nodes(dag))
         /\ Len(dag.edges) \in Nat /\ k \in 1..(Len(dag.edges) + 1)
  <1> DEFINE R == {out[j] : j \in DOMAIN out}
  <1>1. dag \in Graph /\ out \in Seq(NodeId) /\ k \in 1..Len(dag.edges) + 1
    BY DEF SortInv, TypeOK
  <1>2. Len(dag.edges) \in Nat /\ Len(out) \in Nat /\ TurnCost \in Nat
    BY <1>1, EdgeType DEF TurnCost
  <1>3. IsFiniteSet(Nodes(dag)) /\ R \in SUBSET Nodes(dag)
    <2>1. Nodes(dag) \subseteq NodeId
      BY <1>1, EdgeType
    <2> QED  BY <2>1, NodeIdAssumption, FS_Subset DEF SortInv, StageInv
  <1>4. Injective(out)
    BY SortFacts DEF SortInv, StageInv, Sorting, Injective
  <1>5. Cardinality(R) = Len(out)
    BY <1>1, <1>4, InjectiveLength
  <1>6. Cardinality(R) <= Cardinality(Nodes(dag)) /\ Cardinality(Nodes(dag)) \in Nat
    BY <1>3, FS_Subset, FS_CardinalityType
  <1> QED  BY <1>1, <1>2, <1>5, <1>6

\* The places of topo_sort, in numbers
LEMMA Arithmetic ==
  ASSUME NEW n \in Nat, NEW l \in Nat, NEW c \in Nat, l <= n
  PROVE  /\ (n - l) * c \in Nat /\ n * c \in Nat
         /\ (n - 0) * c = n * c
         /\ (n - (l + 1)) * c = (n - l) * c - c
  <1>1. n - l \in Nat
    OBVIOUS
  <1>2. \A x, y \in Nat : x * y \in Nat
    OBVIOUS
  <1>3. (n - l) * c \in Nat /\ n * c \in Nat
    BY <1>1, <1>2
  <1>4. (n - (l + 1)) * c = (n - l) * c - c
    OBVIOUS
  <1> QED  BY <1>3, <1>4

LEMMA StepsLeftType ==
  ASSUME SortInv
  PROVE  StepsLeft \in Nat
  <1>1. CASE pc \in {"count", "pop", "scan"}
    <2>1. /\ (Cardinality(Nodes(dag)) - Len(out)) * TurnCost \in Nat
          /\ Cardinality(Nodes(dag)) * TurnCost \in Nat
      BY <1>1, OrderBounded, Arithmetic
    <2>2. Len(dag.edges) + 1 - k \in Nat
      BY <1>1, OrderBounded
    <2> QED  BY <1>1, <2>1, <2>2 DEF StepsLeft
  <1>2. CASE pc \notin {"count", "pop", "scan"}
    BY <1>2 DEF StepsLeft
  <1> QED  BY <1>1, <1>2

LEMMA SortStepCounts ==
  ASSUME SortInv, SortNext
  PROVE  StepsLeft' < StepsLeft
  <1> DEFINE n == Cardinality(Nodes(dag))
             l == Len(out)
             c == TurnCost
  <1>1. pc \in {"count", "pop", "scan"}
    BY DEF SortNext, CountEdges, Pop, Relax, Skip, EndScan, Return
  <1>2. /\ n \in Nat /\ l \in Nat /\ c \in Nat /\ l <= n
        /\ Len(dag.edges) \in Nat /\ k \in 1..(Len(dag.edges) + 1) /\ c = Len(dag.edges) + 3
    BY <1>1, OrderBounded DEF TurnCost
  <1>3. /\ (n - l) * c \in Nat /\ n * c \in Nat
        /\ (n - 0) * c = n * c
        /\ (n - (l + 1)) * c = (n - l) * c - c
    BY <1>2, Arithmetic
  <1>4. dag' = dag /\ n' = n /\ c' = c
    BY DEF SortNext, CountEdges, Pop, Relax, Leaves, QueueIfLast, Skip, EndScan, Return, sortVars, Nodes,
           TurnCost
  <1>a. PICK left \in Nat : left = (n - l) * c
    BY <1>3
  <1>b. PICK e \in Nat : e = Len(dag.edges)
    BY <1>2
  <1> HIDE DEF n, c
  <1>5. CASE CountEdges
    <2>1. pc = "count" /\ pc' = "pop" /\ out' = out /\ l = 0
      BY <1>5 DEF CountEdges, SortInv, StageInv
    <2>2. StepsLeft = n * c + 2 /\ StepsLeft' = (n' - l') * c' + 1
      BY <2>1 DEF StepsLeft, n, c
    <2> QED  BY <1>3, <1>4, <2>1, <2>2
  <1>6. CASE Pop
    <2>1. pc = "pop" /\ pc' = "scan" /\ k' = 1 /\ out' = Append(out, Head(q))
      BY <1>6 DEF Pop
    <2>2. l' = l + 1
      BY <2>1 DEF SortInv, TypeOK
    <2>3. StepsLeft = (n - l) * c + 1 /\ StepsLeft' = (n' - l') * c' + (Len(dag'.edges) + 1 - k') + 2
      BY <2>1 DEF StepsLeft, n, c
    <2>4. StepsLeft' = (n - (l + 1)) * c + (e + 1 - 1) + 2
      BY <1>4, <1>b, <2>1, <2>2, <2>3
    <2>5. StepsLeft = left + 1 /\ StepsLeft' = (left - c) + (e + 1 - 1) + 2
      BY <1>3, <1>a, <2>3, <2>4
    <2>6. c = e + 3
      BY <1>2, <1>b
    <2> HIDE DEF l
    <2> QED  BY <2>5, <2>6
  <1>7. CASE Relax \/ Skip
    <2>1. pc = "scan" /\ pc' = "scan" /\ k' = k + 1 /\ out' = out
      BY <1>7 DEF Relax, Leaves, QueueIfLast, Skip
    <2>2. /\ StepsLeft = (n - l) * c + (Len(dag.edges) + 1 - k) + 2
          /\ StepsLeft' = (n' - l') * c' + (Len(dag'.edges) + 1 - k') + 2
      BY <2>1 DEF StepsLeft, n, c
    <2>3. StepsLeft = left + (e + 1 - k) + 2 /\ StepsLeft' = left + (e + 1 - (k + 1)) + 2
      BY <1>4, <1>a, <1>b, <2>1, <2>2
    <2>4. k \in Nat
      BY <1>2
    <2> QED  BY <2>3, <2>4
  <1>8. CASE EndScan
    <2>1. pc = "scan" /\ pc' = "pop" /\ out' = out
      BY <1>8 DEF EndScan, sortVars
    <2>2. /\ StepsLeft = (n - l) * c + (Len(dag.edges) + 1 - k) + 2
          /\ StepsLeft' = (n' - l') * c' + 1
      BY <2>1 DEF StepsLeft, n, c
    <2>3. StepsLeft = left + (e + 1 - k) + 2 /\ StepsLeft' = left + 1
      BY <1>4, <1>a, <1>b, <2>1, <2>2
    <2>4. k \in Nat /\ k <= e + 1
      BY <1>2, <1>b
    <2> QED  BY <2>3, <2>4
  <1>9. CASE Return
    <2>1. pc = "pop" /\ pc' = "done"
      BY <1>9 DEF Return
    <2>2. StepsLeft = (n - l) * c + 1 /\ StepsLeft' = 0
      BY <2>1 DEF StepsLeft, n, c
    <2> QED  BY <1>3, <2>2
  <1> QED  BY <1>5, <1>6, <1>7, <1>8, <1>9 DEF SortNext

\* dag.rs: topo_sort ends after at most StepsLeft steps: the `while let` loop
\* takes a node once, and the inner loop passes an edge once per node.
THEOREM BoundedSort == Spec => [](StepsLeft \in Nat) /\ [][SortNext => StepsLeft' < StepsLeft]_vars
  <1>1. SortInv => StepsLeft \in Nat
    BY StepsLeftType
  <1>2. SortInv /\ [Next]_vars => [SortNext => StepsLeft' < StepsLeft]_vars
    BY SortStepCounts
  <1> QED  BY <1>1, <1>2, SortInit, SortInductive, PTL DEF Spec
=============================================================================
