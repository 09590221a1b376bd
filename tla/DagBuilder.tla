----------------------------- MODULE DagBuilder -----------------------------
(***************************************************************************)
(* DagBuilder (node, edge, build) and Dag::topo_sort of kernelflow-core.   *)
(* The caller adds nodes and edges in any order and calls build once;      *)
(* build checks the references and runs Kahn's algorithm, one edge of the  *)
(* inner loop per step.  DeserializedSpec starts topo_sort on a Dag that   *)
(* did not go through build: Dag derives Deserialize and topo_sort is pub. *)
(***************************************************************************)
EXTENDS Dag

CONSTANTS MaxEdges,    \* bound: edges a caller adds
          GivenDags    \* the graphs topo_sort is called on directly

ASSUME DagBuilderAssumption == MaxEdges \in Nat /\ GivenDags \subseteq Graph

VARIABLES
  dag,      \* the graph under construction, then the graph being sorted
  pc,       \* "build", then topo_sort's position: "count", "pop", "scan", "done"
  indeg,    \* topo_sort's indeg map
  q,        \* topo_sort's q
  out,      \* topo_sort's out; its last element is the node n being expanded
  k,        \* position of the inner loop in dag.edges
  verdict   \* what build / topo_sort returned

vars == <<dag, pc, indeg, q, out, k, verdict>>
sortVars == <<indeg, q, out, k>>

PCs == {"build", "count", "pop", "scan", "done"}
Verdicts == {"none", "Ok", "NodeNotFound", "CycleDetected"}

\* The keys of indeg: the nodes, and (entry().or_default()) every edge target
Keys == Nodes(dag) \cup {dag.edges[i].to : i \in DOMAIN dag.edges}

\* The keys of a BTreeMap are visited in increasing order
InKeyOrder(Z) ==
  {s \in [1..Cardinality(Z) -> Z] :
     /\ \A i, j \in DOMAIN s : i < j => s[i] < s[j]
     /\ \A z \in Z : \E i \in DOMAIN s : s[i] = z}

Cur == out[Len(out)]

EmptySort == indeg = << >> /\ q = << >> /\ out = << >> /\ k = 1 /\ verdict = "none"

Init ==
  /\ dag = [nodes |-> << >>, edges |-> << >>]
  /\ pc = "build"
  /\ EmptySort

DeserializedInit ==
  /\ dag \in GivenDags
  /\ pc = "count"
  /\ EmptySort
-----------------------------------------------------------------------------
\* DagBuilder::node: an insert, so a repeated id replaces the payload
AddNode(id, payload) ==
  /\ pc = "build"
  /\ dag' = [dag EXCEPT !.nodes =
               [n \in Nodes(dag) \cup {id} |-> IF n = id THEN payload ELSE dag.nodes[n]]]
  /\ UNCHANGED <<pc, sortVars, verdict>>

\* DagBuilder::edge: no check here, the endpoints may come later or never
AddEdge(from, to, condition) ==
  /\ pc = "build"
  /\ Len(dag.edges) < MaxEdges
  /\ dag' = [dag EXCEPT !.edges =
               Append(@, [from |-> from, to |-> to, condition |-> condition])]
  /\ UNCHANGED <<pc, sortVars, verdict>>

\* Mutant: the references are not checked
BuildUnchecked == pc = "build" /\ pc' = "count" /\ UNCHANGED <<dag, sortVars, verdict>>

\* DagBuilder::build up to its call of topo_sort
Build ==
  /\ pc = "build"
  /\ IF RefsKnown(dag)
     THEN pc' = "count" /\ UNCHANGED verdict
     ELSE pc' = "done" /\ verdict' = "NodeNotFound"
  /\ UNCHANGED <<dag, sortVars>>
-----------------------------------------------------------------------------
\* topo_sort: in-degrees and the initial queue
CountEdges ==
  /\ pc = "count"
  /\ indeg' = [n \in Keys |-> Cardinality(InEdges(dag, n))]
  /\ q' \in InKeyOrder({n \in Keys : InEdges(dag, n) = {}})
  /\ pc' = "pop"
  /\ UNCHANGED <<dag, out, k, verdict>>

\* topo_sort: take the next node off the queue
Pop ==
  /\ pc = "pop"
  /\ q # << >>
  /\ out' = Append(out, Head(q))
  /\ q' = Tail(q)
  /\ k' = 1
  /\ pc' = "scan"
  /\ UNCHANGED <<dag, indeg, verdict>>

\* Mutant: a target is queued at the first edge that reaches it
QueueEager(t) == Append(q, t)

\* A target is queued when the last edge into it is subtracted
QueueIfLast(t) == IF indeg[t] = 1 THEN Append(q, t) ELSE q

\* Mutant: the filter on the edge's source is missing
LeavesAny == TRUE

\* The filter of the inner loop: the edge leaves the current node
Leaves == dag.edges[k].from = Cur

\* topo_sort, inner loop: an edge that leaves the current node
Relax ==
  /\ pc = "scan"
  /\ k <= Len(dag.edges)
  /\ Leaves
  /\ LET e == dag.edges[k] IN
       /\ indeg' = [indeg EXCEPT ![e.to] = @ - 1]
       /\ q' = QueueIfLast(e.to)
  /\ k' = k + 1
  /\ UNCHANGED <<dag, pc, out, verdict>>

\* Mutant: an edge the filter drops does not advance the loop
SkipStuck == pc = "scan" /\ k <= Len(dag.edges) /\ ~Leaves /\ UNCHANGED vars

\* topo_sort, inner loop: an edge the filter drops
Skip ==
  /\ pc = "scan"
  /\ k <= Len(dag.edges)
  /\ ~Leaves
  /\ k' = k + 1
  /\ UNCHANGED <<dag, pc, indeg, q, out, verdict>>

\* topo_sort: the inner loop is over
EndScan ==
  /\ pc = "scan"
  /\ k > Len(dag.edges)
  /\ pc' = "pop"
  /\ UNCHANGED <<dag, sortVars, verdict>>

\* Mutant: the length test at the end is missing
CompleteAlways == TRUE

\* `out.len() != self.nodes.len()` means a cycle
Complete == Len(out) = Cardinality(Nodes(dag))

\* topo_sort: the queue is empty
Return ==
  /\ pc = "pop"
  /\ q = << >>
  /\ verdict' = IF Complete THEN "Ok" ELSE "CycleDetected"
  /\ pc' = "done"
  /\ UNCHANGED <<dag, sortVars>>

SortNext == CountEdges \/ Pop \/ Relax \/ Skip \/ EndScan \/ Return

Next ==
  \/ \E id \in NodeId, p \in Payload : AddNode(id, p)
  \/ \E f, t \in NodeId, c \in Condition : AddEdge(f, t, c)
  \/ Build
  \/ SortNext

Spec == Init /\ [][Next]_vars
DeserializedSpec == DeserializedInit /\ [][SortNext]_vars

\* topo_sort is a plain loop in the caller's thread: once called it runs on
FairSpec == Spec /\ WF_vars(SortNext)
-----------------------------------------------------------------------------
\* Type correctness.  indeg stays a natural number: `*d -= 1` never underflows
\* the usize, and the unwrap of indeg.get_mut never fails.
TypeOK ==
  /\ dag \in Graph
  /\ pc \in PCs
  /\ verdict \in Verdicts
  /\ pc \in {"pop", "scan"} => indeg \in [Keys -> Nat]
  /\ q \in Seq(NodeId)
  /\ out \in Seq(NodeId)
  /\ k \in 1..Len(dag.edges) + 1
  /\ pc = "scan" => out # << >>

\* An edge topo_sort has already subtracted: its source is in out and, when the
\* source is the node being expanded, the inner loop is past the edge.
Relaxed(i) ==
  \E j \in DOMAIN out :
    /\ out[j] = dag.edges[i].from
    /\ (pc = "scan" /\ j = Len(out)) => i < k

InSeq(s, n) == \E j \in DOMAIN s : s[j] = n
Injective(s) == \A i, j \in DOMAIN s : s[i] = s[j] => i = j

\* The inductive heart of topo_sort: every in-degree is the number of edges
\* into the node not yet subtracted, a node is queued or output exactly when
\* that number is 0, and no node is queued or output twice.
InDegreeExact ==
  pc \in {"pop", "scan"} =>
    /\ \A n \in Keys : indeg[n] = Cardinality({i \in InEdges(dag, n) : ~Relaxed(i)})
    /\ \A n \in Keys : indeg[n] = 0 <=> InSeq(out, n) \/ InSeq(q, n)
    /\ Injective(out) /\ Injective(q)
    /\ \A n \in Keys : ~(InSeq(out, n) /\ InSeq(q, n))

\* build (and topo_sort inside it) accepts exactly the graphs whose edges join
\* known nodes and that have no cycle, and names the right error otherwise.
BuildCorrect ==
  /\ verdict = "Ok" => RefsKnown(dag) /\ Acyclic(dag)
  /\ verdict = "CycleDetected" => RefsKnown(dag) /\ ~Acyclic(dag)
  /\ verdict = "NodeNotFound" => ~RefsKnown(dag)

\* The order topo_sort returns lists every node of the graph once, each after
\* all its parents.
TopologicalOrder ==
  verdict = "Ok" =>
    /\ {out[j] : j \in DOMAIN out} = Nodes(dag)
    /\ Injective(out)
    /\ \A e \in DOMAIN dag.edges, j \in DOMAIN out :
         out[j] = dag.edges[e].to =>
           \E i \in DOMAIN out : i < j /\ out[i] = dag.edges[e].from

\* Kahn's loop terminates on every graph, cyclic or not.
BuildTerminates == (pc = "count") ~> (pc = "done")

\* What the comment on topo_sort says ("Returns CycleDetected on cycles"), for
\* any Dag value, built or deserialized.
CyclesRejected == verdict = "Ok" => Acyclic(dag)
=============================================================================
