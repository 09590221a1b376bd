-------------------------------- MODULE Dag --------------------------------
(***************************************************************************)
(* The workflow graph of kernelflow-core (dag.rs): values and operators,   *)
(* no state.  A graph D is [nodes |-> id -> payload, edges |-> sequence of *)
(* edges]; edges is a sequence because the code keeps a Vec and allows the *)
(* same pair of nodes to be joined by several edges.                       *)
(***************************************************************************)
EXTENDS Integers, Sequences, FiniteSets

CONSTANTS
  NodeId,     \* the ids the callers use; numbers stand for the strings in BTreeMap order
  Payload,    \* the node payloads N of Dag<N>
  Condition   \* the edge conditions the callers use

ASSUME NodeIdAssumption == NodeId \subseteq Nat /\ IsFiniteSet(NodeId)

\* enum EdgeCondition
Always == [kind |-> "Always"]
JsonEq(pointer, value) == [kind |-> "JsonEq", pointer |-> pointer, value |-> value]

\* EdgeCondition::evaluate.  A JSON output is a function from the pointers
\* that resolve in it to the values found there.
Evaluate(c, output) ==
  \/ c.kind = "Always"
  \/ /\ c.kind = "JsonEq"
     /\ c.pointer \in DOMAIN output
     /\ output[c.pointer] = c.value

Edge == [from : NodeId, to : NodeId, condition : Condition]
Graph == [nodes : UNION {[S -> Payload] : S \in SUBSET NodeId}, edges : Seq(Edge)]

Nodes(D) == DOMAIN D.nodes

\* Dag::parents and Dag::children, as sets of positions in the edge list
InEdges(D, n) == {i \in DOMAIN D.edges : D.edges[i].to = n}
OutEdges(D, n) == {i \in DOMAIN D.edges : D.edges[i].from = n}

\* The ids NodeInput.parents is keyed by
ParentIds(D, n) == {D.edges[i].from : i \in InEdges(D, n)}

\* The reference check of DagBuilder::build: every edge joins known nodes
RefsKnown(D) ==
  \A i \in DOMAIN D.edges : {D.edges[i].from, D.edges[i].to} \subseteq Nodes(D)

\* A set of nodes each of which has a parent inside the set: what a cycle
\* leaves behind.  A finite graph has a cycle iff it has a non-empty such set.
SelfSupporting(D, S) ==
  \A n \in S : \E i \in InEdges(D, n) : D.edges[i].from \in S

Acyclic(D) == \A S \in SUBSET Nodes(D) : SelfSupporting(D, S) => S = {}
=============================================================================
