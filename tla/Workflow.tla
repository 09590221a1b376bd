------------------------------ MODULE Workflow ------------------------------
(***************************************************************************)
(* What one call of Scheduler::run promises its caller, without batches,   *)
(* futures, actors, mailboxes and counters: nodes complete one by one,     *)
(* each on the outputs of all its parents and only when every edge into it *)
(* has fired, until all are done, one fails, or none can go on.            *)
(*                                                                         *)
(* Module Scheduler is shown to implement this specification.              *)
(***************************************************************************)
EXTENDS Dag

CONSTANTS
  Dags,             \* the graphs run is called on
  NodeFn(_, _, _),  \* what the node (id, payload) computes from its parents' outputs
  Failure,          \* the errors of a node that make run fail
  Unreached         \* the error of a run that got stuck

VARIABLES
  dag,      \* the workflow
  outputs,  \* the outputs of the nodes that completed
  result    \* what run returned

vars == <<dag, outputs, result>>

Pending == [kind |-> "pending"]
Ok(h) == [kind |-> "ok", hash |-> h]
Err(e) == [kind |-> "err", error |-> e]
Hash(v) == <<"sha256", v>>

\* The nodes whose turn it is: not completed, and every edge into them fired
Enabled ==
  {n \in Nodes(dag) \ DOMAIN outputs :
     \A i \in InEdges(dag, n) :
       /\ dag.edges[i].from \in DOMAIN outputs
       /\ Evaluate(dag.edges[i].condition, outputs[dag.edges[i].from])}

Init ==
  /\ dag \in Dags
  /\ outputs = << >>
  /\ result = Pending

\* A node completes with what it computes from the outputs of all its parents
Complete(n) ==
  /\ result = Pending
  /\ n \in Enabled
  /\ LET v == NodeFn(n, dag.nodes[n], [p \in ParentIds(dag, n) |-> outputs[p]]) IN
       outputs' = [m \in DOMAIN outputs \cup {n} |-> IF m = n THEN v ELSE outputs[m]]
  /\ UNCHANGED <<dag, result>>

\* A node whose turn it is fails, and the run with it
Fail(e) ==
  /\ result = Pending
  /\ Enabled # {}
  /\ result' = Err(e)
  /\ UNCHANGED <<dag, outputs>>

\* All nodes completed
Succeed ==
  /\ result = Pending
  /\ DOMAIN outputs = Nodes(dag)
  /\ result' = Ok(Hash(outputs))
  /\ UNCHANGED <<dag, outputs>>

\* Nodes are left over and it is nobody's turn
GetStuck ==
  /\ result = Pending
  /\ DOMAIN outputs # Nodes(dag)
  /\ Enabled = {}
  /\ result' = Err(Unreached)
  /\ UNCHANGED <<dag, outputs>>

Next ==
  \/ \E n \in Nodes(dag) : Complete(n)
  \/ \E e \in Failure : Fail(e)
  \/ Succeed
  \/ GetStuck

Spec == Init /\ [][Next]_vars

\* A run goes on until it has a result
FairSpec == Spec /\ WF_vars(Next)
=============================================================================
