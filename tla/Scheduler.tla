----------------------------- MODULE Scheduler -----------------------------
(***************************************************************************)
(* Scheduler::run of kernelflow-scheduler (scheduler.rs) together with the *)
(* per-node actors it spawns (actor.rs), for one call of run on a Dag that *)
(* DagBuilder::build accepted.                                             *)
(*                                                                         *)
(* Two kinds of processes interleave: the run future, which dispatches the *)
(* ready nodes in batches and polls their futures, and one tokio task per  *)
(* node, the actor, which takes its message from the mailbox, executes the *)
(* node and answers on a oneshot channel.  Initially run has executed its  *)
(* prologue (lines 66-93) and is at the test of its outer loop.            *)
(*                                                                         *)
(* What ResilientExecutor::run does inside an actor is one step here (an   *)
(* Ok, an Err or a panic); module Resilience opens it up.                  *)
(***************************************************************************)
EXTENDS Dag

CONSTANTS
  Dags,            \* the graphs run is called on
  Value,           \* the JSON values nodes return
  NodeFn(_, _, _), \* what the node (id, payload) computes from its parents' outputs
  NodeError,       \* the errors executing a node may end with
  NoInput,         \* the input of a node that was not dispatched
  PanicAborts      \* the release profile's panic = "abort"

\* The error run itself ends with
Unreached == "not all nodes were reached"

\* The parents maps a NodeInput may carry
Inputs == UNION {[S -> Value] : S \in SUBSET NodeId}

ASSUME SchedulerAssumption ==
  /\ Dags \subseteq Graph
  /\ \A D \in Dags : RefsKnown(D) /\ Acyclic(D)
  /\ \A n \in NodeId, p \in Payload : \A ps \in Inputs : NodeFn(n, p, ps) \in Value
  /\ NoInput \notin Inputs
  /\ Unreached \notin NodeError
  /\ PanicAborts \in BOOLEAN

VARIABLES
  dag,      \* run's argument
  pc,       \* the run future: "poll", "dispatch", "returned"; "aborted" process
  indeg,    \* run's indeg map
  ready,    \* run's ready list, as a set: only the order of NodeStarted events depends on it
  outputs,  \* run's outputs map
  fut,      \* the future of each node in FuturesUnordered
  input,    \* the parents map each future captured
  actor,    \* the task of each node's actor
  reply,    \* each oneshot reply channel
  events,   \* everything sent on the broadcast channel
  result,   \* what run returned
  batch,    \* history: how often the outer loop's body was entered
  batchOf   \* history: the batch each node was dispatched in

vars == <<dag, pc, indeg, ready, outputs, fut, input, actor, reply, events, result, batch, batchOf>>
history == <<batch, batchOf>>
-----------------------------------------------------------------------------
\* hash_json: canonical JSON, then SHA-256; taken to be injective
Hash(v) == <<"sha256", v>>

\* The oneshot channels
NoReply == [kind |-> "none"]
ReplyOk(v) == [kind |-> "ok", value |-> v]
ReplyErr(e) == [kind |-> "err", error |-> e]

\* enum KernelEvent, without the fields that are the same in all events of a run
WorkflowStarted == [type |-> "WorkflowStarted"]
NodeStarted(n) == [type |-> "NodeStarted", node |-> n]
NodeCompleted(n, v) == [type |-> "NodeCompleted", node |-> n, output_hash |-> Hash(v)]
WorkflowCompleted(h) == [type |-> "WorkflowCompleted", attestation_hash |-> h]
WorkflowFailed(e) == [type |-> "WorkflowFailed", reason |-> e]

Pending == [kind |-> "pending"]
Ok(h) == [kind |-> "ok", hash |-> h]
Err(e) == [kind |-> "err", error |-> e]

\* The errors NodeActor::call adds to the node's own
CallError == {"mailbox closed", "reply dropped"}

N == Nodes(dag)
Inflight == {n \in N : fut[n] \in {"created", "sent"}}
Started == {n \in N : fut[n] # "none"}

\* Mutant: the in-degree counts distinct parents, not edges
DistinctParents(n) == Cardinality(ParentIds(dag, n))

\* `*indeg.get_mut(&e.to).unwrap() += 1` for every edge
InDegree(n) == Cardinality(InEdges(dag, n))

\* run up to its outer loop: one actor spawned per node, in-degrees, ready list
Init ==
  /\ dag \in Dags
  /\ pc = "poll"
  /\ indeg = [n \in N |-> InDegree(n)]
  /\ ready = {n \in N : InEdges(dag, n) = {}}
  /\ outputs = << >>
  /\ fut = [n \in N |-> "none"]
  /\ input = [n \in N |-> NoInput]
  /\ actor = [n \in N |-> "idle"]
  /\ reply = [n \in N |-> NoReply]
  /\ events = <<WorkflowStarted>>
  /\ result = Pending
  /\ batch = 0
  /\ batchOf = [n \in N |-> 0]
-----------------------------------------------------------------------------
(* The run future *)

\* `while !ready.is_empty()`: the previous batch is over, enter the body
NextBatch ==
  /\ pc = "poll"
  /\ Inflight = {}
  /\ ready # {}
  /\ pc' = "dispatch"
  /\ batch' = batch + 1
  /\ UNCHANGED <<dag, indeg, ready, outputs, fut, input, actor, reply, events, result, batchOf>>

\* Mutant: only one parent's output is passed on
ParentsFirst(n) ==
  LET known == ParentIds(dag, n) \cap DOMAIN outputs IN
  [p \in {m \in known : \A o \in known : m <= o} |-> outputs[p]]

\* `outputs.get(&e.from)` for every edge of dag.parents
Parents(n) == [p \in ParentIds(dag, n) \cap DOMAIN outputs |-> outputs[p]]

\* Mutant: one node per batch (ready.pop() for ready.drain(..))
AfterOne(n) == "poll"

\* The for loop is over after the last ready node
AfterTurn(n) == IF ready = {n} THEN "poll" ELSE "dispatch"

\* One turn of `for nid in ready.drain(..)`
Dispatch(n) ==
  /\ pc = "dispatch"
  /\ n \in ready
  /\ ready' = ready \ {n}
  /\ input' = [input EXCEPT ![n] = Parents(n)]
  /\ events' = Append(events, NodeStarted(n))
  /\ fut' = [fut EXCEPT ![n] = "created"]
  /\ batchOf' = [batchOf EXCEPT ![n] = batch]
  /\ pc' = AfterTurn(n)
  /\ UNCHANGED <<dag, indeg, outputs, actor, reply, result, batch>>

\* NodeActor::call, first poll of the future: the message goes to the mailbox,
\* or nobody holds the receiver any more
Send(n) ==
  /\ pc = "poll"
  /\ fut[n] = "created"
  /\ fut' = [fut EXCEPT ![n] = "sent"]
  /\ IF actor[n] = "idle"
     THEN actor' = [actor EXCEPT ![n] = "mail"] /\ UNCHANGED reply
     ELSE reply' = [reply EXCEPT ![n] = ReplyErr("mailbox closed")] /\ UNCHANGED actor
  /\ UNCHANGED <<dag, pc, indeg, ready, outputs, input, events, result, history>>

\* Mutant: the edge's condition is ignored
FiredIntoAny(n, v, t) == {i \in OutEdges(dag, n) : dag.edges[i].to = t}

\* Mutant: parallel edges are counted once
FiredIntoOnce(n, v, t) ==
  {i \in OutEdges(dag, n) :
     /\ dag.edges[i].to = t
     /\ Evaluate(dag.edges[i].condition, v)
     /\ \A j \in 1..(i - 1) : dag.edges[j].from = n => dag.edges[j].to # t}

\* The edges from n to t whose condition holds on n's output v
FiredInto(n, v, t) ==
  {i \in OutEdges(dag, n) : dag.edges[i].to = t /\ Evaluate(dag.edges[i].condition, v)}

\* Mutant: a child is ready at the first edge that fires
ReachedBy(n, v) == {t \in N : FiredInto(n, v, t) # {}}

\* The children whose in-degree n's completion brings to 0
NowReady(n, v) ==
  {t \in N : FiredInto(n, v, t) # {} /\ indeg[t] = Cardinality(FiredInto(n, v, t))}

\* `inflight.next()` yields Ok: record the output and unlock children
CompleteOk(n) ==
  /\ pc = "poll"
  /\ fut[n] = "sent"
  /\ reply[n].kind = "ok"
  /\ LET v == reply[n].value IN
       /\ events' = Append(events, NodeCompleted(n, v))
       /\ outputs' = [m \in DOMAIN outputs \cup {n} |-> IF m = n THEN v ELSE outputs[m]]
       /\ indeg' = [t \in N |-> indeg[t] - Cardinality(FiredInto(n, v, t))]
       /\ ready' = ready \cup NowReady(n, v)
  /\ fut' = [fut EXCEPT ![n] = "done"]
  /\ UNCHANGED <<dag, pc, input, actor, reply, result, history>>

\* run returns: the other futures are dropped with FuturesUnordered, and the
\* senders of the mailboxes with the actors map
Return(r) ==
  /\ result' = r
  /\ pc' = "returned"
  /\ fut' = [m \in N |-> IF m \in Inflight THEN "dropped" ELSE fut[m]]

\* Mutant: the failure is announced but run goes on
FailContinues(n, e) ==
  /\ events' = Append(events, WorkflowFailed(e))
  /\ fut' = [fut EXCEPT ![n] = "done"]
  /\ UNCHANGED <<pc, result>>

\* Mutant: the failure is returned but not announced
FailSilent(n, e) == Return(Err(e)) /\ UNCHANGED events

\* Mutant: the caller is told that the workflow failed, not why
FailGeneric(n, e) ==
  events' = Append(events, WorkflowFailed("workflow failed")) /\ Return(Err("workflow failed"))

\* The workflow fails at once with the error of node n
Fail(n, e) == events' = Append(events, WorkflowFailed(e)) /\ Return(Err(e))

\* `inflight.next()` yields Err
CompleteErr(n) ==
  /\ pc = "poll"
  /\ fut[n] = "sent"
  /\ reply[n].kind = "err"
  /\ Fail(n, reply[n].error)
  /\ UNCHANGED <<dag, indeg, ready, outputs, input, actor, reply, history>>

\* The outer loop is over.  No event is sent when nodes were not reached.
Finish ==
  /\ pc = "poll"
  /\ Inflight = {}
  /\ ready = {}
  /\ IF Cardinality(DOMAIN outputs) # Cardinality(N)
     THEN Return(Err(Unreached)) /\ UNCHANGED events
     ELSE /\ events' = Append(events, WorkflowCompleted(Hash(outputs)))
          /\ Return(Ok(Hash(outputs)))
  /\ UNCHANGED <<dag, indeg, ready, outputs, input, actor, reply, history>>
-----------------------------------------------------------------------------
(* The actors *)

\* `rx.recv().await` yields the message, also after run has returned
Recv(n) ==
  /\ pc # "aborted"
  /\ actor[n] = "mail"
  /\ actor' = [actor EXCEPT ![n] = "busy"]
  /\ UNCHANGED <<dag, pc, indeg, ready, outputs, fut, input, reply, events, result, history>>

\* What the executor may end with when the node's code returns
Outcomes(n) == {ReplyOk(NodeFn(n, dag.nodes[n], input[n]))} \cup {ReplyErr(e) : e \in NodeError}

\* `reply.send(res)`: lost when the future that waits for it was dropped
Answer(n, r) == reply' = IF fut[n] = "sent" THEN [reply EXCEPT ![n] = r] ELSE reply

\* exec.run returned and the actor answers
Execute(n) ==
  /\ pc # "aborted"
  /\ actor[n] = "busy"
  /\ actor' = [actor EXCEPT ![n] = "idle"]
  /\ \E r \in Outcomes(n) : Answer(n, r)
  /\ UNCHANGED <<dag, pc, indeg, ready, outputs, fut, input, events, result, history>>

\* Mutant: a sender of the reply channel outlives the panicked task
KeepReply(n) == UNCHANGED reply

\* The reply sender is dropped with the task's stack
DropReply(n) == Answer(n, ReplyErr("reply dropped"))

\* The node's code panics.  Unwinding ends the actor's task only, and the
\* caller finds the reply sender dropped; with panic = "abort" the process dies.
Panic(n) ==
  /\ pc # "aborted"
  /\ actor[n] = "busy"
  /\ IF PanicAborts
     THEN pc' = "aborted" /\ UNCHANGED <<actor, reply>>
     ELSE /\ actor' = [actor EXCEPT ![n] = "panicked"]
          /\ DropReply(n)
          /\ UNCHANGED pc
  /\ UNCHANGED <<dag, indeg, ready, outputs, fut, input, events, result, history>>

\* Mutant: the failure path keeps the mailbox senders
SendersGoneOnOk == pc = "returned" /\ result.kind = "ok"

\* The actors map, with the only sender of each mailbox, is a local of run
SendersGone == pc = "returned"

\* `rx.recv().await` yields None
Stop(n) ==
  /\ SendersGone
  /\ actor[n] = "idle"
  /\ actor' = [actor EXCEPT ![n] = "stopped"]
  /\ UNCHANGED <<dag, pc, indeg, ready, outputs, fut, input, reply, events, result, history>>
-----------------------------------------------------------------------------
RunStep == NextBatch \/ Finish \/ \E n \in N : Dispatch(n) \/ Send(n) \/ CompleteOk(n) \/ CompleteErr(n)
ActorStep(n) == Recv(n) \/ Execute(n) \/ Panic(n) \/ Stop(n)

Next == RunStep \/ \E n \in N : ActorStep(n)

Spec == Init /\ [][Next]_vars

\* The runtime polls the run future and every actor task that can go on.  That
\* an execution ends is the timeout around every attempt (resilience.rs:76)
\* and the bound on the attempts.
FairSpec == Spec /\ WF_vars(RunStep) /\ \A n \in NodeId : WF_vars(n \in N /\ ActorStep(n))
-----------------------------------------------------------------------------
Replies == {NoReply} \cup {ReplyOk(v) : v \in Value} \cup {ReplyErr(e) : e \in NodeError \cup CallError}

\* Type correctness.  indeg holds natural numbers: `*d -= 1` in run never
\* underflows the usize, also with several edges between two nodes.
TypeOK ==
  /\ dag \in Dags
  /\ pc \in {"poll", "dispatch", "returned", "aborted"}
  /\ indeg \in [N -> Nat]
  /\ ready \subseteq N
  /\ DOMAIN outputs \subseteq N /\ \A n \in DOMAIN outputs : outputs[n] \in Value
  /\ fut \in [N -> {"none", "created", "sent", "done", "dropped"}]
  /\ input \in [N -> Inputs \cup {NoInput}]
  /\ actor \in [N -> {"idle", "mail", "busy", "panicked", "stopped"}]
  /\ reply \in [N -> Replies]
  /\ batch \in Nat
  /\ batchOf \in [N -> Nat]

\* The source of edge i completed and its condition held
Fired(i) ==
  /\ dag.edges[i].from \in DOMAIN outputs
  /\ Evaluate(dag.edges[i].condition, outputs[dag.edges[i].from])

\* The heart of run: however the completions interleave, indeg counts exactly
\* the edges into a node that have not fired, and a node has been put on the
\* ready list exactly when they all have.
InDegreeExact ==
  /\ \A n \in N : indeg[n] = Cardinality({i \in InEdges(dag, n) : ~Fired(i)})
  /\ \A n \in N : indeg[n] = 0 <=> n \in ready \cup Started
  /\ ready \cap Started = {}

\* A node in flight was given the output of every one of its parents: the
\* filter_map that builds NodeInput.parents drops none, and all edges fired.
InputsComplete ==
  \A n \in Inflight :
    /\ ParentIds(dag, n) \subseteq DOMAIN outputs
    /\ input[n] = [p \in ParentIds(dag, n) |-> outputs[p]]
    /\ \A i \in InEdges(dag, n) : Fired(i)

\* Determinism: every output is what the node computes from the outputs of
\* its parents, whatever the order of completions.  On an acyclic graph these
\* equations have one solution, so a run that returns Ok returns the hash the
\* graph determines.
AttestationDetermined ==
  /\ \A n \in DOMAIN outputs :
       /\ ParentIds(dag, n) \subseteq DOMAIN outputs
       /\ outputs[n] = NodeFn(n, dag.nodes[n], [p \in ParentIds(dag, n) |-> outputs[p]])
  /\ result.kind = "ok" => DOMAIN outputs = N /\ result.hash = Hash(outputs)

\* When no node fails, the conditions alone decide the result: Ok means that
\* the condition of every edge held, and "not all nodes were reached" that
\* some node completed and an edge out of it did not fire.
ConditionsDecide ==
  /\ result.kind = "ok" => \A i \in DOMAIN dag.edges : Fired(i)
  /\ result = Err(Unreached) =>
       \E i \in DOMAIN dag.edges : dag.edges[i].from \in DOMAIN outputs /\ ~Fired(i)

\* What a subscriber of the broadcast channel sees: a node starts after all
\* its parents completed with the outputs it is given, completes after it
\* started, no event comes twice and none follows WorkflowCompleted or
\* WorkflowFailed.
EventsCausal ==
  \A i \in DOMAIN events :
    /\ events[i].type = "NodeStarted" =>
         \A p \in ParentIds(dag, events[i].node) :
           \E j \in 1..(i - 1) : events[j] = NodeCompleted(p, input[events[i].node][p])
    /\ events[i].type = "NodeCompleted" =>
         \E j \in 1..(i - 1) : events[j] = NodeStarted(events[i].node)
    /\ \A j \in 1..(i - 1) : events[j] # events[i]
    /\ events[i].type \in {"WorkflowCompleted", "WorkflowFailed"} => i = Len(events)

\* The last event tells what run returned, except that a run that ends with
\* "not all nodes were reached" sends no terminal event at all.
LogMatchesResult ==
  LET last == events[Len(events)] IN
  /\ pc \in {"poll", "dispatch"} => last.type \notin {"WorkflowCompleted", "WorkflowFailed"}
  /\ pc = "returned" =>
       \/ result.kind = "ok" /\ last = WorkflowCompleted(result.hash)
       \/ result.kind = "err" /\ last = WorkflowFailed(result.error)
       \/ result = Err(Unreached) /\ last.type \notin {"WorkflowCompleted", "WorkflowFailed"}

\* A node's actor is alive and idle when the node is called, so `call` never
\* fails with "actor mailbox closed", also after other nodes panicked.
MailboxOpen == \A n \in N : fut[n] = "created" => actor[n] = "idle"

\* run needs as many batches as the graph is deep (README: `O(d)` wall): a
\* node runs in the batch right after the latest batch of its parents.
BatchIsDepth ==
  \A n \in Started :
    /\ \A p \in ParentIds(dag, n) : batchOf[p] < batchOf[n]
    /\ batchOf[n] > 1 => \E p \in ParentIds(dag, n) : batchOf[p] = batchOf[n] - 1

\* run always returns; with unwinding panics a panicking node does not stop it
\* (README: "one node panic # scheduler death").
RunReturns == <>(pc = "returned")

\* No task leaks: after run has returned every actor ends, also the ones whose
\* answer nobody waits for.
ActorsStop == [](pc = "returned" => <>(\A n \in N : actor[n] \in {"stopped", "panicked"}))

(***************************************************************************)
(* What run promises is module Workflow: batches, futures and actors are   *)
(* hidden.  The errors it may fail with are those of the node and the      *)
(* dropped reply of a panicked actor, never a closed mailbox.              *)
(***************************************************************************)
W == INSTANCE Workflow WITH Failure <- NodeError \cup {"reply dropped"}

\* Scheduler::run implements the abstract run: each completion is that of a
\* node whose turn it is, on all its parents' outputs; run fails only while a
\* node is due, gives up only when none is, and always comes to a result.
ImplementsWorkflow == W!FairSpec
=============================================================================
