-------------------------- MODULE SchedulerProofs --------------------------
(***************************************************************************)
(* Proofs about Scheduler, for graphs of any size, any edge conditions and *)
(* any deterministic nodes.                                                *)
(***************************************************************************)
EXTENDS Scheduler, FiniteSetTheorems, TLAPS

\* The edges into n that have not fired
Open(n) == {i \in InEdges(dag, n) : ~Fired(i)}

\* The input the node gets when all its parents have completed
FullInput(n) == [p \in ParentIds(dag, n) |-> outputs[p]]

\* How the run future, the futures in FuturesUnordered, the actors and the
\* reply channels hang together
StageInv ==
  /\ pc \in {"poll", "dispatch"} => result = Pending
  /\ \A n \in N :
       /\ n \in DOMAIN outputs <=> fut[n] = "done"
       /\ fut[n] = "dropped" => pc \notin {"poll", "dispatch"}
       /\ fut[n] \in {"created", "sent"} => pc # "returned"
       /\ fut[n] = "none" => actor[n] \in {"idle", "stopped"} /\ reply[n] = NoReply
       /\ fut[n] = "created" => actor[n] = "idle" /\ reply[n] = NoReply
       /\ actor[n] = "stopped" => pc \notin {"poll", "dispatch"}

\* Every node that was dispatched got the outputs of all its parents, and every
\* answer and every output is what the node computes from them
DataInv ==
  \A n \in N :
    /\ fut[n] # "none" => ParentIds(dag, n) \subseteq DOMAIN outputs /\ input[n] = FullInput(n)
    /\ reply[n].kind = "ok" => reply[n].value = NodeFn(n, dag.nodes[n], input[n])
    /\ fut[n] = "done" => outputs[n] = NodeFn(n, dag.nodes[n], input[n])

RunInv == TypeOK /\ StageInv /\ DataInv /\ InDegreeExact
-----------------------------------------------------------------------------
\* The graph run is called on
LEMMA DagFacts ==
  ASSUME dag \in Dags
  PROVE  /\ dag \in Graph /\ RefsKnown(dag) /\ Acyclic(dag)
         /\ DOMAIN dag.edges = 1..Len(dag.edges) /\ Len(dag.edges) \in Nat
         /\ N \subseteq NodeId /\ IsFiniteSet(N)
         /\ \A n \in N : dag.nodes[n] \in Payload
         /\ \A i \in DOMAIN dag.edges : dag.edges[i].from \in N /\ dag.edges[i].to \in N
         /\ \A n : ParentIds(dag, n) \subseteq N
  <1>1. dag \in Graph /\ RefsKnown(dag) /\ Acyclic(dag)
    BY SchedulerAssumption
  <1>2. dag.edges \in Seq(Edge)
    BY <1>1 DEF Graph
  <1>3. DOMAIN dag.edges = 1..Len(dag.edges) /\ Len(dag.edges) \in Nat
    BY <1>2
  <1>4. PICK S \in SUBSET NodeId : dag.nodes \in [S -> Payload]
    BY <1>1 DEF Graph
  <1>5. N = S
    BY <1>4 DEF N, Nodes
  <1>6. IsFiniteSet(N)
    BY <1>5, NodeIdAssumption, FS_Subset
  <1>7. \A i \in DOMAIN dag.edges : dag.edges[i].from \in N /\ dag.edges[i].to \in N
    BY <1>1 DEF RefsKnown, N
  <1>8. \A n : ParentIds(dag, n) \subseteq N
    BY <1>7 DEF ParentIds, InEdges
  <1> QED  BY <1>1, <1>3, <1>4, <1>5, <1>6, <1>7, <1>8

LEMMA EdgeSetsFinite ==
  ASSUME dag \in Dags, NEW n, NEW T \in SUBSET InEdges(dag, n)
  PROVE  /\ IsFiniteSet(T)
         /\ Cardinality(T) \in Nat
         /\ Cardinality(T) = 0 <=> T = {}
  <1>1. IsFiniteSet(1..Len(dag.edges))
    BY DagFacts, FS_Interval
  <1>2. T \subseteq 1..Len(dag.edges)
    BY DagFacts DEF InEdges
  <1>3. IsFiniteSet(T)
    BY <1>1, <1>2, FS_Subset
  <1> QED  BY <1>3, FS_CardinalityType, FS_EmptySet

\* All in-edges of a node with in-degree 0 have fired, so all its parents are done
LEMMA Unlocked ==
  ASSUME TypeOK, InDegreeExact, NEW n \in N, indeg[n] = 0
  PROVE  /\ Open(n) = {}
         /\ ParentIds(dag, n) \subseteq DOMAIN outputs
         /\ Parents(n) = FullInput(n)
  <1>1. Open(n) = {}
    <2>1. Cardinality(Open(n)) = 0
      BY DEF InDegreeExact, Open
    <2> QED  BY <2>1, EdgeSetsFinite DEF Open, TypeOK
  <1>2. ParentIds(dag, n) \subseteq DOMAIN outputs
    BY <1>1 DEF Open, Fired, ParentIds
  <1>3. ParentIds(dag, n) \cap DOMAIN outputs = ParentIds(dag, n)
    BY <1>2
  <1> QED  BY <1>1, <1>2, <1>3 DEF Parents, FullInput

\* Parents' outputs are a legal input
LEMMA InputType ==
  ASSUME TypeOK, NEW n, ParentIds(dag, n) \subseteq DOMAIN outputs
  PROVE  FullInput(n) \in Inputs
  <1>1. ParentIds(dag, n) \in SUBSET NodeId
    BY DagFacts DEF TypeOK
  <1>2. FullInput(n) \in [ParentIds(dag, n) -> Value]
    BY DEF FullInput, TypeOK
  <1> QED  BY <1>1, <1>2 DEF Inputs
-----------------------------------------------------------------------------
LEMMA InitRunInv == Init => RunInv
  <1> SUFFICES ASSUME Init PROVE RunInv
    OBVIOUS
  <1>1. dag \in Dags /\ DOMAIN outputs = {}
    BY DEF Init, InDegree
  <1>2. \A n \in N : Cardinality(InEdges(dag, n)) \in Nat
                 /\ (Cardinality(InEdges(dag, n)) = 0 <=> InEdges(dag, n) = {})
    BY <1>1, EdgeSetsFinite
  <1>3. TypeOK
    BY <1>1, <1>2 DEF Init, InDegree, TypeOK, Replies
  <1>4. \A i : ~Fired(i)
    BY <1>1 DEF Fired
  <1>5. \A n : {i \in InEdges(dag, n) : ~Fired(i)} = InEdges(dag, n)
    BY <1>4
  <1>6. Started = {}
    BY DEF Init, InDegree, Started
  <1>7. InDegreeExact
    BY <1>2, <1>5, <1>6 DEF Init, InDegree, InDegreeExact
  <1> QED  BY <1>1, <1>3, <1>7 DEF Init, InDegree, RunInv, StageInv, DataInv, NoReply

\* A step that leaves run's maps and the set of dispatched nodes alone leaves
\* the in-degrees exact
LEMMA SameCounts ==
  ASSUME RunInv, dag' = dag, outputs' = outputs, indeg' = indeg, ready' = ready,
         Started' = Started
  PROVE  InDegreeExact' /\ N' = N /\ \A n : FullInput(n)' = FullInput(n)
  <1>1. N' = N /\ \A i : Fired(i)' <=> Fired(i)
    BY DEF N, Fired
  <1>2. \A n : FullInput(n)' = FullInput(n)
    BY DEF FullInput
  <1> QED  BY <1>1, <1>2 DEF RunInv, InDegreeExact

LEMMA NextBatchInv ==
  ASSUME RunInv, NextBatch
  PROVE  RunInv'
  <1>1. InDegreeExact' /\ N' = N /\ \A n : FullInput(n)' = FullInput(n)
    BY SameCounts DEF NextBatch, Started, N
  <1>2. TypeOK'
    BY <1>1 DEF RunInv, TypeOK, NextBatch
  <1> QED  BY <1>1, <1>2 DEF RunInv, StageInv, DataInv, NextBatch

LEMMA DispatchInv ==
  ASSUME RunInv, NEW n \in N, Dispatch(n)
  PROVE  RunInv'
  <1>1. /\ dag' = dag /\ outputs' = outputs /\ indeg' = indeg /\ ready' = ready \ {n}
        /\ actor' = actor /\ reply' = reply /\ result' = result /\ n \in ready
        /\ pc = "dispatch" /\ pc' \in {"poll", "dispatch"}
        /\ input' = [input EXCEPT ![n] = Parents(n)]
        /\ fut' = [fut EXCEPT ![n] = "created"]
    BY DEF Dispatch, AfterTurn
  <1>2. N' = N /\ (\A i : Fired(i)' <=> Fired(i)) /\ \A m : FullInput(m)' = FullInput(m)
    BY <1>1 DEF N, Fired, FullInput
  <1>3. fut[n] = "none" /\ indeg[n] = 0
    BY <1>1 DEF RunInv, InDegreeExact, Started
  <1>4. ParentIds(dag, n) \subseteq DOMAIN outputs /\ Parents(n) = FullInput(n)
    BY <1>3, Unlocked DEF RunInv
  <1>5. FullInput(n) \in Inputs
    BY <1>4, InputType DEF RunInv
  <1>6. TypeOK'
    BY <1>1, <1>2, <1>4, <1>5 DEF RunInv, TypeOK, Dispatch, AfterTurn
  <1>7. StageInv'
    BY <1>1, <1>2, <1>3 DEF RunInv, StageInv, TypeOK
  <1>8. DataInv'
    BY <1>1, <1>2, <1>3, <1>4 DEF RunInv, StageInv, DataInv, TypeOK, NoReply
  <1>9. Started' = Started \cup {n} /\ n \notin Started
    BY <1>1, <1>2, <1>3 DEF Started, RunInv, TypeOK
  <1>10. InDegreeExact'
    <2>1. \A m \in N : {i \in InEdges(dag', m) : ~Fired(i)'} = {i \in InEdges(dag, m) : ~Fired(i)}
      BY <1>1, <1>2
    <2>2. ready' \cup Started' = ready \cup Started /\ ready' \cap Started' = {}
      BY <1>1, <1>9 DEF RunInv, InDegreeExact
    <2> QED  BY <1>1, <1>2, <2>1, <2>2 DEF RunInv, InDegreeExact
  <1> QED  BY <1>6, <1>7, <1>8, <1>10 DEF RunInv

LEMMA SendInv ==
  ASSUME RunInv, NEW n \in N, Send(n)
  PROVE  RunInv'
  <1>1. /\ dag' = dag /\ outputs' = outputs /\ indeg' = indeg /\ ready' = ready
        /\ input' = input /\ pc' = pc /\ pc = "poll" /\ result' = result /\ history' = history
        /\ fut[n] = "created" /\ fut' = [fut EXCEPT ![n] = "sent"]
    BY DEF Send
  <1>2. actor[n] = "idle" /\ reply[n] = NoReply
    BY <1>1 DEF RunInv, StageInv
  <1>3. actor' = [actor EXCEPT ![n] = "mail"] /\ reply' = reply
    BY <1>2 DEF Send
  <1>4. Started' = Started
    BY <1>1 DEF Started, N, RunInv, TypeOK
  <1>5. InDegreeExact' /\ N' = N /\ \A m : FullInput(m)' = FullInput(m)
    BY <1>1, <1>4, SameCounts
  <1>6. TypeOK'
    BY <1>1, <1>3, <1>5 DEF RunInv, TypeOK, history
  <1>7. StageInv'
    BY <1>1, <1>3, <1>5 DEF RunInv, StageInv, TypeOK
  <1>8. DataInv'
    BY <1>1, <1>3, <1>5 DEF RunInv, DataInv, TypeOK
  <1> QED  BY <1>5, <1>6, <1>7, <1>8 DEF RunInv

\* A completion fires exactly the edges whose condition holds on the output,
\* none of which had fired before
LEMMA CompleteOkInv ==
  ASSUME RunInv, NEW n \in N, CompleteOk(n)
  PROVE  RunInv'
  <1>1. PICK v \in Value : reply[n].value = v /\ reply[n] = ReplyOk(v)
    BY DEF CompleteOk, NowReady, RunInv, TypeOK, Replies, NoReply, ReplyOk, ReplyErr
  <1> DEFINE F(t) == FiredInto(n, v, t)
  <1>2. /\ dag' = dag /\ pc = "poll" /\ pc' = pc /\ input' = input /\ actor' = actor /\ reply' = reply
        /\ result' = result /\ history' = history /\ fut[n] = "sent" /\ reply[n].kind = "ok"
        /\ outputs' = [m \in DOMAIN outputs \cup {n} |-> IF m = n THEN v ELSE outputs[m]]
        /\ indeg' = [t \in N |-> indeg[t] - Cardinality(F(t))]
        /\ ready' = ready \cup {t \in N : F(t) # {} /\ indeg[t] = Cardinality(F(t))}
        /\ fut' = [fut EXCEPT ![n] = "done"]
    BY <1>1 DEF CompleteOk, NowReady
  <1>3. /\ n \notin DOMAIN outputs /\ N' = N /\ dag \in Dags
        /\ DOMAIN outputs' = DOMAIN outputs \cup {n} /\ outputs'[n] = v
        /\ \A m \in DOMAIN outputs : m # n /\ outputs'[m] = outputs[m]
    BY <1>2 DEF N, RunInv, TypeOK, StageInv
  <1>4. v = NodeFn(n, dag.nodes[n], input[n])
    BY <1>1, <1>2 DEF RunInv, DataInv
  <1>5. ASSUME NEW t \in N
        PROVE  /\ F(t) \subseteq Open(t) /\ Open(t)' = Open(t) \ F(t)
    <2>1. ASSUME NEW i \in InEdges(dag, t), dag.edges[i].from = n
          PROVE  (i \in F(t) <=> Fired(i)') /\ ~Fired(i)
      BY <1>2, <1>3, <2>1 DEF FiredInto, Fired, InEdges, OutEdges
    <2>2. ASSUME NEW i \in InEdges(dag, t), dag.edges[i].from # n
          PROVE  i \notin F(t) /\ (Fired(i)' <=> Fired(i))
      BY <1>2, <1>3, <2>2 DEF FiredInto, Fired, OutEdges
    <2>3. F(t) \subseteq InEdges(dag, t)
      BY DEF FiredInto, InEdges, OutEdges
    <2>4. F(t) \subseteq Open(t)
      BY <2>1, <2>2, <2>3 DEF Open
    <2>5. Open(t)' = {i \in InEdges(dag, t) : ~Fired(i)'}
      BY <1>2 DEF Open
    <2> HIDE DEF F
    <2> QED  BY <2>1, <2>2, <2>4, <2>5 DEF Open
  <1>6. ASSUME NEW t \in N
        PROVE  /\ indeg[t] = Cardinality(Open(t)) /\ indeg[t] \in Nat
               /\ Cardinality(F(t)) \in Nat /\ (Cardinality(F(t)) = 0 <=> F(t) = {})
               /\ indeg'[t] = Cardinality(Open(t)') /\ indeg'[t] \in Nat
               /\ indeg'[t] = indeg[t] - Cardinality(F(t))
    <2>1. Open(t) \subseteq InEdges(dag, t) /\ F(t) \subseteq Open(t)
      BY <1>5 DEF Open
    <2>2. IsFiniteSet(Open(t)) /\ Cardinality(F(t)) \in Nat /\ (Cardinality(F(t)) = 0 <=> F(t) = {})
      BY <1>3, <2>1, EdgeSetsFinite
    <2>3. indeg[t] = Cardinality(Open(t)) /\ indeg[t] \in Nat
      BY DEF RunInv, InDegreeExact, Open, TypeOK
    <2>4. indeg'[t] = indeg[t] - Cardinality(F(t))
      BY <1>2
    <2> HIDE DEF F
    <2>5. Open(t) \cap F(t) = F(t)
      BY <2>1
    <2>6. Cardinality(Open(t) \ F(t)) = Cardinality(Open(t)) - Cardinality(F(t)) /\ IsFiniteSet(Open(t) \ F(t))
      BY <2>2, <2>5, FS_Difference
    <2>7. Cardinality(Open(t) \ F(t)) \in Nat
      BY <2>6, FS_CardinalityType
    <2> QED  BY <1>5, <2>2, <2>3, <2>4, <2>6, <2>7
  <1> HIDE DEF F
  <1>7. Started' = Started
    BY <1>2, <1>3 DEF Started, RunInv, TypeOK
  <1>8. InDegreeExact'
    <2>1. \A t \in N : indeg'[t] = Cardinality({i \in InEdges(dag, t)' : ~Fired(i)'})
      BY <1>6 DEF Open
    <2>2. ASSUME NEW t \in N PROVE indeg'[t] = 0 <=> t \in ready' \cup Started'
      <3>1. indeg[t] = 0 <=> t \in ready \cup Started
        BY DEF RunInv, InDegreeExact
      <3>2. CASE F(t) = {}
        BY <1>2, <1>6, <1>7, <3>1, <3>2
      <3>3. CASE F(t) # {}
        <4>1. indeg[t] # 0
          BY <1>6, <3>3
        <4>2. t \notin ready /\ t \notin Started'
          BY <1>7, <3>1, <4>1
        <4>3. t \in ready' <=> indeg[t] = Cardinality(F(t))
          <5>1. ready' = ready \cup {u \in N : F(u) # {} /\ indeg[u] = Cardinality(F(u))}
            BY <1>2
          <5> QED  BY <3>3, <4>2, <5>1
        <4>4. indeg'[t] = 0 <=> indeg[t] = Cardinality(F(t))
          <5>1. indeg[t] \in Nat /\ Cardinality(F(t)) \in Nat /\ indeg'[t] = indeg[t] - Cardinality(F(t))
            BY <1>6
          <5> QED  BY <5>1
        <4> QED  BY <4>2, <4>3, <4>4
      <3> QED  BY <3>2, <3>3
    <2>3. ready' \cap Started' = {}
      <3> SUFFICES ASSUME NEW t \in N, F(t) # {}, t \in Started PROVE FALSE
        BY <1>2, <1>7 DEF RunInv, InDegreeExact
      <3>1. indeg[t] = 0
        BY DEF RunInv, InDegreeExact
      <3> QED  BY <1>6, <1>5, <3>1, EdgeSetsFinite, <1>3 DEF Open
    <2> QED  BY <1>2, <1>3, <2>1, <2>2, <2>3 DEF InDegreeExact
  <1>9. TypeOK'
    <2>1. indeg' \in [N -> Nat]
      BY <1>2, <1>6
    <2>2. ready' \subseteq N
      BY <1>2 DEF RunInv, TypeOK
    <2> QED  BY <1>2, <1>3, <2>1, <2>2 DEF RunInv, TypeOK, history
  <1>10. StageInv'
    BY <1>2, <1>3 DEF RunInv, StageInv, TypeOK
  <1>11. DataInv'
    <2> SUFFICES ASSUME NEW m \in N
        PROVE  /\ fut'[m] # "none" => /\ ParentIds(dag, m) \subseteq DOMAIN outputs'
                                      /\ input[m] = [p \in ParentIds(dag, m) |-> outputs'[p]]
               /\ reply[m].kind = "ok" => reply[m].value = NodeFn(m, dag.nodes[m], input[m])
               /\ fut'[m] = "done" => outputs'[m] = NodeFn(m, dag.nodes[m], input[m])
      BY <1>2, <1>3 DEF DataInv, FullInput
    <2>1. ASSUME fut[m] # "none"
          PROVE  /\ ParentIds(dag, m) \subseteq DOMAIN outputs'
                 /\ input[m] = [p \in ParentIds(dag, m) |-> outputs'[p]]
      <3>1. ParentIds(dag, m) \subseteq DOMAIN outputs
            /\ input[m] = [p \in ParentIds(dag, m) |-> outputs[p]]
        BY <2>1 DEF RunInv, DataInv, FullInput
      <3> QED  BY <1>3, <3>1
    <2>2. reply[m].kind = "ok" => reply[m].value = NodeFn(m, dag.nodes[m], input[m])
      BY DEF RunInv, DataInv
    <2>3. m # n => fut'[m] = fut[m]
      BY <1>2 DEF RunInv, TypeOK
    <2>4. CASE m = n
      BY <1>2, <1>3, <1>4, <2>1, <2>2, <2>4
    <2>5. CASE m # n
      <3>1. fut[m] = "done" => m \in DOMAIN outputs /\ outputs[m] = NodeFn(m, dag.nodes[m], input[m])
        BY DEF RunInv, DataInv, StageInv
      <3> QED  BY <1>3, <2>1, <2>2, <2>3, <2>5, <3>1
    <2> QED  BY <2>4, <2>5
  <1> QED  BY <1>8, <1>9, <1>10, <1>11 DEF RunInv

\* run returns: what was in flight is dropped, nothing else moves
LEMMA ReturnInv ==
  ASSUME RunInv, pc = "poll", NEW r, Return(r),
         UNCHANGED <<dag, indeg, ready, outputs, input, actor, reply, history>>
  PROVE  RunInv'
  <1>1. pc' = "returned" /\ fut' = [m \in N |-> IF m \in Inflight THEN "dropped" ELSE fut[m]]
    BY DEF Return
  <1>2. N' = N
    BY DEF N
  <1>3. \A m \in N : fut'[m] = IF fut[m] \in {"created", "sent"} THEN "dropped" ELSE fut[m]
    BY <1>1 DEF Inflight
  <1>4. Started' = Started
    BY <1>2, <1>3 DEF Started
  <1>5. InDegreeExact' /\ \A m : FullInput(m)' = FullInput(m)
    BY <1>4, SameCounts
  <1>6. TypeOK'
    <2>1. fut' \in [N -> {"none", "created", "sent", "done", "dropped"}]
      BY <1>1 DEF RunInv, TypeOK
    <2> QED  BY <1>1, <1>2, <2>1 DEF RunInv, TypeOK, history
  <1>7. StageInv'
    BY <1>1, <1>2, <1>3 DEF RunInv, StageInv, TypeOK
  <1>8. DataInv'
    BY <1>2, <1>3, <1>5 DEF RunInv, DataInv
  <1> QED  BY <1>5, <1>6, <1>7, <1>8 DEF RunInv

LEMMA CompleteErrInv ==
  ASSUME RunInv, NEW n \in N, CompleteErr(n)
  PROVE  RunInv'
  BY ReturnInv DEF CompleteErr, Fail

LEMMA FinishInv ==
  ASSUME RunInv, Finish
  PROVE  RunInv'
  BY ReturnInv DEF Finish

\* A step of an actor changes its own task and, when its caller still waits,
\* its reply
LEMMA ActorInv ==
  ASSUME RunInv, NEW n \in N, ActorStep(n)
  PROVE  RunInv'
  <1>1. /\ dag' = dag /\ outputs' = outputs /\ indeg' = indeg /\ ready' = ready
        /\ fut' = fut /\ input' = input /\ result' = result /\ history' = history
    BY DEF ActorStep, Recv, Execute, Panic, DropReply, Stop, SendersGone
  <1>2. Started' = Started
    BY <1>1 DEF Started, N
  <1>3. InDegreeExact' /\ N' = N /\ \A m : FullInput(m)' = FullInput(m)
    BY <1>1, <1>2, SameCounts
  <1>4. CASE Recv(n)
    <2>1. /\ pc' = pc /\ reply' = reply /\ actor[n] = "mail"
          /\ actor' = [actor EXCEPT ![n] = "busy"]
      BY <1>4 DEF Recv
    <2>2. TypeOK'
      BY <1>1, <1>3, <2>1 DEF RunInv, TypeOK, history
    <2>3. StageInv'
      BY <1>1, <1>3, <2>1 DEF RunInv, StageInv, TypeOK
    <2>4. DataInv'
      BY <1>1, <1>3, <2>1 DEF RunInv, DataInv
    <2> QED  BY <1>3, <2>2, <2>3, <2>4 DEF RunInv
  <1>5. CASE Execute(n)
    <2>1. pc' = pc /\ actor[n] = "busy" /\ actor' = [actor EXCEPT ![n] = "idle"] /\ pc # "aborted"
      BY <1>5 DEF Execute
    <2>2. PICK r \in Outcomes(n) : Answer(n, r)
      BY <1>5 DEF Execute
    <2>3. CASE fut[n] = "sent"
      <3>1. reply' = [reply EXCEPT ![n] = r]
        BY <2>2, <2>3 DEF Answer
      <3>2. input[n] \in Inputs /\ dag.nodes[n] \in Payload /\ n \in NodeId
        BY <2>3, InputType, DagFacts DEF RunInv, DataInv, TypeOK
      <3>3. NodeFn(n, dag.nodes[n], input[n]) \in Value
        BY <3>2, SchedulerAssumption
      <3>4. r \in Replies /\ (r.kind = "ok" => r.value = NodeFn(n, dag.nodes[n], input[n]))
        BY <3>3 DEF Outcomes, Replies, ReplyOk, ReplyErr
      <3>5. TypeOK'
        BY <1>1, <1>3, <2>1, <3>1, <3>4 DEF RunInv, TypeOK, history
      <3>6. StageInv'
        BY <1>1, <1>3, <2>1, <2>3, <3>1 DEF RunInv, StageInv, TypeOK
      <3>7. DataInv'
        BY <1>1, <1>3, <3>1, <3>4 DEF RunInv, DataInv, TypeOK
      <3> QED  BY <1>3, <3>5, <3>6, <3>7 DEF RunInv
    <2>4. CASE fut[n] # "sent"
      <3>1. reply' = reply
        BY <2>2, <2>4 DEF Answer
      <3>2. TypeOK'
        BY <1>1, <1>3, <2>1, <3>1 DEF RunInv, TypeOK, history
      <3>3. StageInv'
        BY <1>1, <1>3, <2>1, <3>1 DEF RunInv, StageInv, TypeOK
      <3>4. DataInv'
        BY <1>1, <1>3, <3>1 DEF RunInv, DataInv
      <3> QED  BY <1>3, <3>2, <3>3, <3>4 DEF RunInv
    <2> QED  BY <2>3, <2>4
  <1>6. CASE Panic(n) /\ PanicAborts
    <2>1. pc' = "aborted" /\ actor' = actor /\ reply' = reply
      BY <1>6 DEF Panic, DropReply
    <2>2. TypeOK'
      BY <1>1, <1>3, <2>1 DEF RunInv, TypeOK, history
    <2>3. StageInv'
      BY <1>1, <1>3, <2>1 DEF RunInv, StageInv
    <2>4. DataInv'
      BY <1>1, <1>3, <2>1 DEF RunInv, DataInv
    <2> QED  BY <1>3, <2>2, <2>3, <2>4 DEF RunInv
  <1>7. CASE Panic(n) /\ ~PanicAborts
    <2>1. /\ pc' = pc /\ actor[n] = "busy" /\ actor' = [actor EXCEPT ![n] = "panicked"]
          /\ reply' = IF fut[n] = "sent" THEN [reply EXCEPT ![n] = ReplyErr("reply dropped")] ELSE reply
      BY <1>7 DEF Panic, DropReply, Answer
    <2>2. ReplyErr("reply dropped") \in Replies /\ ReplyErr("reply dropped").kind = "err"
      BY DEF Replies, ReplyErr, CallError
    <2>3. TypeOK'
      BY <1>1, <1>3, <2>1, <2>2 DEF RunInv, TypeOK, history
    <2>4. StageInv'
      BY <1>1, <1>3, <2>1 DEF RunInv, StageInv, TypeOK
    <2>5. DataInv'
      BY <1>1, <1>3, <2>1, <2>2 DEF RunInv, DataInv, TypeOK
    <2> QED  BY <1>3, <2>3, <2>4, <2>5 DEF RunInv
  <1>8. CASE Stop(n)
    <2>1. /\ pc' = pc /\ pc = "returned" /\ reply' = reply
          /\ actor' = [actor EXCEPT ![n] = "stopped"]
      BY <1>8 DEF Stop, SendersGone
    <2>2. TypeOK'
      BY <1>1, <1>3, <2>1 DEF RunInv, TypeOK, history
    <2>3. StageInv'
      BY <1>1, <1>3, <2>1 DEF RunInv, StageInv, TypeOK
    <2>4. DataInv'
      BY <1>1, <1>3, <2>1 DEF RunInv, DataInv
    <2> QED  BY <1>3, <2>2, <2>3, <2>4 DEF RunInv
  <1> QED  BY <1>4, <1>5, <1>6, <1>7, <1>8 DEF ActorStep

LEMMA StutterInv ==
  ASSUME RunInv, UNCHANGED vars
  PROVE  RunInv'
  <1>1. /\ dag' = dag /\ outputs' = outputs /\ indeg' = indeg /\ ready' = ready
        /\ fut' = fut /\ input' = input /\ result' = result /\ pc' = pc /\ actor' = actor
        /\ reply' = reply /\ batch' = batch /\ batchOf' = batchOf
    BY DEF vars
  <1>2. Started' = Started
    BY <1>1 DEF Started, N
  <1>3. InDegreeExact' /\ N' = N /\ \A m : FullInput(m)' = FullInput(m)
    BY <1>1, <1>2, SameCounts
  <1>4. TypeOK'
    BY <1>1, <1>3 DEF RunInv, TypeOK
  <1> QED  BY <1>1, <1>3, <1>4 DEF RunInv, StageInv, DataInv

\* RunInv is inductive
LEMMA RunInductive ==
  ASSUME RunInv, [Next]_vars
  PROVE  RunInv'
  <1>1. CASE RunStep
    BY <1>1, NextBatchInv, FinishInv, DispatchInv, SendInv, CompleteOkInv, CompleteErrInv DEF RunStep
  <1>2. CASE \E n \in N : ActorStep(n)
    BY <1>2, ActorInv
  <1>3. CASE UNCHANGED vars
    BY <1>3, StutterInv
  <1> QED  BY <1>1, <1>2, <1>3 DEF Next

LEMMA RunInvariant == Spec => []RunInv
  <1>1. RunInv /\ [Next]_vars => RunInv'
    BY RunInductive
  <1> QED  BY InitRunInv, <1>1, PTL DEF Spec
-----------------------------------------------------------------------------
\* Every state of run is well typed on every graph build accepts; above all
\* `*d -= 1` never underflows.
THEOREM TypeCorrect == Spec => []TypeOK
  <1>1. RunInv => TypeOK
    BY DEF RunInv
  <1> QED  BY <1>1, RunInvariant, PTL

\* run's in-degrees count the edges that have not fired, and decide exactly
\* which nodes have been made ready, on graphs of every size.
THEOREM InDegrees == Spec => []InDegreeExact
  <1>1. RunInv => InDegreeExact
    BY DEF RunInv
  <1> QED  BY <1>1, RunInvariant, PTL

\* A node in flight was handed the outputs of all its parents.
THEOREM InputsAreComplete == Spec => []InputsComplete
  <1>1. RunInv => InputsComplete
    <2> SUFFICES ASSUME RunInv, NEW n \in Inflight
        PROVE  /\ ParentIds(dag, n) \subseteq DOMAIN outputs
               /\ input[n] = [p \in ParentIds(dag, n) |-> outputs[p]]
               /\ \A i \in InEdges(dag, n) : Fired(i)
      BY DEF InputsComplete
    <2>1. n \in N /\ fut[n] # "none"
      BY DEF Inflight
    <2>2. indeg[n] = 0
      BY <2>1 DEF RunInv, InDegreeExact, Started
    <2>3. Open(n) = {}
      BY <2>1, <2>2, Unlocked DEF RunInv
    <2> QED  BY <2>1, <2>3 DEF RunInv, DataInv, FullInput, Open
  <1> QED  BY <1>1, RunInvariant, PTL

\* No call ever finds the mailbox of its node closed.
THEOREM CallsAreHeard == Spec => []MailboxOpen
  <1>1. RunInv => MailboxOpen
    BY DEF RunInv, StageInv, MailboxOpen
  <1> QED  BY <1>1, RunInvariant, PTL
-----------------------------------------------------------------------------
(* What run returns *)

ResultInv ==
  /\ result.kind = "ok" => DOMAIN outputs = N /\ result.hash = Hash(outputs)
  /\ ConditionsDecide

\* In a state where run is at its loop, only completed nodes have left "none"
LEMMA Drained ==
  ASSUME RunInv, pc = "poll", Inflight = {}, NEW n \in N
  PROVE  n \in Started <=> n \in DOMAIN outputs
  <1>1. fut[n] \in {"none", "done"}
    BY DEF RunInv, TypeOK, StageInv, Inflight
  <1> QED  BY <1>1 DEF RunInv, StageInv, Started

\* "not all nodes were reached": if every edge out of a completed node had
\* fired, every node left over would have a parent left over, on a cycle
LEMMA UnreachedMeansUnfired ==
  ASSUME RunInv, pc = "poll", Inflight = {}, ready = {}, DOMAIN outputs # N
  PROVE  \E i \in DOMAIN dag.edges : dag.edges[i].from \in DOMAIN outputs /\ ~Fired(i)
  <1> SUFFICES ASSUME \A i \in DOMAIN dag.edges : dag.edges[i].from \in DOMAIN outputs => Fired(i)
      PROVE  FALSE
    OBVIOUS
  <1> DEFINE S == N \ DOMAIN outputs
  <1>1. S # {} /\ S \in SUBSET Nodes(dag)
    BY DEF RunInv, TypeOK, N
  <1>2. ASSUME NEW n \in S PROVE \E i \in InEdges(dag, n) : dag.edges[i].from \in S
    <2>1. indeg[n] # 0
      BY Drained DEF RunInv, InDegreeExact
    <2>2. Open(n) # {}
      <3>1. Cardinality(Open(n)) # 0
        BY <2>1 DEF RunInv, InDegreeExact, Open
      <3> QED  BY <3>1, EdgeSetsFinite DEF Open, RunInv, TypeOK
    <2>3. PICK i \in InEdges(dag, n) : ~Fired(i)
      BY <2>2 DEF Open
    <2>4. i \in DOMAIN dag.edges /\ dag.edges[i].from \in N
      BY DagFacts DEF InEdges, RunInv, TypeOK
    <2> QED  BY <2>3, <2>4
  <1>3. SelfSupporting(dag, S)
    BY <1>2 DEF SelfSupporting
  <1>4. Acyclic(dag)
    BY DagFacts DEF RunInv, TypeOK
  <1> QED  BY <1>1, <1>3, <1>4 DEF Acyclic

\* The size test of run tells whether every node completed
LEMMA SizesEqual ==
  ASSUME RunInv
  PROVE  Cardinality(DOMAIN outputs) = Cardinality(N) <=> DOMAIN outputs = N
  <1>1. IsFiniteSet(N) /\ DOMAIN outputs \subseteq N
    BY DagFacts DEF RunInv, TypeOK
  <1> QED  BY <1>1, FS_Subset

LEMMA AllFired ==
  ASSUME RunInv, DOMAIN outputs = N
  PROVE  \A i \in DOMAIN dag.edges : Fired(i)
  <1> SUFFICES ASSUME NEW i \in DOMAIN dag.edges PROVE Fired(i)
    OBVIOUS
  <1>1. PICK t \in N : dag.edges[i].to = t
    BY DagFacts DEF RunInv, TypeOK
  <1>2. fut[t] = "done"
    BY DEF RunInv, StageInv
  <1>3. indeg[t] = 0
    BY <1>2 DEF RunInv, InDegreeExact, Started
  <1>4. Open(t) = {}
    BY <1>3, Unlocked DEF RunInv
  <1> QED  BY <1>1, <1>4 DEF Open, InEdges

LEMMA ResultInductive ==
  ASSUME RunInv, ResultInv, [Next]_vars
  PROVE  ResultInv'
  <1>1. ASSUME result' = result, outputs' = outputs, dag' = dag PROVE ResultInv'
    BY <1>1 DEF ResultInv, ConditionsDecide, Fired, N
  <1>2. ASSUME NEW n \in N, CompleteOk(n) PROVE ResultInv'
    <2>1. result' = Pending
      BY <1>2 DEF CompleteOk, NowReady, RunInv, StageInv
    <2> QED  BY <2>1 DEF ResultInv, ConditionsDecide, Pending, Err
  <1>3. ASSUME NEW n \in N, CompleteErr(n) PROVE ResultInv'
    <2>1. result' = Err(reply[n].error) /\ reply[n].kind = "err"
      BY <1>3 DEF CompleteErr, Fail, Return
    <2>2. PICK e \in NodeError \cup CallError : reply[n] = ReplyErr(e)
      BY <2>1 DEF RunInv, TypeOK, Replies, NoReply, ReplyOk, ReplyErr
    <2>3. e # Unreached
      <3>1. Unreached \notin NodeError
        BY SchedulerAssumption
      <3>2. Unreached \notin CallError
        BY DEF CallError, Unreached
      <3> QED  BY <3>1, <3>2
    <2>4. reply[n].error = e
      BY <2>2 DEF ReplyErr
    <2> QED  BY <2>1, <2>3, <2>4 DEF ResultInv, ConditionsDecide, Err
  <1>4. ASSUME Finish PROVE ResultInv'
    <2>1. pc = "poll" /\ Inflight = {} /\ ready = {} /\ outputs' = outputs /\ dag' = dag
      BY <1>4 DEF Finish
    <2>2. N' = N /\ \A i : Fired(i)' <=> Fired(i)
      BY <2>1 DEF N, Fired
    <2>3. CASE DOMAIN outputs # N
      <3>1. result' = Err(Unreached)
        BY <1>4, <2>3, SizesEqual DEF Finish, Return
      <3>2. \E i \in DOMAIN dag.edges : dag.edges[i].from \in DOMAIN outputs /\ ~Fired(i)
        BY <2>1, <2>3, UnreachedMeansUnfired
      <3> QED  BY <2>1, <2>2, <3>1, <3>2 DEF ResultInv, ConditionsDecide, Err
    <2>4. CASE DOMAIN outputs = N
      <3>1. result' = Ok(Hash(outputs))
        BY <1>4, <2>4, SizesEqual DEF Finish, Return
      <3>2. \A i \in DOMAIN dag.edges : Fired(i)
        BY <2>4, AllFired
      <3>3. result'.kind = "ok" /\ result'.hash = Hash(outputs) /\ result' # Err(Unreached)
        BY <3>1 DEF Ok, Err
      <3>4. Hash(outputs)' = Hash(outputs)
        BY <2>1 DEF Hash
      <3> QED  BY <2>1, <2>2, <2>4, <3>2, <3>3, <3>4 DEF ResultInv, ConditionsDecide
    <2> QED  BY <2>3, <2>4
  <1>5. CASE RunStep
    <2>1. ASSUME NextBatch \/ \E n \in N : Dispatch(n) \/ Send(n)
          PROVE  result' = result /\ outputs' = outputs /\ dag' = dag
      BY <2>1 DEF NextBatch, Dispatch, AfterTurn, Send
    <2> QED  BY <1>1, <1>2, <1>3, <1>4, <1>5, <2>1 DEF RunStep
  <1>6. CASE \E n \in N : ActorStep(n)
    BY <1>1, <1>6 DEF ActorStep, Recv, Execute, Panic, DropReply, Stop, SendersGone
  <1>7. CASE UNCHANGED vars
    BY <1>1, <1>7 DEF vars
  <1> QED  BY <1>5, <1>6, <1>7 DEF Next

LEMMA ResultInvariant == Spec => []ResultInv
  <1>1. Init => ResultInv
    BY DEF Init, InDegree, ResultInv, ConditionsDecide, Pending, Err
  <1>2. RunInv /\ ResultInv /\ [Next]_vars => ResultInv'
    BY ResultInductive
  <1> QED  BY <1>1, <1>2, RunInvariant, PTL DEF Spec

\* Every output is the one the graph determines, and the hash run returns is
\* the hash of the outputs of all nodes, in every interleaving.
THEOREM Deterministic == Spec => []AttestationDetermined
  <1>1. RunInv /\ ResultInv => AttestationDetermined
    <2> SUFFICES ASSUME RunInv, ResultInv, NEW n \in DOMAIN outputs
        PROVE  /\ ParentIds(dag, n) \subseteq DOMAIN outputs
               /\ outputs[n] = NodeFn(n, dag.nodes[n], [p \in ParentIds(dag, n) |-> outputs[p]])
      BY DEF AttestationDetermined, ResultInv
    <2>1. n \in N /\ fut[n] = "done"
      BY DEF RunInv, TypeOK, StageInv
    <2>2. input[n] = [p \in ParentIds(dag, n) |-> outputs[p]]
      BY <2>1 DEF RunInv, DataInv, FullInput
    <2> QED  BY <2>1, <2>2 DEF RunInv, DataInv
  <1> QED  BY <1>1, RunInvariant, ResultInvariant, PTL

\* Ok means that every edge fired; "not all nodes were reached" that a
\* completed node has an edge whose condition did not hold.
THEOREM ConditionsDecideResult == Spec => []ConditionsDecide
  <1>1. ResultInv => ConditionsDecide
    BY DEF ResultInv
  <1> QED  BY <1>1, ResultInvariant, PTL
-----------------------------------------------------------------------------
(* What callers and subscribers of run may rely on: run implements the     *)
(* specification Workflow, and its event log ends as its result says.      *)

\* A failed call carries an error of the node or the dropped reply of its actor
ErrorInv ==
  \A n \in N : reply[n].kind = "err" => reply[n].error \in NodeError \cup {"reply dropped"}

\* Only Execute, Panic and, with a closed mailbox, Send write a reply
LEMMA ErrorInductive ==
  ASSUME RunInv, ErrorInv, [Next]_vars
  PROVE  ErrorInv'
  <1> USE DEF RunInv
  <1>1. ASSUME dag' = dag, reply' = reply PROVE ErrorInv'
    BY <1>1 DEF ErrorInv, N
  <1>2. ASSUME dag' = dag, NEW n \in N, NEW r, Answer(n, r),
               r.kind = "err" => r.error \in NodeError \cup {"reply dropped"}
        PROVE  ErrorInv'
    <2>1. reply \in [N -> Replies] /\ N' = N
      BY <1>2 DEF TypeOK, N
    <2>2. \A m \in N : reply'[m] = reply[m] \/ reply'[m] = r
      BY <1>2, <2>1 DEF Answer
    <2> QED  BY <1>2, <2>1, <2>2 DEF ErrorInv
  <1>3. CASE RunStep
    <2>1. ASSUME NEW n \in N, Send(n) PROVE dag' = dag /\ reply' = reply
      BY <2>1 DEF Send, StageInv
    <2>2. ASSUME NextBatch \/ Finish \/ \E n \in N : Dispatch(n) \/ CompleteOk(n) \/ CompleteErr(n)
          PROVE  dag' = dag /\ reply' = reply
      BY <2>2 DEF NextBatch, Finish, Dispatch, CompleteOk, CompleteErr
    <2> QED  BY <1>1, <1>3, <2>1, <2>2 DEF RunStep
  <1>4. ASSUME NEW n \in N, Execute(n) PROVE ErrorInv'
    <2>1. PICK r \in Outcomes(n) : Answer(n, r)
      BY <1>4 DEF Execute
    <2>2. r.kind = "err" => r.error \in NodeError
      BY <2>1 DEF Outcomes, ReplyOk, ReplyErr
    <2> QED  BY <1>2, <1>4, <2>1, <2>2 DEF Execute
  <1>5. ASSUME NEW n \in N, Panic(n) PROVE ErrorInv'
    <2>1. CASE PanicAborts
      BY <1>1, <1>5, <2>1 DEF Panic
    <2>2. CASE ~PanicAborts
      <3>1. Answer(n, ReplyErr("reply dropped")) /\ dag' = dag
        BY <1>5, <2>2 DEF Panic, DropReply
      <3>2. ReplyErr("reply dropped").error = "reply dropped"
        BY DEF ReplyErr
      <3> QED  BY <1>2, <3>1, <3>2
    <2> QED  BY <2>1, <2>2
  <1>6. ASSUME NEW n \in N, Recv(n) \/ Stop(n) PROVE ErrorInv'
    BY <1>1, <1>6 DEF Recv, Stop
  <1>7. CASE UNCHANGED vars
    BY <1>1, <1>7 DEF vars
  <1> QED  BY <1>3, <1>4, <1>5, <1>6, <1>7 DEF Next, ActorStep

LEMMA ErrorInvariant == Spec => []ErrorInv
  <1>1. Init => ErrorInv
    <2> SUFFICES ASSUME Init, NEW n \in N PROVE reply[n].kind # "err"
      BY DEF ErrorInv
    <2>1. reply[n] = NoReply
      BY DEF Init
    <2> QED  BY <2>1 DEF NoReply
  <1> QED  BY <1>1, ErrorInductive, RunInvariant, PTL DEF Spec
-----------------------------------------------------------------------------
(* The refinement *)

\* Both specifications read the graph in the same way
LEMMA SameGraph ==
  /\ W!Nodes(dag) = N
  /\ \A n : W!ParentIds(dag, n) = ParentIds(dag, n)
  /\ W!Enabled = {n \in N \ DOMAIN outputs : \A i \in InEdges(dag, n) : Fired(i)}
  <1>1. W!Nodes(dag) = N
    BY DEF W!Nodes, Nodes, N
  <1>2. \A n : W!InEdges(dag, n) = InEdges(dag, n)
    BY DEF W!InEdges, InEdges
  <1>3. \A c, v : W!Evaluate(c, v) <=> Evaluate(c, v)
    BY DEF W!Evaluate, Evaluate
  <1> QED  BY <1>1, <1>2, <1>3 DEF W!Enabled, Fired, W!ParentIds, ParentIds

\* A node whose call is in flight is one whose turn it is
LEMMA InflightEnabled ==
  ASSUME RunInv, NEW n \in N, fut[n] = "sent"
  PROVE  n \in W!Enabled
  <1>1. n \notin DOMAIN outputs
    BY DEF RunInv, StageInv
  <1>2. indeg[n] = 0
    BY DEF RunInv, InDegreeExact, Started
  <1>3. Open(n) = {}
    BY <1>2, Unlocked DEF RunInv
  <1> QED  BY <1>1, <1>3, SameGraph DEF Open

\* When nothing is ready and nothing in flight it is nobody's turn
LEMMA IdleDisabled ==
  ASSUME RunInv, pc = "poll", Inflight = {}, ready = {}
  PROVE  W!Enabled = {}
  <1> SUFFICES ASSUME NEW n \in W!Enabled PROVE FALSE
    OBVIOUS
  <1>1. n \in N /\ n \notin DOMAIN outputs /\ Open(n) = {}
    BY SameGraph DEF Open
  <1>2. indeg[n] = 0
    <2>1. Cardinality(Open(n)) = 0
      BY <1>1, FS_EmptySet
    <2> QED  BY <1>1, <2>1 DEF RunInv, InDegreeExact, Open
  <1>3. n \in Started
    BY <1>1, <1>2 DEF RunInv, InDegreeExact
  <1> QED  BY <1>1, <1>3, Drained

\* Every step of run and its actors is a step of Workflow or leaves it alone
LEMMA StepRefines ==
  ASSUME RunInv, ErrorInv, [Next]_vars
  PROVE  [W!Next]_(W!vars)
  <1>1. ASSUME dag' = dag, outputs' = outputs, result' = result PROVE [W!Next]_(W!vars)
    BY <1>1 DEF W!vars
  <1>2. ASSUME NEW n \in N, CompleteOk(n) PROVE W!Next
    <2>1. pc = "poll" /\ fut[n] = "sent" /\ reply[n].kind = "ok"
      BY <1>2 DEF CompleteOk
    <2>2. n \in W!Enabled /\ result = W!Pending
      BY <2>1, InflightEnabled DEF RunInv, StageInv, Pending, W!Pending
    <2>3. reply[n].value = NodeFn(n, dag.nodes[n], [p \in ParentIds(dag, n) |-> outputs[p]])
      BY <2>1 DEF RunInv, DataInv, FullInput
    <2>4. W!Complete(n)
      BY <1>2, <2>2, <2>3, SameGraph DEF CompleteOk, W!Complete
    <2> QED  BY <2>4, SameGraph DEF W!Next
  <1>3. ASSUME NEW n \in N, CompleteErr(n) PROVE W!Next
    <2>1. pc = "poll" /\ fut[n] = "sent" /\ reply[n].kind = "err" /\ result' = Err(reply[n].error)
      BY <1>3 DEF CompleteErr, Fail, Return
    <2>2. n \in W!Enabled /\ result = W!Pending
      BY <2>1, InflightEnabled DEF RunInv, StageInv, Pending, W!Pending
    <2>3. W!Fail(reply[n].error)
      BY <1>3, <2>1, <2>2 DEF CompleteErr, W!Fail, Err, W!Err
    <2>4. reply[n].error \in NodeError \cup {"reply dropped"}
      BY <2>1 DEF ErrorInv
    <2> QED  BY <2>3, <2>4 DEF W!Next
  <1>4. ASSUME Finish PROVE W!Next
    <2>1. pc = "poll" /\ Inflight = {} /\ ready = {} /\ outputs' = outputs /\ dag' = dag
      BY <1>4 DEF Finish
    <2>2. result = W!Pending /\ W!Enabled = {}
      BY <2>1, IdleDisabled DEF RunInv, StageInv, Pending, W!Pending
    <2>3. CASE DOMAIN outputs # N
      <3>1. result' = W!Err(Unreached)
        BY <1>4, <2>3, SizesEqual DEF Finish, Return, Err, W!Err
      <3>2. W!GetStuck
        BY <2>1, <2>2, <2>3, <3>1, SameGraph DEF W!GetStuck
      <3> QED  BY <3>2 DEF W!Next
    <2>4. CASE DOMAIN outputs = N
      <3>1. result' = W!Ok(W!Hash(outputs))
        BY <1>4, <2>4, SizesEqual DEF Finish, Return, Ok, W!Ok, Hash, W!Hash
      <3>2. W!Succeed
        BY <2>1, <2>2, <2>4, <3>1, SameGraph DEF W!Succeed
      <3> QED  BY <3>2 DEF W!Next
    <2> QED  BY <2>3, <2>4
  <1>5. CASE RunStep
    <2>1. ASSUME NextBatch \/ \E n \in N : Dispatch(n) \/ Send(n)
          PROVE  dag' = dag /\ outputs' = outputs /\ result' = result
      BY <2>1 DEF NextBatch, Dispatch, Send
    <2> QED  BY <1>1, <1>2, <1>3, <1>4, <1>5, <2>1 DEF RunStep
  <1>6. CASE \E n \in N : ActorStep(n)
    BY <1>1, <1>6 DEF ActorStep, Recv, Execute, Panic, Stop
  <1>7. CASE UNCHANGED vars
    BY <1>1, <1>7 DEF vars
  <1> QED  BY <1>5, <1>6, <1>7 DEF Next

\* Scheduler::run implements Workflow (all but its liveness): whatever the
\* interleaving of futures and actors, nodes complete when and as the graph
\* says, run fails only with the error of a node that was due, and it gives up
\* only when no node is.
THEOREM Refinement == Spec => W!Spec
  <1>1. Init => W!Init
    BY DEF Init, W!Init, Pending, W!Pending
  <1>2. RunInv /\ ErrorInv /\ [Next]_vars => [W!Next]_(W!vars)
    BY StepRefines
  <1> QED  BY <1>1, <1>2, RunInvariant, ErrorInvariant, PTL DEF Spec, W!Spec
-----------------------------------------------------------------------------
(* The event log *)

Live == pc \in {"poll", "dispatch"}
Terminal == {"WorkflowCompleted", "WorkflowFailed"}

IsLog(s) == \E S : s \in Seq(S)

LEMMA Appended ==
  ASSUME NEW s, IsLog(s), NEW e
  PROVE  /\ IsLog(Append(s, e))
         /\ Len(s) \in Nat /\ DOMAIN s = 1..Len(s)
         /\ Len(Append(s, e)) = Len(s) + 1
         /\ DOMAIN Append(s, e) = 1..(Len(s) + 1)
         /\ \A i \in 1..Len(s) : Append(s, e)[i] = s[i]
         /\ Append(s, e)[Len(s) + 1] = e
  <1>1. PICK S : s \in Seq(S)
    BY DEF IsLog
  <1>2. s \in Seq(S \cup {e}) /\ e \in S \cup {e}
    BY <1>1
  <1>3. Append(s, e) \in Seq(S \cup {e})
    BY <1>2
  <1>4. IsLog(Append(s, e))
    BY <1>3 DEF IsLog
  <1> QED  BY <1>2, <1>3, <1>4

\* What is known of the i-th event
Caused(i) ==
  /\ events[i].type = "WorkflowStarted" => i = 1
  /\ events[i].type = "NodeStarted" =>
       /\ events[i].node \in Started
       /\ \A p \in ParentIds(dag, events[i].node) :
            \E j \in 1..(i - 1) : events[j] = NodeCompleted(p, input[events[i].node][p])
  /\ events[i].type = "NodeCompleted" =>
       /\ events[i].node \in DOMAIN outputs
       /\ \E j \in 1..(i - 1) : events[j] = NodeStarted(events[i].node)
  /\ \A j \in 1..(i - 1) : events[j] # events[i]
  /\ events[i].type \in Terminal => i = Len(events) /\ ~Live

\* The log is well formed, and everything that happened is in it
LogInv ==
  /\ IsLog(events)
  /\ Len(events) > 0
  /\ \A i \in 1..Len(events) : Caused(i)
  /\ \A n \in Started : \E j \in 1..Len(events) : events[j] = NodeStarted(n)
  /\ \A n \in DOMAIN outputs : \E j \in 1..Len(events) : events[j] = NodeCompleted(n, outputs[n])
  /\ LogMatchesResult

\* A step that sends no event, starts no node and completes none
LEMMA SilentLog ==
  ASSUME LogInv, UNCHANGED <<dag, events, input, outputs>>, Started' = Started,
         Live' => Live, LogMatchesResult'
  PROVE  LogInv'
  <1>1. \A i \in 1..Len(events) : Caused(i)'
    BY DEF LogInv, Caused, NodeStarted, NodeCompleted, Terminal
  <1> QED  BY <1>1 DEF LogInv, NodeStarted, NodeCompleted, Hash

\* A step that sends e: what is left to show is what e adds
LEMMA SendLog ==
  ASSUME LogInv, Live, NEW e, events' = Append(events, e), dag' = dag,
         Started \subseteq Started', \A m \in Started : input'[m] = input[m],
         DOMAIN outputs \subseteq DOMAIN outputs',
         \A m \in DOMAIN outputs : outputs'[m] = outputs[m],
         NEW L, L = Len(events)
  PROVE  /\ L \in Nat /\ L > 0 /\ IsLog(events') /\ Len(events') = L + 1
         /\ \A i \in 1..L : events'[i] = events[i]
         /\ events'[L + 1] = e
         /\ \A i \in 1..L : Caused(i)'
         /\ \A m \in Started : \E j \in 1..L : events'[j] = NodeStarted(m)
         /\ \A m \in DOMAIN outputs : \E j \in 1..L : events'[j] = NodeCompleted(m, outputs[m])
         /\ \A i \in 1..L : events[i].type \notin Terminal
  <1>1. /\ L \in Nat /\ L > 0 /\ IsLog(events') /\ Len(events') = L + 1
        /\ \A i \in 1..L : events'[i] = events[i]
        /\ events'[L + 1] = e
    BY Appended DEF LogInv
  <1>2. ASSUME NEW i \in 1..L PROVE Caused(i)' /\ events[i].type \notin Terminal
    <2>1. Caused(i) /\ events'[i] = events[i] /\ \A j \in 1..(i - 1) : events'[j] = events[j]
      BY <1>1 DEF LogInv
    <2>2. events[i].type \notin Terminal
      BY <2>1 DEF Caused
    <2> QED  BY <1>1, <2>1, <2>2 DEF Caused, NodeStarted, NodeCompleted, Hash, Terminal
  <1> QED  BY <1>1, <1>2 DEF LogInv

LEMMA DispatchLog ==
  ASSUME RunInv, LogInv, NEW n \in N, Dispatch(n)
  PROVE  LogInv'
  <1>1. PICK L : L = Len(events)
    OBVIOUS
  <1>2. /\ events' = Append(events, NodeStarted(n)) /\ dag' = dag /\ outputs' = outputs
        /\ Live /\ Live' /\ N' = N
    BY DEF Dispatch, AfterTurn, Live, N
  <1>3. n \notin Started /\ Started' = Started \cup {n} /\ indeg[n] = 0
    BY <1>2 DEF Dispatch, Started, RunInv, TypeOK, InDegreeExact
  <1>4. \A m \in Started : input'[m] = input[m]
    BY <1>3 DEF Dispatch, RunInv, TypeOK, Started
  <1>5. \A p \in ParentIds(dag, n) : p \in DOMAIN outputs /\ input'[n][p] = outputs[p]
    BY <1>3, Unlocked DEF Dispatch, RunInv, TypeOK, FullInput
  <1>6. /\ L \in Nat /\ IsLog(events') /\ Len(events') = L + 1
        /\ \A i \in 1..L : events'[i] = events[i]
        /\ events'[L + 1] = NodeStarted(n)
        /\ \A i \in 1..L : Caused(i)'
        /\ \A m \in Started : \E j \in 1..L : events'[j] = NodeStarted(m)
        /\ \A m \in DOMAIN outputs : \E j \in 1..L : events'[j] = NodeCompleted(m, outputs[m])
    BY <1>1, <1>2, <1>3, <1>4, SendLog
  <1>7. Caused(L + 1)'
    <2>1. \A p \in ParentIds(dag, n) :
            \E j \in 1..L : events'[j] = NodeCompleted(p, input'[n][p])
      BY <1>5, <1>6
    <2>2. \A j \in 1..L : events'[j] # NodeStarted(n)
      BY <1>1, <1>3, <1>6 DEF LogInv, Caused, NodeStarted
    <2> QED  BY <1>2, <1>3, <1>6, <2>1, <2>2 DEF Caused, NodeStarted, NodeCompleted, Hash, Terminal
  <1>8. \A i \in 1..Len(events') : Caused(i)'
    BY <1>6, <1>7
  <1>9. \A m \in Started' : \E j \in 1..Len(events') : events'[j] = NodeStarted(m)
    BY <1>3, <1>6
  <1>10. \A m \in DOMAIN outputs' : \E j \in 1..Len(events') : events'[j] = NodeCompleted(m, outputs'[m])
    BY <1>2, <1>6
  <1>11. LogMatchesResult'
    BY <1>2, <1>6 DEF LogMatchesResult, NodeStarted, Live
  <1> QED  BY <1>6, <1>8, <1>9, <1>10, <1>11 DEF LogInv, NodeStarted, NodeCompleted, Hash

LEMMA CompleteOkLog ==
  ASSUME RunInv, LogInv, NEW n \in N, CompleteOk(n)
  PROVE  LogInv'
  <1>1. PICK L : L = Len(events)
    OBVIOUS
  <1>2. PICK v : v = reply[n].value
    OBVIOUS
  <1>3. /\ events' = Append(events, NodeCompleted(n, v)) /\ dag' = dag /\ input' = input
        /\ Live /\ Live' /\ N' = N /\ fut[n] = "sent"
    BY <1>2 DEF CompleteOk, Live, N
  <1>4. Started' = Started /\ n \in Started
    BY <1>3 DEF CompleteOk, Started, RunInv, TypeOK
  <1>5. n \notin DOMAIN outputs
    BY <1>3 DEF RunInv, StageInv
  <1>6. /\ DOMAIN outputs' = DOMAIN outputs \cup {n} /\ outputs'[n] = v
        /\ \A m \in DOMAIN outputs : outputs'[m] = outputs[m]
    BY <1>2, <1>5 DEF CompleteOk
  <1>7. /\ L \in Nat /\ IsLog(events') /\ Len(events') = L + 1
        /\ \A i \in 1..L : events'[i] = events[i]
        /\ events'[L + 1] = NodeCompleted(n, v)
        /\ \A i \in 1..L : Caused(i)'
        /\ \A m \in Started : \E j \in 1..L : events'[j] = NodeStarted(m)
        /\ \A m \in DOMAIN outputs : \E j \in 1..L : events'[j] = NodeCompleted(m, outputs[m])
    BY <1>1, <1>3, <1>4, <1>6, SendLog
  <1>8. Caused(L + 1)'
    <2>1. \E j \in 1..L : events'[j] = NodeStarted(n)
      BY <1>4, <1>7
    <2>2. \A j \in 1..L : events'[j] # NodeCompleted(n, v)
      BY <1>1, <1>5, <1>7 DEF LogInv, Caused, NodeCompleted
    <2> QED  BY <1>3, <1>6, <1>7, <2>1, <2>2 DEF Caused, NodeStarted, NodeCompleted, Terminal
  <1>9. \A i \in 1..Len(events') : Caused(i)'
    BY <1>7, <1>8
  <1>10. \A m \in Started' : \E j \in 1..Len(events') : events'[j] = NodeStarted(m)
    BY <1>4, <1>7
  <1>11. \A m \in DOMAIN outputs' : \E j \in 1..Len(events') : events'[j] = NodeCompleted(m, outputs'[m])
    BY <1>6, <1>7
  <1>12. LogMatchesResult'
    BY <1>3, <1>7 DEF LogMatchesResult, NodeCompleted, Live
  <1> QED  BY <1>7, <1>9, <1>10, <1>11, <1>12 DEF LogInv, NodeStarted, NodeCompleted, Hash

\* run returns: the dropped futures do not matter to the log
LEMMA ReturnLog ==
  ASSUME RunInv, LogInv, pc = "poll", NEW r, Return(r),
         UNCHANGED <<dag, outputs, input>>,
         \/ events' = events /\ r = Err(Unreached)
         \/ \E e : events' = Append(events, WorkflowFailed(e)) /\ r = Err(e)
         \/ \E h : events' = Append(events, WorkflowCompleted(h)) /\ r = Ok(h)
  PROVE  LogInv'
  <1>1. PICK L : L = Len(events)
    OBVIOUS
  <1>2. result' = r /\ pc' = "returned" /\ Started' = Started /\ Live /\ ~Live'
    BY DEF Return, Started, Inflight, N, Live, RunInv, TypeOK
  <1>3. CASE events' = events /\ r = Err(Unreached)
    <2>1. LogMatchesResult'
      BY <1>2, <1>3 DEF LogMatchesResult, LogInv
    <2> QED  BY <1>2, <1>3, <2>1, SilentLog
  <1>4. ASSUME NEW x, x.type \in Terminal, events' = Append(events, x),
               \/ r.kind = "ok" /\ x = WorkflowCompleted(r.hash)
               \/ r.kind = "err" /\ x = WorkflowFailed(r.error)
        PROVE  LogInv'
    <2>1. /\ L \in Nat /\ L > 0 /\ IsLog(events') /\ Len(events') = L + 1
          /\ \A i \in 1..L : events'[i] = events[i]
          /\ events'[L + 1] = x
          /\ \A i \in 1..L : Caused(i)'
          /\ \A m \in Started : \E j \in 1..L : events'[j] = NodeStarted(m)
          /\ \A m \in DOMAIN outputs : \E j \in 1..L : events'[j] = NodeCompleted(m, outputs[m])
          /\ \A i \in 1..L : events[i].type \notin Terminal
      BY <1>1, <1>2, <1>4, SendLog
    <2>2. Caused(L + 1)'
      <3>1. \A j \in 1..L : events'[j] # x
        BY <1>4, <2>1
      <3>2. x.type \notin {"WorkflowStarted", "NodeStarted", "NodeCompleted"}
        BY <1>4 DEF Terminal
      <3> QED  BY <1>2, <2>1, <3>1, <3>2 DEF Caused
    <2>3. \A i \in 1..Len(events') : Caused(i)'
      BY <2>1, <2>2
    <2>4. LogMatchesResult'
      BY <1>2, <1>4, <2>1 DEF LogMatchesResult
    <2> QED  BY <1>2, <2>1, <2>3, <2>4 DEF LogInv, NodeStarted, NodeCompleted, Hash
  <1>5. ASSUME NEW e, events' = Append(events, WorkflowFailed(e)), r = Err(e) PROVE LogInv'
    <2>1. r.kind = "err" /\ r.error = e /\ WorkflowFailed(e).type \in Terminal
      BY <1>5 DEF Err, WorkflowFailed, Terminal
    <2> QED  BY <1>4, <1>5, <2>1
  <1>6. ASSUME NEW h, events' = Append(events, WorkflowCompleted(h)), r = Ok(h) PROVE LogInv'
    <2>1. r.kind = "ok" /\ r.hash = h /\ WorkflowCompleted(h).type \in Terminal
      BY <1>6 DEF Ok, WorkflowCompleted, Terminal
    <2> QED  BY <1>4, <1>6, <2>1
  <1> QED  BY <1>3, <1>5, <1>6

LEMMA LogInductive ==
  ASSUME RunInv, LogInv, [Next]_vars
  PROVE  LogInv'
  <1>1. ASSUME UNCHANGED <<dag, events, input, outputs, result>>, Started' = Started,
               (pc' = pc \/ (pc = "poll" /\ pc' = "dispatch") \/ pc' = "aborted")
        PROVE  LogInv'
    <2>1. Live' => Live
      BY <1>1 DEF Live
    <2>2. LogMatchesResult'
      BY <1>1 DEF LogInv, LogMatchesResult
    <2> QED  BY <1>1, <2>1, <2>2, SilentLog
  <1>2. ASSUME NextBatch PROVE LogInv'
    BY <1>1, <1>2 DEF NextBatch, Started, N
  <1>3. ASSUME NEW n \in N, Send(n) PROVE LogInv'
    <2>1. Started' = Started
      BY <1>3 DEF Send, Started, N, RunInv, TypeOK
    <2> QED  BY <1>1, <1>3, <2>1 DEF Send
  <1>4. ASSUME NEW n \in N, CompleteErr(n) PROVE LogInv'
    BY <1>4, ReturnLog DEF CompleteErr, Fail
  <1>5. ASSUME Finish PROVE LogInv'
    <2>1. CASE Cardinality(DOMAIN outputs) # Cardinality(N)
      BY <1>5, <2>1, ReturnLog DEF Finish
    <2>2. CASE Cardinality(DOMAIN outputs) = Cardinality(N)
      BY <1>5, <2>2, ReturnLog DEF Finish
    <2> QED  BY <2>1, <2>2
  <1>6. ASSUME NEW n \in N, ActorStep(n) PROVE LogInv'
    <2>1. UNCHANGED <<dag, events, input, outputs, result, fut>> /\ (pc' = pc \/ pc' = "aborted")
      BY <1>6 DEF ActorStep, Recv, Execute, Panic, Stop
    <2>2. Started' = Started
      BY <2>1 DEF Started, N
    <2> QED  BY <1>1, <2>1, <2>2
  <1>7. CASE UNCHANGED vars
    BY <1>1, <1>7 DEF vars, Started, N
  <1> QED  BY <1>2, <1>3, <1>4, <1>5, <1>6, <1>7, DispatchLog, CompleteOkLog DEF Next, RunStep

LEMMA LogInvariant == Spec => []LogInv
  <1>1. Init => LogInv
    <2> SUFFICES ASSUME Init PROVE LogInv
      OBVIOUS
    <2>1. /\ events = <<WorkflowStarted>> /\ Started = {} /\ DOMAIN outputs = {}
          /\ pc = "poll"
      BY DEF Init, Started
    <2>2. events \in Seq({WorkflowStarted}) /\ Len(events) = 1 /\ events[1] = WorkflowStarted
      BY <2>1
    <2>3. IsLog(events)
      BY <2>2 DEF IsLog
    <2>4. Caused(1) /\ LogMatchesResult
      BY <2>1, <2>2 DEF Caused, LogMatchesResult, WorkflowStarted, Terminal
    <2> QED  BY <2>1, <2>2, <2>3, <2>4 DEF LogInv
  <1> QED  BY <1>1, LogInductive, RunInvariant, PTL DEF Spec

\* What a subscriber sees is causally ordered, without repetition and with
\* nothing after the end of the workflow, on graphs of every size.
THEOREM CausalLog == Spec => []EventsCausal
  <1>1. LogInv => EventsCausal
    <2> SUFFICES ASSUME LogInv PROVE EventsCausal
      OBVIOUS
    <2>1. DOMAIN events = 1..Len(events)
      BY Appended DEF LogInv
    <2> QED  BY <2>1 DEF LogInv, EventsCausal, Caused, Terminal
  <1> QED  BY <1>1, LogInvariant, PTL

\* The last event of a run that has returned tells its result, or is missing
\* when nodes were not reached.
THEOREM LogTellsResult == Spec => []LogMatchesResult
  <1>1. LogInv => LogMatchesResult
    BY DEF LogInv
  <1> QED  BY <1>1, LogInvariant, PTL
-----------------------------------------------------------------------------
(* The batches *)

\* The last batch that is over when the nodes that are ready now are dispatched
Round == IF pc = "dispatch" THEN batch - 1 ELSE batch

\* A ready node waits for the batch right after that of its latest parents
DueNow(n) ==
  /\ Round = 0 \/ \E p \in ParentIds(dag, n) : batchOf[p] = Round
  /\ \A p \in ParentIds(dag, n) : batchOf[p] <= Round

BatchInv ==
  /\ \A n \in Started : batchOf[n] > 0 /\ batchOf[n] <= batch
  /\ pc = "dispatch" => batch > 0
  /\ Live => \A n \in Inflight : batchOf[n] = batch
  /\ Live => \A n \in ready : DueNow(n)
  /\ BatchIsDepth

\* A step that leaves the batches and the set of started nodes alone
LEMMA QuietBatch ==
  ASSUME BatchInv, UNCHANGED <<dag, batch, batchOf>>, Started' = Started,
         Live' => pc' = pc /\ ready' = ready /\ Inflight' \subseteq Inflight,
         pc' = "dispatch" => pc = "dispatch"
  PROVE  BatchInv'
  BY DEF BatchInv, BatchIsDepth, DueNow, Round, Live

LEMMA NextBatchBatch ==
  ASSUME RunInv, BatchInv, NextBatch
  PROVE  BatchInv'
  <1>1. /\ batch \in Nat /\ pc = "poll" /\ pc' = "dispatch" /\ batch' = batch + 1
        /\ UNCHANGED <<dag, ready, batchOf, fut>> /\ Inflight = {}
    BY DEF NextBatch, RunInv, TypeOK
  <1>2. Started' = Started /\ Inflight' = {} /\ Round' = Round
    BY <1>1 DEF Started, Inflight, N, Round
  <1>3. \A n \in Started : batchOf[n] \in Nat
    BY DEF RunInv, TypeOK, Started
  <1>4. \A n \in ready : DueNow(n)'
    BY <1>1, <1>2 DEF BatchInv, DueNow, Live
  <1> QED  BY <1>1, <1>2, <1>3, <1>4 DEF BatchInv, BatchIsDepth

LEMMA DispatchBatch ==
  ASSUME RunInv, BatchInv, NEW n \in N, Dispatch(n)
  PROVE  BatchInv'
  <1>1. /\ batch \in Nat /\ pc = "dispatch" /\ UNCHANGED <<dag, batch, outputs>> /\ N' = N
        /\ n \in ready /\ ready' = ready \ {n} /\ Live /\ Live'
        /\ batchOf' = [batchOf EXCEPT ![n] = batch] /\ batchOf \in [N -> Nat]
        /\ pc' = "dispatch" \/ (pc' = "poll" /\ ready' = {})
    BY DEF Dispatch, AfterTurn, RunInv, TypeOK, N, Live
  <1>2. n \notin Started /\ Started' = Started \cup {n} /\ Inflight' = Inflight \cup {n}
    BY <1>1 DEF Dispatch, Started, Inflight, RunInv, TypeOK, InDegreeExact
  <1>3. /\ batchOf'[n] = batch
        /\ \A m \in N : m # n => batchOf'[m] = batchOf[m]
    BY <1>1
  <1>4. \A m \in N : ParentIds(dag, m) \subseteq N
    BY DagFacts DEF RunInv, TypeOK
  \* The parents of a ready or started node have started, so n is not one of them
  <1>5. \A m \in ready \cup Started : ParentIds(dag, m) \subseteq Started
    <2> SUFFICES ASSUME NEW m \in ready \cup Started PROVE ParentIds(dag, m) \subseteq Started
      OBVIOUS
    <2>1. m \in N /\ indeg[m] = 0
      BY DEF RunInv, TypeOK, InDegreeExact, Started
    <2>2. ParentIds(dag, m) \subseteq DOMAIN outputs
      BY <2>1, Unlocked DEF RunInv
    <2> QED  BY <2>1, <2>2, <1>4 DEF RunInv, StageInv, Started
  <1>6. \A m \in ready \cup Started : \A p \in ParentIds(dag, m) : batchOf'[p] = batchOf[p]
    BY <1>2, <1>3, <1>5 DEF Started
  <1>7. DueNow(n) /\ Round = batch - 1 /\ batch > 0
    BY <1>1 DEF BatchInv, Round
  <1>8. \A p \in ParentIds(dag, n) : batchOf'[p] = batchOf[p] /\ batchOf[p] \in Nat
    BY <1>1, <1>4, <1>6
  <1>9. /\ \A p \in ParentIds(dag, n) : batchOf'[p] < batchOf'[n]
        /\ batchOf'[n] > 1 => \E p \in ParentIds(dag, n) : batchOf'[p] = batchOf'[n] - 1
    BY <1>1, <1>3, <1>7, <1>8 DEF DueNow
  <1>10. BatchIsDepth'
    <2>1. ASSUME NEW m \in Started
          PROVE  /\ \A p \in ParentIds(dag, m) : batchOf'[p] < batchOf'[m]
                 /\ batchOf'[m] > 1 => \E p \in ParentIds(dag, m) : batchOf'[p] = batchOf'[m] - 1
      <3>1. batchOf'[m] = batchOf[m]
        BY <1>2, <1>3 DEF Started
      <3> QED  BY <1>6, <3>1 DEF BatchInv, BatchIsDepth
    <2> QED  BY <1>1, <1>2, <1>9, <2>1 DEF BatchIsDepth
  <1>11. \A m \in Started' : batchOf'[m] > 0 /\ batchOf'[m] <= batch
    BY <1>1, <1>2, <1>3, <1>7 DEF BatchInv, Started
  <1>12. \A m \in Inflight' : batchOf'[m] = batch
    BY <1>1, <1>2, <1>3 DEF BatchInv, Inflight
  <1>13. ASSUME NEW m \in ready' PROVE DueNow(m)'
    <2>1. DueNow(m) /\ Round' = Round
      BY <1>1, <1>13 DEF BatchInv, Round
    <2> QED  BY <1>1, <1>6, <2>1 DEF DueNow
  <1> QED  BY <1>1, <1>7, <1>10, <1>11, <1>12, <1>13 DEF BatchInv

LEMMA CompleteOkBatch ==
  ASSUME RunInv, BatchInv, NEW n \in N, CompleteOk(n)
  PROVE  BatchInv'
  <1>1. PICK v : v = reply[n].value
    OBVIOUS
  <1>2. /\ pc = "poll" /\ pc' = pc /\ UNCHANGED <<dag, batch, batchOf>> /\ N' = N /\ fut[n] = "sent"
        /\ ready' = ready \cup NowReady(n, v) /\ Live /\ Round = batch /\ Round' = batch
    BY <1>1 DEF CompleteOk, history, N, Live, Round
  <1>3. Started' = Started /\ Inflight' \subseteq Inflight /\ n \in Inflight
    BY <1>2 DEF CompleteOk, Started, Inflight, RunInv, TypeOK
  <1>4. ASSUME NEW t \in NowReady(n, v) PROVE DueNow(t)'
    <2>1. n \in ParentIds(dag, t) /\ t \in N
      BY DEF NowReady, FiredInto, OutEdges, InEdges, ParentIds
    <2>2. batchOf[n] = batch
      BY <1>2, <1>3 DEF BatchInv
    <2>3. ParentIds(dag, t) \subseteq DOMAIN outputs \cup {n}
      <3>1. RunInv'
        BY CompleteOkInv
      <3>2. t \in ready' /\ t \in N' /\ DOMAIN outputs' = DOMAIN outputs \cup {n}
        BY <1>2, <2>1 DEF CompleteOk
      <3>3. indeg'[t] = 0
        BY <3>1, <3>2 DEF RunInv, InDegreeExact
      <3>4. PICK T \in SUBSET InEdges(dag, t) : T = {i \in InEdges(dag, t) : ~(Fired(i)')}
        OBVIOUS
      <3>5. Cardinality(T) = 0
        BY <1>2, <3>1, <3>2, <3>3, <3>4 DEF RunInv, InDegreeExact, InEdges
      <3>6. T = {}
        BY <3>5, EdgeSetsFinite DEF RunInv, TypeOK
      <3> QED  BY <1>2, <3>2, <3>4, <3>6 DEF Fired, ParentIds
    <2>4. \A p \in ParentIds(dag, t) : batchOf[p] <= batch
      <3>1. \A p \in DOMAIN outputs : p \in Started
        BY DEF RunInv, TypeOK, StageInv, Started
      <3> QED  BY <1>3, <2>3, <3>1 DEF BatchInv, Inflight, Started
    <2> QED  BY <1>2, <2>1, <2>2, <2>4 DEF DueNow
  <1>5. ASSUME NEW t \in ready PROVE DueNow(t)'
    BY <1>2 DEF BatchInv, DueNow
  <1> QED  BY <1>2, <1>3, <1>4, <1>5 DEF BatchInv, BatchIsDepth

LEMMA BatchInductive ==
  ASSUME RunInv, BatchInv, [Next]_vars
  PROVE  BatchInv'
  <1>1. ASSUME NEW n \in N, Send(n) PROVE BatchInv'
    <2>1. Started' = Started /\ Inflight' = Inflight
      BY <1>1 DEF Send, Started, Inflight, N, RunInv, TypeOK
    <2> QED  BY <1>1, <2>1, QuietBatch DEF Send, history
  <1>2. ASSUME NEW r, Return(r), UNCHANGED <<dag, batch, batchOf>> PROVE BatchInv'
    <2>1. Started' = Started /\ pc' = "returned"
      BY <1>2 DEF Return, Started, Inflight, N, RunInv, TypeOK
    <2> QED  BY <1>2, <2>1, QuietBatch DEF Live
  <1>3. ASSUME Finish \/ \E n \in N : CompleteErr(n) PROVE BatchInv'
    BY <1>2, <1>3 DEF Finish, CompleteErr, Fail, history
  <1>4. ASSUME NEW n \in N, ActorStep(n) PROVE BatchInv'
    <2>1. UNCHANGED <<dag, batch, batchOf, fut, ready>> /\ (pc' = pc \/ pc' = "aborted")
      BY <1>4 DEF ActorStep, Recv, Execute, Panic, Stop, history
    <2>2. Started' = Started /\ Inflight' = Inflight
      BY <2>1 DEF Started, Inflight, N
    <2> QED  BY <2>1, <2>2, QuietBatch DEF Live
  <1>5. CASE UNCHANGED vars
    BY <1>5, QuietBatch DEF vars, Started, Inflight, N
  <1> QED  BY <1>1, <1>3, <1>4, <1>5, NextBatchBatch, DispatchBatch, CompleteOkBatch DEF Next, RunStep

\* A node runs in the batch right after the latest batch of its parents: run
\* needs as many batches as the graph is deep, whatever its size.
THEOREM BatchesAreDepth == Spec => []BatchIsDepth
  <1>1. Init => BatchInv
    <2> SUFFICES ASSUME Init PROVE BatchInv
      OBVIOUS
    <2>1. /\ pc = "poll" /\ batch = 0 /\ Started = {} /\ Inflight = {}
          /\ \A n \in ready : ParentIds(dag, n) = {}
      BY DEF Init, Started, Inflight, ParentIds
    <2> QED  BY <2>1 DEF BatchInv, BatchIsDepth, DueNow, Round
  <1>2. BatchInv => BatchIsDepth
    BY DEF BatchInv
  <1> QED  BY <1>1, <1>2, BatchInductive, RunInvariant, PTL DEF Spec
-----------------------------------------------------------------------------
(* Why run comes to an end: every step of run and its actors uses up work, *)
(* and while run awaits something, somebody can take a step.               *)

\* The steps the future and the actor of a node may still take, a batch counted
\* with every dispatched node
FutureWork(n) ==
  CASE fut[n] = "none" -> 5 [] fut[n] = "created" -> 4 [] fut[n] = "sent" -> 1 [] OTHER -> 0
ActorWork(n) ==
  CASE actor[n] = "mail" -> 3 [] actor[n] = "busy" -> 2 [] actor[n] = "idle" -> 1 [] OTHER -> 0

Work == UNION {{n} \X (1..(FutureWork(n) + ActorWork(n))) : n \in N}

Place ==
  CASE pc = "poll" -> 3 [] pc = "dispatch" -> 2 [] pc = "returned" -> 1 [] OTHER -> 0

\* A bound for the steps that are left
StepsLeft == 2 * Cardinality(Work) + Place

\* A call that was sent has an answer or an actor that works on it, and the loop
\* over the ready nodes has a node to take
CallInv ==
  /\ \A n \in N : fut[n] = "sent" /\ reply[n] = NoReply => actor[n] \in {"mail", "busy"}
  /\ pc = "dispatch" => ready # {}

\* Somebody can go on: the run future with the guard of one of its steps, or an
\* actor that has a message
SomebodyGoesOn ==
  \/ pc = "dispatch" /\ ready # {}
  \/ pc = "poll" /\ Inflight = {}
  \/ pc = "poll" /\ \E n \in N : fut[n] = "created"
  \/ pc = "poll" /\ \E n \in N : fut[n] = "sent" /\ reply[n].kind \in {"ok", "err"}
  \/ \E n \in N : actor[n] \in {"mail", "busy"}

\* Sets of places in finitely many intervals are finite
LEMMA WorkFinite ==
  ASSUME TypeOK
  PROVE  IsFiniteSet(Work) /\ Cardinality(Work) \in Nat
  <1>1. IsFiniteSet(N) /\ IsFiniteSet(1..8)
    <2>1. IsFiniteSet(N)
      BY DagFacts DEF TypeOK
    <2>2. 1 \in Int /\ 8 \in Int
      OBVIOUS
    <2>3. IsFiniteSet(1..8)
      BY <2>2, FS_Interval, Zenon
    <2> QED  BY <2>1, <2>3
  <1>2. IsFiniteSet(N \X (1..8))
    BY <1>1, FS_Product
  <1>3. \A n \in N : FutureWork(n) + ActorWork(n) \in 0..8
    BY DEF FutureWork, ActorWork
  <1>4. Work \in SUBSET (N \X (1..8))
    BY <1>3 DEF Work
  <1>5. IsFiniteSet(Work)
    BY <1>2, <1>4, FS_Subset
  <1> QED  BY <1>5, FS_CardinalityType

\* No node has more work than before
NoMoreWork ==
  \A n \in N : FutureWork(n)' + ActorWork(n)' <= FutureWork(n) + ActorWork(n)

LEMMA WorkShrinks ==
  ASSUME TypeOK, dag' = dag, NoMoreWork
  PROVE  /\ Cardinality(Work') \in Nat /\ Cardinality(Work') <= Cardinality(Work)
         /\ (\E n \in N : FutureWork(n)' + ActorWork(n)' < FutureWork(n) + ActorWork(n))
              => Cardinality(Work') < Cardinality(Work)
  <1>1. N' = N
    BY DEF N
  <1>2. \A n \in N : /\ FutureWork(n) + ActorWork(n) \in 0..8
                    /\ FutureWork(n)' + ActorWork(n)' \in 0..8
    BY DEF FutureWork, ActorWork
  <1>3. Work' \in SUBSET Work
    BY <1>1, <1>2 DEF Work, NoMoreWork
  <1>4. IsFiniteSet(Work) /\ Cardinality(Work) \in Nat
    BY WorkFinite
  <1>5. IsFiniteSet(Work') /\ Cardinality(Work') <= Cardinality(Work)
    BY <1>3, <1>4, FS_Subset
  <1>6. Cardinality(Work') \in Nat
    BY <1>5, FS_CardinalityType
  <1>7. ASSUME NEW n \in N, FutureWork(n)' + ActorWork(n)' < FutureWork(n) + ActorWork(n)
        PROVE  Cardinality(Work') # Cardinality(Work)
    <2>1. PICK w \in Nat : w = FutureWork(n) + ActorWork(n)
      BY <1>2
    <2>2. <<n, w>> \in Work
      BY <1>2, <1>7, <2>1 DEF Work
    <2>3. <<n, w>> \notin Work'
      BY <1>1, <1>2, <1>7, <2>1 DEF Work
    <2> QED  BY <1>3, <1>4, <2>2, <2>3, FS_Subset
  <1> QED  BY <1>4, <1>5, <1>6, <1>7

\* A step of one node's future or actor
LEMMA NodeUsesWork ==
  ASSUME TypeOK, dag' = dag, NEW n \in N,
         fut' = [fut EXCEPT ![n] = fut'[n]], actor' = [actor EXCEPT ![n] = actor'[n]],
         FutureWork(n)' + ActorWork(n)' < FutureWork(n) + ActorWork(n), Place' <= Place + 1
  PROVE  StepsLeft' < StepsLeft
  <1>1. \A m \in N : m # n => FutureWork(m)' + ActorWork(m)' = FutureWork(m) + ActorWork(m)
    BY DEF FutureWork, ActorWork, TypeOK
  <1>2. \A m \in N : FutureWork(m) + ActorWork(m) \in Nat /\ FutureWork(m)' + ActorWork(m)' \in Nat
    BY DEF FutureWork, ActorWork
  <1>3. NoMoreWork
    BY <1>1, <1>2 DEF NoMoreWork
  <1>4. /\ Cardinality(Work') \in Nat /\ Cardinality(Work) \in Nat
        /\ Cardinality(Work') < Cardinality(Work)
    BY <1>3, WorkShrinks, WorkFinite
  <1>5. Place \in Nat /\ Place' \in Nat
    BY DEF Place
  <1> QED  BY <1>4, <1>5 DEF StepsLeft

\* A step of run from one place to a lower one
LEMMA PlaceUsesWork ==
  ASSUME TypeOK, dag' = dag, NoMoreWork, Place' < Place
  PROVE  StepsLeft' < StepsLeft
  <1>1. /\ Cardinality(Work') \in Nat /\ Cardinality(Work) \in Nat
        /\ Cardinality(Work') <= Cardinality(Work)
    BY WorkShrinks, WorkFinite
  <1>2. Place \in Nat /\ Place' \in Nat
    BY DEF Place
  <1> QED  BY <1>1, <1>2 DEF StepsLeft

LEMMA StepUsesWork ==
  ASSUME RunInv, Next
  PROVE  StepsLeft' < StepsLeft
  <1> USE DEF RunInv
  <1>1. CASE NextBatch
    <2>1. dag' = dag /\ fut' = fut /\ actor' = actor /\ pc = "poll" /\ pc' = "dispatch"
      BY <1>1 DEF NextBatch
    <2>2. NoMoreWork
      BY <2>1 DEF NoMoreWork, FutureWork, ActorWork
    <2> QED  BY <2>1, <2>2, PlaceUsesWork DEF Place
  <1>2. CASE Finish \/ \E n \in N : CompleteErr(n)
    <2>1. /\ dag' = dag /\ actor' = actor /\ pc = "poll" /\ pc' = "returned"
          /\ fut' = [m \in N |-> IF m \in Inflight THEN "dropped" ELSE fut[m]]
      BY <1>2 DEF Finish, CompleteErr, Fail, Return
    <2>2. NoMoreWork
      BY <2>1 DEF NoMoreWork, FutureWork, ActorWork
    <2> QED  BY <2>1, <2>2, PlaceUsesWork DEF Place
  <1>3. ASSUME NEW n \in N, Dispatch(n) PROVE StepsLeft' < StepsLeft
    <2>1. /\ dag' = dag /\ actor' = actor /\ fut' = [fut EXCEPT ![n] = "created"]
          /\ pc = "dispatch" /\ pc' \in {"poll", "dispatch"} /\ n \in ready
      BY <1>3 DEF Dispatch, AfterTurn
    <2>2. fut[n] = "none" /\ fut'[n] = "created" /\ actor'[n] = actor[n]
      BY <2>1 DEF InDegreeExact, Started, TypeOK
    <2>3. FutureWork(n)' + ActorWork(n)' < FutureWork(n) + ActorWork(n)
      BY <2>2 DEF FutureWork, ActorWork
    <2>4. Place' <= Place + 1
      BY <2>1 DEF Place
    <2>5. actor' = [actor EXCEPT ![n] = actor'[n]] /\ fut' = [fut EXCEPT ![n] = fut'[n]]
      BY <2>1, <2>2 DEF TypeOK
    <2> QED  BY <2>1, <2>3, <2>4, <2>5, NodeUsesWork
  <1>4. ASSUME NEW n \in N, Send(n) PROVE StepsLeft' < StepsLeft
    <2>1. /\ dag' = dag /\ pc' = pc /\ fut' = [fut EXCEPT ![n] = "sent"] /\ fut[n] = "created"
          /\ actor[n] = "idle" /\ actor' = [actor EXCEPT ![n] = "mail"]
      BY <1>4 DEF Send, StageInv
    <2>2. fut'[n] = "sent" /\ actor'[n] = "mail"
      BY <2>1 DEF TypeOK
    <2>3. FutureWork(n)' + ActorWork(n)' < FutureWork(n) + ActorWork(n)
      BY <2>1, <2>2 DEF FutureWork, ActorWork
    <2>4. Place' <= Place + 1
      BY <2>1 DEF Place
    <2> QED  BY <2>1, <2>2, <2>3, <2>4, NodeUsesWork
  <1>5. ASSUME NEW n \in N, CompleteOk(n) PROVE StepsLeft' < StepsLeft
    <2>1. /\ dag' = dag /\ pc' = pc /\ actor' = actor
          /\ fut' = [fut EXCEPT ![n] = "done"] /\ fut[n] = "sent"
      BY <1>5 DEF CompleteOk
    <2>2. fut'[n] = "done" /\ actor'[n] = actor[n] /\ actor' = [actor EXCEPT ![n] = actor'[n]]
      BY <2>1 DEF TypeOK
    <2>3. FutureWork(n)' + ActorWork(n)' < FutureWork(n) + ActorWork(n)
      BY <2>1, <2>2 DEF FutureWork, ActorWork
    <2>4. Place' <= Place + 1
      BY <2>1 DEF Place
    <2> QED  BY <2>1, <2>2, <2>3, <2>4, NodeUsesWork
  <1>6. ASSUME NEW n \in N, ActorStep(n) PROVE StepsLeft' < StepsLeft
    <2>1. dag' = dag /\ fut' = fut
      BY <1>6 DEF ActorStep, Recv, Execute, Panic, Stop
    <2>2. CASE pc' = pc
      <3>1. \/ actor[n] = "mail" /\ actor' = [actor EXCEPT ![n] = "busy"]
            \/ actor[n] = "busy" /\ actor' = [actor EXCEPT ![n] = "idle"]
            \/ actor[n] = "busy" /\ actor' = [actor EXCEPT ![n] = "panicked"]
            \/ actor[n] = "idle" /\ actor' = [actor EXCEPT ![n] = "stopped"]
        BY <1>6, <2>2 DEF ActorStep, Recv, Execute, Panic, Stop
      <3>2. actor' = [actor EXCEPT ![n] = actor'[n]] /\ fut' = [fut EXCEPT ![n] = fut'[n]]
        BY <2>1, <3>1 DEF TypeOK
      <3>3. ActorWork(n)' < ActorWork(n)
        BY <3>1 DEF ActorWork, TypeOK
      <3>4. FutureWork(n)' = FutureWork(n) /\ FutureWork(n) \in Nat /\ Place' = Place /\ Place \in Nat
        BY <2>1, <2>2 DEF FutureWork, Place
      <3>5. ActorWork(n) \in Nat /\ ActorWork(n)' \in Nat
        BY DEF ActorWork
      <3>6. FutureWork(n)' + ActorWork(n)' < FutureWork(n) + ActorWork(n) /\ Place' <= Place + 1
        BY <3>3, <3>4, <3>5
      <3> QED  BY <2>1, <3>2, <3>6, NodeUsesWork
    <2>3. CASE pc' # pc
      <3>1. pc # "aborted" /\ pc' = "aborted" /\ actor' = actor
        BY <1>6, <2>3 DEF ActorStep, Recv, Execute, Panic, Stop
      <3>2. NoMoreWork
        BY <2>1, <3>1 DEF NoMoreWork, FutureWork, ActorWork
      <3>3. Place' < Place
        BY <3>1 DEF Place, TypeOK
      <3> QED  BY <2>1, <3>2, <3>3, PlaceUsesWork
    <2> QED  BY <2>2, <2>3
  <1> QED  BY <1>1, <1>2, <1>3, <1>4, <1>5, <1>6 DEF Next, RunStep

\* scheduler.rs, actor.rs: run, its actors and their panics take no more steps
\* than StepsLeft says at the start, whatever the graph; no loop turns for ever.
THEOREM BoundedWork == Spec => [](StepsLeft \in Nat) /\ [][StepsLeft' < StepsLeft]_vars
  <1>1. RunInv => StepsLeft \in Nat
    <2>1. RunInv => Cardinality(Work) \in Nat /\ Place \in Nat
      BY WorkFinite DEF RunInv, Place
    <2> QED  BY <2>1 DEF StepsLeft
  <1>2. RunInv /\ [Next]_vars => [StepsLeft' < StepsLeft]_vars
    BY StepUsesWork
  <1> QED  BY <1>1, <1>2, RunInvariant, PTL DEF Spec

\* A reply is none, a value or an error
LEMMA ReplyKinds ==
  ASSUME TypeOK, NEW n \in N
  PROVE  reply[n] = NoReply \/ reply[n].kind \in {"ok", "err"}
  BY DEF TypeOK, Replies, ReplyOk, ReplyErr

LEMMA CallInductive ==
  ASSUME RunInv, CallInv, [Next]_vars
  PROVE  CallInv'
  <1> USE DEF RunInv
  <1>1. CASE UNCHANGED vars
    BY <1>1 DEF vars, CallInv, N
  <1>2. CASE NextBatch
    BY <1>2 DEF NextBatch, CallInv, N
  <1>3. CASE Finish \/ \E n \in N : CompleteErr(n)
    <2>1. /\ dag' = dag /\ pc' = "returned"
          /\ fut' = [m \in N |-> IF m \in Inflight THEN "dropped" ELSE fut[m]]
      BY <1>3 DEF Finish, CompleteErr, Fail, Return
    <2>2. \A m \in N : fut'[m] # "sent"
      BY <2>1 DEF Inflight
    <2> QED  BY <2>1, <2>2 DEF CallInv, N
  <1>4. ASSUME NEW n \in N, Dispatch(n) PROVE CallInv'
    <2>1. /\ dag' = dag /\ actor' = actor /\ reply' = reply /\ fut' = [fut EXCEPT ![n] = "created"]
          /\ ready' = ready \ {n} /\ n \in ready /\ pc' = AfterTurn(n)
      BY <1>4 DEF Dispatch
    <2>2. pc' = "dispatch" => ready' # {}
      BY <2>1 DEF AfterTurn
    <2>3. \A m \in N : fut'[m] = "sent" => fut[m] = "sent"
      BY <2>1 DEF TypeOK
    <2> QED  BY <2>1, <2>2, <2>3 DEF CallInv, N
  <1>5. ASSUME NEW n \in N, Send(n) PROVE CallInv'
    <2>1. /\ dag' = dag /\ pc' = pc /\ pc = "poll" /\ fut' = [fut EXCEPT ![n] = "sent"]
          /\ actor' = [actor EXCEPT ![n] = "mail"] /\ reply' = reply
      BY <1>5 DEF Send, StageInv
    <2> QED  BY <2>1 DEF CallInv, N, TypeOK
  <1>6. ASSUME NEW n \in N, CompleteOk(n) PROVE CallInv'
    <2>1. /\ dag' = dag /\ pc' = pc /\ pc = "poll" /\ fut' = [fut EXCEPT ![n] = "done"]
          /\ actor' = actor /\ reply' = reply
      BY <1>6 DEF CompleteOk
    <2> QED  BY <2>1 DEF CallInv, N, TypeOK
  <1>7. ASSUME NEW n \in N, ActorStep(n) PROVE CallInv'
    <2>1. dag' = dag /\ fut' = fut /\ ready' = ready
      BY <1>7 DEF ActorStep, Recv, Execute, Panic, Stop
    <2>2. pc' = "dispatch" => pc = "dispatch"
      BY <1>7 DEF ActorStep, Recv, Execute, Panic, Stop
    <2>3. ASSUME NEW r, r # NoReply, Answer(n, r), \A m \in N : m # n => actor'[m] = actor[m]
          PROVE  CallInv'
      <3>1. \A m \in N : fut[m] = "sent" /\ reply'[m] = NoReply => m # n /\ reply[m] = NoReply
        BY <2>3 DEF Answer, TypeOK
      <3> QED  BY <2>1, <2>2, <2>3, <3>1 DEF CallInv, N
    <2>4. CASE Recv(n)
      <3>1. actor' = [actor EXCEPT ![n] = "busy"] /\ reply' = reply
        BY <2>4 DEF Recv
      <3> QED  BY <2>1, <2>2, <3>1 DEF CallInv, N, TypeOK
    <2>5. CASE Execute(n)
      <3>1. PICK r \in Outcomes(n) : Answer(n, r)
        BY <2>5 DEF Execute
      <3>2. r # NoReply
        BY DEF Outcomes, ReplyOk, ReplyErr, NoReply
      <3>3. \A m \in N : m # n => actor'[m] = actor[m]
        BY <2>5 DEF Execute, TypeOK
      <3> QED  BY <2>3, <3>1, <3>2, <3>3
    <2>6. CASE Panic(n)
      <3>1. CASE PanicAborts
        BY <2>1, <2>2, <2>6, <3>1 DEF Panic, CallInv, N
      <3>2. CASE ~PanicAborts
        <4>1. Answer(n, ReplyErr("reply dropped")) /\ actor' = [actor EXCEPT ![n] = "panicked"]
          BY <2>6, <3>2 DEF Panic, DropReply
        <4>2. ReplyErr("reply dropped") # NoReply
          BY DEF ReplyErr, NoReply
        <4>3. \A m \in N : m # n => actor'[m] = actor[m]
          BY <4>1 DEF TypeOK
        <4> QED  BY <2>3, <4>1, <4>2, <4>3
      <3> QED  BY <3>1, <3>2
    <2>7. CASE Stop(n)
      <3>1. actor' = [actor EXCEPT ![n] = "stopped"] /\ reply' = reply /\ actor[n] = "idle"
        BY <2>7 DEF Stop
      <3> QED  BY <2>1, <2>2, <3>1 DEF CallInv, N, TypeOK
    <2> QED  BY <1>7, <2>4, <2>5, <2>6, <2>7 DEF ActorStep
  <1> QED  BY <1>1, <1>2, <1>3, <1>4, <1>5, <1>6, <1>7 DEF Next, RunStep

\* scheduler.rs: run never waits for an answer that nobody will send, also when
\* actors panic: as long as it has not returned, run or an actor can go on.
THEOREM NeverStuck == Spec => [](pc \in {"poll", "dispatch"} => SomebodyGoesOn)
  <1>1. Init => CallInv
    BY DEF Init, CallInv
  <1>2. RunInv /\ CallInv => (pc \in {"poll", "dispatch"} => SomebodyGoesOn)
    <2> SUFFICES ASSUME RunInv, CallInv, pc = "poll", NEW n \in Inflight PROVE SomebodyGoesOn
      BY DEF CallInv, SomebodyGoesOn
    <2>1. n \in N /\ fut[n] \in {"created", "sent"}
      BY DEF Inflight
    <2>2. reply[n] = NoReply \/ reply[n].kind \in {"ok", "err"}
      BY <2>1, ReplyKinds DEF RunInv
    <2> QED  BY <2>1, <2>2 DEF CallInv, SomebodyGoesOn
  <1> QED  BY <1>1, <1>2, CallInductive, RunInvariant, PTL DEF Spec
=============================================================================
