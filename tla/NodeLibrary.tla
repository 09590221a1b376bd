---------------------------- MODULE NodeLibrary ----------------------------
(***************************************************************************)
(* kernelflow-nodes: the registry of node kinds, its check of the wiring   *)
(* and what the five kinds compute, used the way examples/eth_threshold.rs *)
(* uses them.  A composer validates every edge of a workflow, creates the  *)
(* nodes and runs them, parents first; Scheduler::run gives each node its  *)
(* parents' outputs and an empty payload.                                  *)
(*                                                                         *)
(* A JSON value is tagged with its type.  Numbers are integers in a unit   *)
(* small enough for the averages median takes.                             *)
(***************************************************************************)
EXTENDS Integers, Sequences, FiniteSets, FiniteSetsExt, Functions

CONSTANTS
  Wiring,      \* the edges of the workflow, in the order they are validated: <<from, to>>
  Json,        \* the JSON values that occur in arguments and answers
  Workflows,   \* the kinds and arguments of its nodes, in the order they run
  Bodies,      \* what an HTTP server may answer, parsed as JSON or kept as a string
  HostsIn(_)   \* the allowlist entries that occur in a url

Null == [t |-> "null"]
Num(n) == [t |-> "num", n |-> n]
Str(s) == [t |-> "str", s |-> s]
Bool(b) == [t |-> "bool", b |-> b]
Obj(f) == [t |-> "obj", f |-> f]
Arr(S) == [t |-> "arr", e |-> S]

\* Value::as_f64 and Value::get; an Option is a set with at most one element
AsF64(v) == IF v.t = "num" THEN {v.n} ELSE {}
Get(v, key) == IF v.t = "obj" /\ key \in DOMAIN v.f THEN {v.f[key]} ELSE {}

\* Edges lead from earlier to later nodes of the workflow, as a builder that only
\* accepts acyclic graphs orders them; the numbers in use fit the unit
ASSUME NodeLibraryAssumption ==
  /\ Wiring \in Seq((Nat \ {0}) \X (Nat \ {0}))
  /\ \A i \in DOMAIN Wiring : Wiring[i][1] < Wiring[i][2]
  /\ Workflows \subseteq Seq([kind : STRING, args : Json])
  /\ \A f \in Workflows, i \in DOMAIN Wiring : Wiring[i][2] \in DOMAIN f
  /\ Bodies \subseteq Json
  /\ \A v \in Json : \A x \in {v} \cup Get(v, "value") \cup Get(v, "threshold") : AsF64(x) \subseteq Int

\* hash_json
Hash(v) == <<"sha256", v>>

Done(v) == [kind |-> "ok", value |-> v]
Fail(e) == [kind |-> "err", error |-> e]
-----------------------------------------------------------------------------
(* The node kinds: what `execute` may return *)

ConstantNode(args) == {Done(args)}

Sha256Node(payload) == {Done(Str(Hash(payload)))}

\* The number a parent's output stands for: itself or its field "value"
Numeric(v) == IF AsF64(v) # {} THEN AsF64(v) ELSE UNION {AsF64(x) : x \in Get(v, "value")}

NumberOf(v) == CHOOSE n \in Numeric(v) : TRUE

\* The elements of a finite set in the order of their keys
SortedBy(key) ==
  LET S == DOMAIN key
      I == 1..Cardinality(S)
  IN CHOOSE q \in Bijection(I, S) : \A i, j \in I : i < j => key[q[i]] <= key[q[j]]

\* The numbers of the parents, in the order of their ids
Nums(parents) ==
  LET ids == SortedBy([p \in {q \in DOMAIN parents : Numeric(parents[q]) # {}} |-> p])
  IN [i \in DOMAIN ids |-> NumberOf(parents[ids[i]])]

\* Mutant: the numbers are left in the order of the parents' ids
InIdOrder(s) == s

\* `nums.sort_by`
Ascending(s) == LET q == SortedBy(s) IN [i \in DOMAIN s |-> s[q[i]]]

\* Mutant: the upper of the two middle values
MiddleUpper(s) == s[Len(s) \div 2 + 1]

Middle(s) ==
  LET n == Len(s) IN IF n % 2 = 1 THEN s[n \div 2 + 1] ELSE (s[n \div 2] + s[n \div 2 + 1]) \div 2

\* Parents without a number are left out
MedianNode(parents) ==
  IF Nums(parents) = << >> THEN {Fail("InvalidInput")}
  ELSE {Done(Num(Middle(Ascending(Nums(parents)))))}

Compare(op, n, threshold) ==
  CASE op = "gt" -> n > threshold
    [] op = "gte" -> n >= threshold
    [] op = "lt" -> n < threshold
    [] op = "lte" -> n <= threshold
    [] op = "eq" -> n = threshold

\* The first parent's output, or else the payload, must be a number itself
ThresholdNode(args, payload, parents) ==
  LET first == {parents[p] : p \in {q \in DOMAIN parents : \A r \in DOMAIN parents : q <= r}}
      fromParent == UNION {AsF64(v) : v \in first}
      numbers == IF fromParent # {} THEN fromParent ELSE AsF64(payload)
  IN IF numbers = {} THEN {Fail("InvalidInput")}
     ELSE {Done(Obj([ok |-> Bool(Compare(args.f.op.s, n, args.f.threshold.n)), value |-> Num(n)])) : n \in numbers}

\* Without an allowlist every host is allowed; a null allowlist is none
Allowlist(args) == UNION {v.e : v \in {w \in Get(args, "allowlist") : w.t = "arr"}}
Allowed(args) == Allowlist(args) = {} \/ Allowlist(args) \cap HostsIn(args.f.url.s) # {}

HttpFetchNode(args) ==
  IF ~Allowed(args) THEN {Fail("InvalidInput")}
  ELSE {Done(b) : b \in Bodies} \cup {Fail("Network")}

Execute(node, payload, parents) ==
  CASE node.kind = "constant" -> ConstantNode(node.args)
    [] node.kind = "sha256" -> Sha256Node(payload)
    [] node.kind = "http_fetch" -> HttpFetchNode(node.args)
    [] node.kind = "median" -> MedianNode(parents)
    [] node.kind = "threshold" -> ThresholdNode(node.args, payload, parents)
-----------------------------------------------------------------------------
(* The registry *)

Sig(input, output) == [input |-> input, output |-> output]

\* The descriptors the modules of the standard library register
ConstantDescriptor == Sig("Json", "Json")
Sha256Descriptor == Sig("Json", "String")
HttpFetchDescriptor == Sig("Json", "Json")
MedianDescriptor == Sig("Number", "Number")
ThresholdDescriptor == Sig("Number", "Object")

\* NodeRegistry::with_stdlib
Stdlib ==
  [constant |-> ConstantDescriptor, sha256 |-> Sha256Descriptor, http_fetch |-> HttpFetchDescriptor,
   median |-> MedianDescriptor, threshold |-> ThresholdDescriptor]

\* Mutant: an object passes for anything
AssignableObjects(from, to) == from \in {"Json", "Object"} \/ to = "Json" \/ from = to

\* assignable: Json is the universal "any"
Assignable(from, to) == from = "Json" \/ to = "Json" \/ from = to

\* validate_edge
ValidateEdge(producer, consumer) ==
  IF {producer, consumer} \subseteq DOMAIN Stdlib
  THEN IF Assignable(Stdlib[producer].output, Stdlib[consumer].input) THEN "ok" ELSE "InvalidInput"
  ELSE "NodeNotFound"

\* The args threshold and http_fetch can be created from
Ops == {"gt", "gte", "lt", "lte", "eq"}
HasField(args, key, type) == \E v \in Get(args, key) : v.t = type
ParsesThreshold(args) == HasField(args, "threshold", "num") /\ HasField(args, "op", "str") /\ args.f.op.s \in Ops
ParsesHttp(args) ==
  HasField(args, "url", "str") /\ \A v \in Get(args, "allowlist") : v.t \in {"null", "arr"}

\* instantiate
Instantiate(node) ==
  CASE node.kind \notin DOMAIN Stdlib -> "NodeNotFound"
    [] node.kind = "threshold" /\ ~ParsesThreshold(node.args) -> "InvalidInput"
    [] node.kind = "http_fetch" /\ ~ParsesHttp(node.args) -> "InvalidInput"
    [] OTHER -> "ok"
-----------------------------------------------------------------------------
VARIABLES
  flow,     \* the workflow being composed
  edge,     \* how many edges have been validated
  made,     \* how many nodes have been created
  outputs,  \* the outputs of the nodes that have run, in the order of their ids
  status    \* Running, or the error that ended it and where: <<stage, error, ...>>

vars == <<flow, edge, made, outputs, status>>

Running == << >>

Init ==
  /\ flow \in Workflows
  /\ edge = 0
  /\ made = 0
  /\ outputs = << >>
  /\ status = Running

\* Composition-time validation of the next edge
Validate ==
  LET e == Wiring[edge + 1]
      verdict == ValidateEdge(flow[e[1]].kind, flow[e[2]].kind)
  IN /\ status = Running
     /\ edge < Len(Wiring)
     /\ IF verdict = "ok" THEN edge' = edge + 1 /\ UNCHANGED status
        ELSE status' = <<"validate", verdict>> /\ UNCHANGED edge
     /\ UNCHANGED <<flow, made, outputs>>

\* The next node is created from its arguments
Make ==
  /\ status = Running
  /\ edge = Len(Wiring)
  /\ made < Len(flow)
  /\ LET verdict == Instantiate(flow[made + 1]) IN
       IF verdict = "ok" THEN made' = made + 1 /\ UNCHANGED status
       ELSE status' = <<"instantiate", verdict>> /\ UNCHANGED made
  /\ UNCHANGED <<flow, edge, outputs>>

ParentsOf(n) == {Wiring[i][1] : i \in {j \in DOMAIN Wiring : Wiring[j][2] = n}}

\* The next node runs on its parents' outputs and, as run builds NodeInput, on
\* the payload Null; an error ends the workflow
RunNode ==
  LET n == Len(outputs) + 1 IN
  /\ status = Running
  /\ edge = Len(Wiring) /\ made = Len(flow)
  /\ n <= Len(flow)
  /\ \E r \in Execute(flow[n], Null, [p \in ParentsOf(n) |-> outputs[p]]) :
       IF r.kind = "ok" THEN outputs' = Append(outputs, r.value) /\ UNCHANGED status
       ELSE status' = <<"execute", r.error, n>> /\ UNCHANGED outputs
  /\ UNCHANGED <<flow, edge, made>>

Next == Validate \/ Make \/ RunNode

Spec == Init /\ [][Next]_vars
-----------------------------------------------------------------------------
\* Why the wiring is validated before execution: a node that rejects its input
\* at run time has no parents, has a parent declared as Json ("any"), or is an
\* http_fetch that refuses its host.  Concretely typed edges never fail.
ValidatedWiringRuns ==
  \A n \in DOMAIN flow :
    status = <<"execute", "InvalidInput", n>> =>
      \/ flow[n].kind = "http_fetch"
      \/ ParentsOf(n) = {}
      \/ \E p \in ParentsOf(n) : Stdlib[flow[p].kind].output = "Json"

\* The numbers a node's parents sent, by parent
Sent(n) ==
  LET ps == {p \in ParentsOf(n) : Numeric(outputs[p]) # {}} IN
  [p \in ps |-> NumberOf(outputs[p])]

\* x splits the numbers in halves: no more than half of them on either side
Splits(f, x) ==
  /\ 2 * Cardinality({p \in DOMAIN f : f[p] < x}) <= Cardinality(DOMAIN f)
  /\ 2 * Cardinality({p \in DOMAIN f : f[p] > x}) <= Cardinality(DOMAIN f)

\* Median against its definition: the midpoint of all values that split the
\* numeric parents in halves (exact where the unit allows it).  Neither the ids
\* nor parents without a number matter.
MedianCorrect ==
  \A n \in DOMAIN outputs :
    flow[n].kind = "median" =>
      LET f == Sent(n)
          values == {f[p] : p \in DOMAIN f}
          split == {x \in Min(values)..Max(values) : Splits(f, x)}
      IN outputs[n].n = (Min(split) + Max(split)) \div 2

\* The canonical workflow (prices -> median -> threshold): with an odd number
\* of prices it says ok exactly when more than half of the prices are above
\* the threshold, so no minority of sources decides.
MajorityDecides ==
  \A m, t \in DOMAIN outputs :
    (/\ flow[m].kind = "median" /\ flow[t].kind = "threshold" /\ ParentsOf(t) = {m}
     /\ flow[t].args.f.op.s = "gt" /\ Cardinality(DOMAIN Sent(m)) % 2 = 1) =>
      LET f == Sent(m) IN
      outputs[t].f.ok.b <=>
        2 * Cardinality({p \in DOMAIN f : f[p] > flow[t].args.f.threshold.n}) > Cardinality(DOMAIN f)
=============================================================================
