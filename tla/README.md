# KernelFlow in TLA+

A verification project for KernelFlow, a Rust workflow engine: a graph of nodes
is validated, executed by one actor per node under a resilience layer, its
progress is broadcast as events, its results are stored and attested on a
chain, and tasks are delegated to operators. The
modules here are translated from the source; TLC checks them on small
instances, and TLAPS proves the most important properties for every instance.

## 1. The system

| Component | State it keeps | Operations | Hard parts |
|---|---|---|---|
| core: dag (`dag.rs`) | nodes, edge list | `node`, `edge`, `build`, `topo_sort`, `parents`, `children`, `evaluate` | parallel edges, dangling references, cycles, `usize` underflow |
| core: node, event, hash, error | none | data types, `hash_json` | the hash must not depend on map order |
| core: capability | none | `satisfies`, `Reservation` | RAII that is documented and not implemented |
| scheduler: run and actors (`scheduler.rs`, `actor.rs`) | in-degrees, ready list, outputs, futures in flight, mailboxes, reply channels | `run`, `spawn`, `call` | concurrent completions, early return, panics, tasks that outlive `run` |
| scheduler: resilience (`resilience.rs`) | limiter, breaker | `run`, `allow`, `on_success`, `on_failure` | callers interleave between two locks of the breaker; retries, timeouts, `u8` counter |
| matchmaker (`operator.rs`, `strategy.rs`) | operators with capacity in flight and reputation | `register`, `deregister`, `snapshot`, `reserve`, `release`, `record_outcome`, `select` | decisions on a stale snapshot, operators that come back, lost reservations |
| nodes library | descriptor and factory maps | `register`, `instantiate`, `validate_edge`, the five node kinds | which parent a node reads, `Json` as "any" |
| storage | RocksDB databases with column families, one per shard | `open`, `put`, `get`, `shard_for` | tasks on the blocking pool that outlive their callers, crashes, another number of shards (or zero) after a restart |
| api | a broadcast sender, one receiver per subscription | `health`, `version`, `events` subscription | subscribers that fall behind a bounded channel, idle ones, ones that leave |
| attest, anchor program | a signing key; one account per workflow | `sign`, `submit`, `submit_attestation` | repeated, reordered and lost transactions, several operators with different hashes |
| p2p | a libp2p swarm and the peers it knows | `new`, `publish`, `run` | `run` consumes the node, and nothing else polls the swarm |
| node binary | a broadcast sender for the API | start-up | it starts no scheduler |
| ai, sandbox | none (clients of external engines) | `synthesize`, `execute` | external |

**Interaction.** `DagBuilder::build` hands a `Dag` to `Scheduler::run`. `run`
spawns an actor per node (a tokio task with an mpsc mailbox), calls each one
once through `NodeActor::call` (message with a oneshot reply channel) and polls
the calls in a `FuturesUnordered`. All actors of a run share one
`ResilientExecutor`. `run` sends `KernelEvent`s on a broadcast channel; the
GraphQL API subscribes to such a channel. The matchmaker is a library of its own:
clients select, reserve, release and record through a shared `RwLock`. Storage,
attestation and p2p are libraries that nothing in the repository calls yet; their
modules model the calls their interfaces allow.

**What makes each part correct.** A graph `build` accepts is acyclic and closed,
and `topo_sort` orders it. `run` gives every node the outputs of all its parents,
executes a node exactly when all edges into it fired, returns a hash that the
graph alone determines, says truthfully how it ended and leaves no task behind.
The breaker opens on consecutive failures only, the retry loop is bounded. No operator is
committed beyond its capacity, and capacity is counted exactly. A subscriber sees
a stretch of the event log without a gap, and one that has read all there is knows
how far every run it follows has come. What `put`
acknowledged is found by every later `get`, and the first attestation of a
workflow stands.

## 2. The modules

| Module | Models |
|---|---|
| `Dag` | graphs and edge conditions (`dag.rs`), no state |
| `DagBuilder` | `DagBuilder` and `topo_sort`, one inner-loop edge per step |
| `Scheduler` | one call of `Scheduler::run` and its actors |
| `Workflow` | abstract: what one run promises, without batches, futures, actors and counters; `Scheduler` implements it |
| `EventBus` | the broadcast channel, the runs that send on it and the API's subscriptions |
| `Resilience` | `ResilientExecutor::run` and `CircuitBreaker`, any number of callers |
| `Matchmaker` | `OperatorRegistry`, `ReputationMatchmaker` and delegating clients |
| `NodeLibrary` | the node registry, its wiring check and the five node kinds |
| `Storage` | `ShardedStore` and `Store`, their tasks, dropped callers and crashes |
| `Attestation` | `Attestor`, the stub `SolanaAttestor` and the Anchor program |
| `P2p` | `P2pNode` |
| `MCDagBuilder`, `MCScheduler`, `MCMatchmaker`, `MCNodeLibrary`, `MCEventBus`, `MCStorage` | the constants of the TLC instances |
| `DagBuilderProofs`, `SchedulerProofs`, `ResilienceProofs`, `MatchmakerProofs`, `NodeLibraryProofs`, `EventBusProofs`, `StorageProofs`, `AttestationProofs` | the theorems |

`Dag` is extended by `DagBuilder` and by `Scheduler`: what `BuildCorrect` shows
of an accepted graph (`RefsKnown`, `Acyclic`) is what `SchedulerAssumption`
assumes of the graphs `run` is called on. `Scheduler` instantiates `Workflow`
(`ImplementsWorkflow`). `EventBus` takes from `Scheduler` only that a run sends
finitely many events in a fixed order and never waits for the channel; that the
events a run sends are in a causal order is `Scheduler!EventsCausal`, and that each
client sees them in that order is `EventBus!WorkflowInOrder`. Definitions whose comment starts with
"Mutant" are deliberately wrong variants of the definition that follows them:
each shows that a property notices that mistake in the code. They are not part
of any specification.

### Dag and DagBuilder
Node ids are numbers that stand for the strings in `BTreeMap` order. The edges
are a sequence, as in the code: the same two nodes may be joined by several
edges, and an edge is identified by its position. A JSON output is a function
from the JSON pointers that resolve in it. `AddNode` and `AddEdge` are the
builder's methods in any order, `Build` is the reference check, and `CountEdges`,
`Pop`, `Relax`, `Skip`, `EndScan`, `Return` are `topo_sort`, called by `build`.
`indeg` is keyed by nodes and edge targets, as `entry().or_default()` makes it.
`DeserializedSpec` starts `topo_sort` on graphs that did not pass `build`.

A finite graph has a cycle iff some non-empty set of nodes is self-supporting
(every member has a parent inside it). `Acyclic` is stated this way because it
needs no paths, neither in TLC nor in the proofs.

### Scheduler
`Init` is the state after `run`'s prologue. The run future is `NextBatch` (test
of the outer loop), `Dispatch` (one turn of `for nid in ready.drain(..)`), `Send`
(first poll of `call`), `CompleteOk`, `CompleteErr` (`inflight.next()`) and
`Finish`. An actor is `Recv`, `Execute` or `Panic`, and `Stop`. `run`'s futures
and the actors interleave freely; after `run` has returned, actors still take
and execute messages whose reply nobody waits for. What a node computes is the
constant `NodeFn` of its id, its payload and its parents' outputs: an
arbitrary deterministic function. Errors are nondeterministic. `hash_json` is
taken to be injective on values. The ready list is a set: its order only decides
the order of `NodeStarted` events, and `Dispatch` takes the nodes in any order.
The for-loop over `children` inside one completion has no await and is one step:
per target it subtracts the number of edges that fire, and pushes the target when
the count becomes zero, which the loop does at the last of these edges.
`PanicAborts` selects the panic strategy: unwinding (debug, tests) or `abort`
(the release profile).

### Workflow
One run as its caller sees it. `Complete(n)` adds the output of a node whose turn it
is (every edge into it fired), computed from the outputs of all its parents; `Fail`
ends the run with an error of a node; `Succeed` with the hash of all outputs, and
`GetStuck` when nodes are left over and it is nobody's turn. The variables are
`Scheduler`'s own `dag`, `outputs` and `result`, so the refinement mapping is the
identity and hides the rest. `Failure` is instantiated with the errors of nodes and
the dropped reply of a panicked actor: a call that fails because the mailbox is
closed would be a step `Workflow` does not allow.

### EventBus
The log is everything the channel accepted; it still holds the last `Capacity` of
it. A receiver has a position of its own. tokio's channel rounds its capacity up to
a power of two, so `Capacity` is one. Sending without a receiver is an error that
`let _ =` drops: the event is nowhere in the log. `Recv` and `Lag` are the two
outcomes of `rx.recv()` in the `while let` loop, and the loop ends at the second.
`send` returns at once, so that a subscriber cannot hold up a run: that is the shape
of the code, and no property repeats it.
A stream is polled when its client asks for more, so only `Eager` clients make
progress for certain; any client may `Close`.

### Resilience
Each caller repeats `Limit` (`limiter.check`), `Allow`, `Attempt`, `Wake`,
`SettleOk` / `SettleErr` (the second lock of the breaker). Within one `Scheduler::run` an
actor calls the executor once; the module lets callers call again because
`ResilientExecutor` is public. Time is abstract: `openUntil` is "cooling" until
the clock passes it, a timeout may hit any attempt, the limiter may regain a cell
at any time. Two history variables count failed calls in a row: `streak` since the
last success, `fresh` since the last success or reset of the breaker. The breaker
opens only when the first reaches the threshold (`TripsOnStreak`), and at the latest
when the second does (`OpensInTime`).

### Matchmaker
Each registry method takes the lock once and is one step. Clients follow the
crate's documentation: select, reserve, release, record. A client that goes away
while it holds a reservation is `Abandon`: what it held stays in flight. `Register`
is `register(Operator::new(..))`, as the documentation and the tests call it; an
`Operator` whose public `reputation` or `in_flight` was set by hand is not modelled. Reputations are exact fractions
(`Scale`), since the EWMA divides by five; differences stay far above the `1e-9`
that `select` treats as a tie. The history variable `calm` says that no operator in
use has left or registered again so far: until then the counters of every operator
that no client went away from are exactly what its clients hold (`Accounted`), and whatever happens they stay within the capacity
(`NeverOvercommitted`) and what was asked for (`NoPhantomLoad`). `Deregister` tells
nobody: a client that holds a reservation learns of it when it releases.

### NodeLibrary
The registry's `with_stdlib` (`Stdlib`), `validate_edge`, `instantiate`, and one
operator per node kind that returns what `execute` may return. `Validate`, `Make`
and `RunNode` are the composer of `examples/eth_threshold.rs`: validate every
edge, create every node (here through the registry), run them parents first. The
order in which independent nodes run is the business of `Scheduler`; the nodes are
functions of their inputs, so one order is enough here. JSON values carry their
type, numbers are integers in a unit (1/4) in which the averages of the instance are
exact; in a coarser unit `Middle` and the midpoint in `MedianCorrect` round down
alike. `SortedBy` is any order by ascending keys: equal numbers may
change places, which no answer shows. `Compare` takes "eq" as exact equality, where
`threshold.rs:65` allows `f64::EPSILON`: on the numbers of the instance the two agree. As in `Scheduler::run`, the payload is always null.

### Storage
`Call` is the synchronous part of `shard_for(key).put(..)` or `.get(..)`: the shard is
chosen and the task queued. `PutTask` and `GetTask` are the tasks, which run in any
order and may meet an I/O error; `Return` is the awaited `JoinHandle`. `Cancel` drops
the caller, whose task runs on. `Crash` ends the process with its callers and tasks
at any point; what `put_cf` wrote survives. `OpenStore` may be given another number
of shards, and with zero shards every call panics (`% 0`). A put writes its own
number, so a get tells which put it read; `seen` is the history of what had returned
when an operation was called.

### Attestation
`Sign` is `Attestor::sign` with an ideal signature. `Submit` is the stub: a health
check whose answer does not concern the program. `SubmitAttestation` is the
instruction of the Anchor program: Anchor's `init` fails the transaction if the
account of the PDA exists, and otherwise it is filled in and the event emitted. The
transactions come from clients outside the repository, which may send one again,
and the network may lose or reorder them. They carry attestations that an operator
signed; the program itself takes any workflow id and hash from any signer, and treats
them all alike.

### P2p
A node is "created" (its owner holds the `P2pNode`) or "running" (`run` has it). The
swarm accepts peers and takes in messages only while it is polled, that is while it
is running, and `publish` needs `&mut self`, that is a node that is not running.

## 3. Runs

| Run | Shows |
|---|---|
| `dag_builder` | in-degree bookkeeping, verdict and order of `build`, termination |
| `scheduler` | bookkeeping, inputs, determinism, conditions, events, result, batches, termination, no leaked task of one run, and that it implements `Workflow` |
| `resilience` | the breaker opens only on, and at the latest after, a row of failures; attempts and termination, with three callers |
| `matchmaker` | commitment stays within capacity whatever operators and clients do, and is exact until an operator in use leaves or one of its clients goes away |
| `node_library` | validated wiring runs, median and threshold match their definitions |
| `event_bus` | streams without gaps and in order, up to date when read to the end; streams never hang |
| `storage` | reads are fresh and never go back, acknowledged puts are durable, across tasks in any order, dropped callers, a crash and a restart |
| `attestation` | the first record stands, events are records, workflows do not exclude each other |
| `deserialized_dag` | *violated*: `topo_sort` may accept a cyclic graph with a dangling edge |
| `release_panic` | *violated*: with `panic = "abort"` a node's panic ends the process |
| `reconnect` | *violated*: registering again forgets what is reserved |
| `p2p` | *violated*: every order of calls the types allow publishes before a peer is known, so no event leaves a node |

A violated run checks what a comment or the README of the repository says; the
quotation is in `PROJECT.json` under `findings`.

**Bounds.**
- `dag_builder`: three ids, up to `MaxEdges` = 3 edges, repeated and dangling ones
  included: self-loops, 2- and 3-cycles, parallel edges and references that come
  later or never. One payload and one condition: neither is read by `build`.
- `scheduler`: every graph on three nodes over the joins none / always / if ok /
  both in parallel, and payloads that make a condition true, false or
  unresolvable. Three nodes give a chain, a fork, a join and a triangle, hence a
  node with two parents that complete in both orders, and one whose sibling fails.
- `resilience`: three callers and threshold 2, so that a call admitted before the
  breaker opened settles while it is open and after it was reset; three attempts,
  so that callers sleep in between while others open and reset the breaker; burst 1, so that calls are refused.
- `matchmaker`: two operators, three clients of which two compete for one CPU box
  and one needs the GPU; `MaxOutcomes` bounds the reputation arithmetic.
- `event_bus`: capacity 2, a run of three events and one of two, so that the channel
  overflows and a receiver can fall behind by one event more than it holds; one
  client that keeps reading and one that need not.
- `storage`: four operations and two starts of the process: a put overwritten by a
  put whose caller was dropped, a get that sees it, and a get after a crash with the
  same or another number of shards. One key in one column family: operations on
  different ones share no place on disk (theorem `NoLeaks`). Its hash is odd, so that
  one shard and two shards send it to different directories.
- `attestation`: two operators, workflows and hashes and three transactions: a
  repeat, a rival hash and another workflow.
- `p2p`: two nodes and a peer outside.
- `node_library`: the five-node shape of the example (three sources, a node that
  joins them, a last node); three prices, a record, a text and an HTTP fetch as
  sources, so that 0 to 3 of them are numeric and the median meets odd and even
  counts in every order; unknown kinds and malformed arguments included.

`CHECK_DEADLOCK FALSE` is set where the program really stops: a finished
`topo_sort`, a finished run or workflow, callers that all panicked, clients that are
all gone, all events delivered, all bounded operations done.

**Fairness.** `topo_sort` is a loop in the caller's thread and runs on.
`Scheduler`: the tokio runtime polls the run future and every actor that can go on
(weak fairness for each). That an execution ends is due to the timeout around
every attempt and the bounded number of attempts, which is what `Resilience`
shows (`RunReturns` there). A node that blocks its thread without ever yielding is
outside this assumption. `Resilience`: callers inside `run` are polled, timers
fire, the clock passes `open_until`. Nobody is obliged to call `run`.
`EventBus`: eager clients keep asking; nothing is assumed of the other clients nor of
the runs. `P2p`: nodes publish and run, peers
get through, messages arrive: generous assumptions, under which the promise of
propagation fails all the same.

## 4. Proofs

All theorems hold for every value of the constants that satisfies the named
assumptions (`NodeIdAssumption`, `DagBuilderAssumption`, `SchedulerAssumption`,
`ResilienceAssumption`, `MatchmakerAssumption`, `NodeLibraryAssumption`,
`EventBusAssumption`, `StorageAssumption`, `AttestationAssumption`), and TLC
evaluates these on the instances. One conjunct of `MatchmakerAssumption`,
`5^MaxOutcomes \in Nat`, follows from the one before it; it is stated because the
provers know nothing of powers.

- **DagBuilderProofs.** `InDegreeExact` says that every in-degree is the number of
  in-edges not yet relaxed. `SortInv` adds `StageInv` (where the build is, and that
  queue and output hold nodes of the graph), `SupportInv` (no member of a
  self-supporting set is ever queued or output) and `OrderInv` (each node in the
  output comes after all its parents). Each `Relax` takes exactly one edge out of
  the open set, so the cardinality drops by one. At `Return`, a full output leaves
  no node for a cycle by `SupportInv`; with a short output the nodes left over
  support each other. `BuildDecides` and `BuildOrders` follow. `KnownRefsSuffice`
  carries the same invariant over to `DeserializedSpec`: the run `deserialized_dag`
  shows that `topo_sort` alone may accept a cycle, and the theorem that only a graph
  with an unknown reference can make it do so. `BoundedSort` has a variant,
  `StepsLeft`: every step of `topo_sort` decreases a natural number that starts at
  (nodes) x (edges + 3) + 2, on cyclic graphs too.
- **SchedulerProofs.** `RunInv` joins `TypeOK`, `InDegreeExact`, `StageInv` (how
  future, actor, reply channel and outputs of a node go together) and `DataInv`
  (a dispatched node holds the outputs of all its parents, and an answer is what
  the node computes from them). `InDegreeExact` needs `StageInv` to know that a
  completing node had no output before, so that none of its edges has fired yet;
  `DataInv` needs `InDegreeExact` to know that a ready node's parents are done.
  `ResultInv` adds what `run` returned: with the sizes equal all edges fired; with
  nodes left over and all edges of completed nodes fired, these nodes would
  support each other, against `Acyclic`.
  `Refinement`: `Spec => W!Spec`. A completion maps to
  `Complete`, where `RunInv` provides that the node's inputs are the outputs of all
  its parents and that all edges into it fired; `CompleteErr` maps to `Fail`, where
  `ErrorInv` provides which errors a reply can carry; `Finish` maps to `Succeed` or
  `GetStuck`, and every other step to a stutter. `LogInv` ties the event log to the
  futures (which `NodeStarted` and `NodeCompleted` events are there, and that nothing
  follows a terminal event); `CausalLog` and `LogTellsResult` follow. `BatchInv` says
  that a ready node waits for the batch right after its latest parents'; `BatchesAreDepth` follows.
  Two theorems hold the part of termination that needs no fairness. `BoundedWork`:
  every step of run and its actors decreases `StepsLeft`, the stages that the
  futures and actors of all nodes have before them. `NeverStuck`: until `run` has
  returned, the guard of a step of `run` holds or an actor has a message, because a
  call that was sent has an answer or an actor at work (`CallInv`), also after
  panics. That such steps are then taken is the fairness TLC assumes for
  `RunReturns`.
- **EventBusProofs.** `BusInv` joins `TypeOK` and the positions of the receivers
  (`ReceiverInv`, which contains `GapFree`: the log only grows while a stream is
  open). `OrderInv` says how far each run has come in the log since a client joined,
  from which `WorkflowInOrder` and, for a receiver at the end of the log, `UpToDate`
  follow.
- **StorageProofs.** `StoreInv`: a call went to the shard its key hashes to, an
  acknowledged operation's task is done (`CallInv`), what is on disk was put there
  (`DiskInv`), and `WrittenInv`, `FreshInv` and `BackInv` state `Durable`, `ReadsFresh` and
  `ReadsNeverGoBack` for tasks instead of callers (`SeenStays` is the theorem on the
  last). The argument: a task that runs now is of an operation
  that had not returned when any other one was called, so its write is concurrent
  with, or later than, every put it replaces.
- **AttestationProofs.** `ChainInv`: the events are the accounts, counted by
  `FS_AddElement` at each new one, and an account belongs to the workflow its
  address is derived from.
- **ResilienceProofs.** `BreakerInv` adds to the types `LoopInv` (which attempt a
  caller at each place of the loop has reached) and `StreakInv`: up to the
  threshold, the counter never exceeds the row of failed calls, although resets
  and late failures interleave, and from the last reset on it is never behind it
  (`fresh <= failures`), which gives `OpensOnTime`. `FailureBound` counts the callers between `Allow`
  and the second lock: only a caller that leaves `run` adds a failure.
- **MatchmakerProofs.** `Typed` keeps the reputations on the grid of fractions on
  which the EWMA divides exactly, between 0 and `Scale`. `Commitment` is inductive
  with these types: `reserve` tests and adds under one lock, `release` saturates.
  `AccountInv` compares a counter with the units its clients hold (`Units`, one
  element for each unit of each client, so that `Held` is a cardinality and a client
  that reserves or releases adds or removes a set of known size): never more than
  holding and departed clients asked for, and while `calm` exactly as many as that;
  an operator without departed clients then has what its clients hold. `PhantomFree` and `ExactAccounting` follow, and
  `NoDoubleBookingWhileCalm`: what the run `reconnect` shows cannot happen
  without an operator that leaves or registers again while in use.
- **NodeLibraryProofs.** For any wiring from earlier to later nodes, any workflow
  and any number of parents. The first half is about sorting: an element's place is
  the number of elements that do not come after it, so `SortedExists` needs no
  induction; `ListedCounts` and `SortedCounts` count the numbers below and above a
  value by places, and `MiddleIsMidpoint` and `MiddleIsMajority` conclude what the
  middle of the sorted numbers is. The inductive invariant `IInv` says which edges
  are validated and nodes created, that nodes run only after that, that every output
  is what its node returned on its parents' outputs (which have not changed
  since) and holds integers where it holds numbers, and the same for the error that
  ended a workflow. `ConcreteWiringRuns` needs all of it: an edge into a median or
  threshold that passed `assignable` comes from an "any" or from a median, and a
  median that ran sent a number. `MedianIsCorrect` and `MajorityRules` join `IInv` with
  the lemmas on the middle.

**Only model-checked.** The liveness properties (fairness is beyond the prover):
`BuildTerminates`, `RunReturns`, `ActorsStop`, `DeliveredOrEnded`, and the fairness part of `ImplementsWorkflow` (`W!FairSpec`; its
safety part is proved, and `BoundedSort`, `BoundedWork` and `NeverStuck` hold what
of termination is safety). Every safety property of a passing run is a theorem.
The properties of the violated runs fail and have none; where the cause can be
named, a theorem says that it is the only one (`KnownRefsSuffice`,
`NoDoubleBookingWhileCalm`). Which of several operators
`Select` prefers is modelled, and no property depends on it.

## 5. Not modelled, and the plan

Not modelled, because there is nothing of KernelFlow's own to check: the ai client
(one HTTP request and one JSON parse, no state), the wasmtime sandbox (fuel, epochs
and memory limits are the engine's), HTTP and GraphQL routing, logging and metrics.
Storage survives a kill of the process; a power failure may lose acknowledged puts,
since `put_cf` does not sync RocksDB's log, and is not modelled. gossipsub,
ed25519, RocksDB, governor and tokio's channels are modelled from how the code uses
them.

Observations on the way, which no run checks because the code is plain on them:
- All nodes of a run share one limiter (`scheduler.rs:71`); `src/README.md:178` says
  "per-node".
- `Reservation` has no `Drop` and `reserve` does not return one; `capability.rs:61`
  says "Drop = release (RAII)", and `kernelflow-matchmaker/src/lib.rs:12` "no zombie
  reservations". `Abandon` models what happens: the step leaves the capacity in
  flight for good, which is why `Accounted` excepts operators it happened to.
- Inside a workflow every `sha256` node hashes null (`scheduler.rs:107`), whatever
  its parents computed.
- bincode writes `KernelEvent`, which is internally tagged, and cannot read it back
  (`Unreadable` in `Storage`, empty in the TLC instance); `src/README.md:180` speaks
  of a replay on boot.
- The Anchor program does not look at the ed25519 signature its first comment
  mentions: whoever sends the first transaction determines the record.
- `main` creates an event bus and no scheduler, and `Scheduler::new` creates a
  channel of its own: nothing sends on the bus the binary's API serves.
- The first backoff is not capped: only the doubled value is.

Next:
1. The executor of `Resilience` opened up inside `Scheduler`'s `Execute`, and several
   runs on one `EventBus` with the events of `Scheduler`.
2. For `P2p`, the safety form of its finding: no event ever leaves a node.
3. Registration of node kinds of one's own in `NodeLibrary`.
