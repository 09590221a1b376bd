-------------------------------- MODULE P2p --------------------------------
(***************************************************************************)
(* P2pNode of kernelflow-p2p, and as much of libp2p as it uses.            *)
(*                                                                         *)
(* A swarm makes progress (accepts connections, learns of subscriptions,   *)
(* takes in messages) only while it is polled, and only run polls it.  run *)
(* takes the node by value: its owner can publish before it calls run and  *)
(* never afterwards.  P2pNode never dials and has no discovery behaviour,  *)
(* so connections come from peers outside that dial a listening node.      *)
(***************************************************************************)
EXTENDS FiniteSets

CONSTANTS
  Node,      \* the KernelFlow nodes
  Outside    \* other gossipsub peers that dial in and subscribe to TOPIC

VARIABLES
  phase,     \* "created": its owner holds the P2pNode; "running": run has it
  peers,     \* the peers a node knows to subscribe to TOPIC
  result,    \* what each node's publish returned
  inbox,     \* the nodes and peers each node's message is on its way to
  heard      \* the publishers of the messages handed to each on_msg

vars == <<phase, peers, result, inbox, heard>>

\* P2pNode::new for every node: subscribed to TOPIC and listening
Init ==
  /\ phase = [n \in Node |-> "created"]
  /\ peers = [n \in Node |-> {}]
  /\ result = [n \in Node |-> "none"]
  /\ inbox = [n \in Node \cup Outside |-> {}]
  /\ heard = [n \in Node |-> {}]

\* publish(&mut self, ..): gossipsub refuses a message nobody would get
Publish(n) ==
  /\ phase[n] = "created"
  /\ result[n] = "none"
  /\ result' = [result EXCEPT ![n] = IF peers[n] = {} THEN "InsufficientPeers" ELSE "Ok"]
  /\ inbox' = [p \in DOMAIN inbox |-> IF p \in peers[n] THEN inbox[p] \cup {n} ELSE inbox[p]]
  /\ UNCHANGED <<phase, peers, heard>>

\* tokio::spawn(node.run(on_msg))
Run(n) ==
  /\ phase[n] = "created"
  /\ phase' = [phase EXCEPT ![n] = "running"]
  /\ UNCHANGED <<peers, result, inbox, heard>>

\* The polled swarm accepts a peer that dialled, and learns what it subscribes to
Accept(n, p) ==
  /\ phase[n] = "running"
  /\ p \notin peers[n]
  /\ peers' = [peers EXCEPT ![n] = @ \cup {p}]
  /\ UNCHANGED <<phase, result, inbox, heard>>

\* A connected peer publishes on TOPIC
OutsidePublish(n, p) ==
  /\ p \in peers[n]
  /\ p \notin inbox[n] \cup heard[n]
  /\ inbox' = [inbox EXCEPT ![n] = @ \cup {p}]
  /\ UNCHANGED <<phase, peers, result, heard>>

\* The polled swarm yields Event::Message, and run calls on_msg
OnMsg(n, p) ==
  /\ phase[n] = "running"
  /\ p \in inbox[n]
  /\ inbox' = [inbox EXCEPT ![n] = @ \ {p}]
  /\ heard' = [heard EXCEPT ![n] = @ \cup {p}]
  /\ UNCHANGED <<phase, peers, result>>

NodeStep(n) == Publish(n) \/ (result[n] # "none" /\ Run(n)) \/ \E p \in Node \cup Outside : OnMsg(n, p)

Next ==
  \E n \in Node : Run(n) \/ NodeStep(n) \/ \E p \in Outside : Accept(n, p) \/ OutsidePublish(n, p)

\* Every node has something to publish and is run, every peer that dials gets
\* through, and every message arrives
FairSpec ==
  /\ Init /\ [][Next]_vars
  /\ \A n \in Node : WF_vars(NodeStep(n)) /\ \A p \in Outside : WF_vars(Accept(n, p))

\* "peer-to-peer event propagation" (README): some event that a node publishes
\* gets to anybody, a node or a peer outside.
EventsPropagate ==
  <>(\E n \in Node, p \in Node \cup Outside : n \in inbox[p] \/ (p \in Node /\ n \in heard[p]))
=============================================================================
