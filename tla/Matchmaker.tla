----------------------------- MODULE Matchmaker -----------------------------
(***************************************************************************)
(* OperatorRegistry and ReputationMatchmaker of kernelflow-matchmaker.     *)
(*                                                                         *)
(* Every method of the registry takes the RwLock once and is one step.  A  *)
(* client delegates a task as the crate's documentation describes: select  *)
(* an operator from a snapshot, reserve, release when the task is over,    *)
(* record the outcome.  Between two of its steps other clients reserve and *)
(* release, and operators come, go and come back.                          *)
(***************************************************************************)
EXTENDS Integers, FiniteSets

CONSTANTS
  OperatorId,
  Client,
  Resource,      \* the counted resources: cpu_cores, ram_mb, gpu_vram_mb
  Capability,
  Offer,         \* the ResourceCapacity values operators register with
  Request,       \* Request[c]: the ResourceRequirements of client c
  NoOperator,
  MaxOutcomes    \* bound: outcomes recorded for an operator while it is registered

Capacity == [amount : [Resource -> Nat], capabilities : SUBSET Capability]

ASSUME MatchmakerAssumption ==
  /\ IsFiniteSet(OperatorId) /\ IsFiniteSet(Client) /\ IsFiniteSet(Resource)
  /\ Offer \subseteq Capacity
  /\ Request \in [Client -> Capacity]
  /\ NoOperator \notin OperatorId
  /\ MaxOutcomes \in Nat
  /\ 5^MaxOutcomes \in Nat  \* true of every such bound; the provers have no powers

\* Reputations are multiples of 1/Scale: 0.5 after registration, and each of at
\* most MaxOutcomes updates divides by 5, so the arithmetic is exact
Scale == 2 * 5^MaxOutcomes

VARIABLES
  ops,       \* the registry's map: id -> operator
  pc,        \* each client: "idle", "selected", "holding", "released", "gone"
  chosen,    \* the operator each client selected
  recorded,  \* outcomes recorded for each operator since it registered
  calm       \* history: no operator in use disconnected or registered again so far

vars == <<ops, pc, chosen, recorded, calm>>

Registered == DOMAIN ops

\* ResourceCapacity::satisfies
Satisfies(capacity, req) ==
  /\ \A r \in Resource : capacity.amount[r] >= req.amount[r]
  /\ req.capabilities \subseteq capacity.capabilities

SaturatingSub(a, b) == IF a < b THEN 0 ELSE a - b

\* Operator::new
NewOperator(offer) ==
  [total |-> offer, in_flight |-> [r \in Resource |-> 0], reputation |-> Scale \div 2]

\* Operator::free and can_take
Free(op) ==
  [amount |-> [r \in Resource |-> SaturatingSub(op.total.amount[r], op.in_flight[r])],
   capabilities |-> op.total.capabilities]
CanTake(op, req) == Satisfies(Free(op), req)

Init ==
  /\ ops = << >>
  /\ pc = [c \in Client |-> "idle"]
  /\ chosen = [c \in Client |-> NoOperator]
  /\ recorded = [id \in OperatorId |-> 0]
  /\ calm = TRUE

\* Nobody holds, or dropped, a reservation on the operator
Unused(id) == \A c \in Client : chosen[c] = id => pc[c] \notin {"holding", "gone"}
-----------------------------------------------------------------------------
\* register(Operator::new(id, offer)): an insert, so an id that is registered
\* already gets a fresh entry
Register(id, offer) ==
  /\ ops' = [o \in Registered \cup {id} |-> IF o = id THEN NewOperator(offer) ELSE ops[o]]
  /\ recorded' = [recorded EXCEPT ![id] = 0]
  /\ calm' = (calm /\ Unused(id))
  /\ UNCHANGED <<pc, chosen>>

\* deregister: the entry is dropped, whoever holds capacity of it
Deregister(id) ==
  /\ id \in Registered
  /\ ops' = [o \in Registered \ {id} |-> ops[o]]
  /\ recorded' = [recorded EXCEPT ![id] = 0]
  /\ calm' = (calm /\ Unused(id))
  /\ UNCHANGED <<pc, chosen>>

\* ReputationMatchmaker::select on a snapshot, ties broken at random; without a
\* candidate it fails and the client stays where it is
Select(c) ==
  LET candidates == {o \in Registered : CanTake(ops[o], Request[c])} IN
  /\ pc[c] = "idle"
  /\ \E o \in candidates :
       /\ \A p \in candidates : ops[p].reputation <= ops[o].reputation
       /\ chosen' = [chosen EXCEPT ![c] = o]
  /\ pc' = [pc EXCEPT ![c] = "selected"]
  /\ UNCHANGED <<ops, recorded, calm>>

\* Mutant: reserve relies on the check select made
FitsUnchecked(c) == chosen[c] \in Registered

\* The operator is still there and can still take the client's request
Fits(c) == chosen[c] \in Registered /\ CanTake(ops[chosen[c]], Request[c])

\* reserve: NodeNotFound when the operator is gone, RateLimited when others were
\* faster; the client goes back to selecting
Reserve(c) ==
  /\ pc[c] = "selected"
  /\ LET o == chosen[c] IN
       IF Fits(c)
       THEN /\ ops' = [ops EXCEPT ![o].in_flight =
                         [r \in Resource |-> @[r] + Request[c].amount[r]]]
            /\ pc' = [pc EXCEPT ![c] = "holding"]
            /\ UNCHANGED chosen
       ELSE /\ pc' = [pc EXCEPT ![c] = "idle"]
            /\ chosen' = [chosen EXCEPT ![c] = NoOperator]
            /\ UNCHANGED ops
  /\ UNCHANGED <<recorded, calm>>

\* Mutant: release subtracts without saturating
GiveBackUnchecked(c, used) == [r \in Resource |-> used[r] - Request[c].amount[r]]

\* Mutant: release empties the operator
GiveBackAll(c, used) == [r \in Resource |-> 0]

\* Mutant: release gives nothing back
GiveBackNothing(c, used) == used

\* in_flight without what the client had reserved
GiveBack(c, used) == [r \in Resource |-> SaturatingSub(used[r], Request[c].amount[r])]

\* release: a no-op when the operator is gone
Release(c) ==
  /\ pc[c] = "holding"
  /\ LET o == chosen[c] IN
       ops' = IF o \in Registered
              THEN [ops EXCEPT ![o].in_flight = GiveBack(c, @)]
              ELSE ops
  /\ pc' = [pc EXCEPT ![c] = "released"]
  /\ UNCHANGED <<chosen, recorded, calm>>

\* ALPHA * sample + (1 - ALPHA) * reputation with ALPHA = 1/5
Ewma(reputation, success) == ((IF success THEN Scale ELSE 0) + 4 * reputation) \div 5

\* record_outcome: a no-op when the operator is gone.  Failure, Timeout and
\* OperatorDisconnect count alike.
Record(c, success) ==
  /\ pc[c] = "released"
  /\ LET o == chosen[c] IN
       IF o \in Registered
       THEN /\ recorded[o] < MaxOutcomes
            /\ ops' = [ops EXCEPT ![o].reputation = Ewma(@, success)]
            /\ recorded' = [recorded EXCEPT ![o] = @ + 1]
       ELSE UNCHANGED <<ops, recorded>>
  /\ pc' = [pc EXCEPT ![c] = "idle"]
  /\ chosen' = [chosen EXCEPT ![c] = NoOperator]
  /\ UNCHANGED calm

\* The client's task is dropped while it holds a reservation.  There is no
\* Drop impl: nothing is given back.
Abandon(c) ==
  /\ pc[c] = "holding"
  /\ pc' = [pc EXCEPT ![c] = "gone"]
  /\ UNCHANGED <<ops, chosen, recorded, calm>>
-----------------------------------------------------------------------------
Delegate(c) ==
  Select(c) \/ Reserve(c) \/ Release(c) \/ (\E success \in BOOLEAN : Record(c, success))

Next ==
  \/ \E id \in OperatorId, offer \in Offer : Register(id, offer)
  \/ \E id \in OperatorId : Deregister(id)
  \/ \E c \in Client : Delegate(c) \/ Abandon(c)

Spec == Init /\ [][Next]_vars
-----------------------------------------------------------------------------
\* The clients in one of the states that chose o
ClientsOf(o, states) == {c \in Client : chosen[c] = o /\ pc[c] \in states}

\* The units of r some clients asked for, one by one
Units(clients, r) == UNION {{c} \X (1..Request[c].amount[r]) : c \in clients}

\* What the clients in one of the states that chose o asked for
Held(o, states, r) == Cardinality(Units(ClientsOf(o, states), r))

\* Type correctness
Operator == [total : Offer, in_flight : [Resource -> Nat], reputation : 0..Scale]
TypeOK ==
  /\ Registered \subseteq OperatorId
  /\ \A o \in Registered : ops[o] \in Operator
  /\ pc \in [Client -> {"idle", "selected", "holding", "released", "gone"}]
  /\ chosen \in [Client -> OperatorId \cup {NoOperator}]
  /\ recorded \in [OperatorId -> 0..MaxOutcomes]
  /\ calm \in BOOLEAN

\* No operator has more capacity committed than it has, although select works
\* on a snapshot and release may come from a client of an earlier registration.
\* The u32 additions of reserve therefore never overflow.
NeverOvercommitted ==
  \A o \in Registered, r \in Resource : ops[o].in_flight[r] <= ops[o].total.amount[r]

\* The registry never blocks capacity nobody asked for, although release comes
\* late, into a later registration of the operator, or to an operator that left:
\* what is in flight is covered by reservations that clients hold or went away
\* with.  That those which went away still count is the code's leak:
\* capability.rs:61 says "Drop = release (RAII)", and there is no Drop.
NoPhantomLoad ==
  \A o \in Registered, r \in Resource : ops[o].in_flight[r] <= Held(o, {"holding", "gone"}, r)

\* Exact accounting: as long as no operator in use disconnects or registers
\* again, and none of its clients went away with a reservation, what an operator
\* has in flight is what its clients hold: no interleaving of reserve and release
\* loses or invents capacity.
Accounted ==
  calm => \A o \in Registered, r \in Resource :
    ClientsOf(o, {"gone"}) = {} => ops[o].in_flight[r] = Held(o, {"holding"}, r)

\* `reservation_blocks_doublebooking` (test of strategy.rs): what the clients
\* hold of an operator fits into it
NoDoubleBooking ==
  \A o \in Registered, r \in Resource : Held(o, {"holding"}, r) <= ops[o].total.amount[r]
=============================================================================
