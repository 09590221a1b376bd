-------------------------- MODULE MatchmakerProofs --------------------------
(***************************************************************************)
(* Proofs about Matchmaker, for any set of operators, clients, resources   *)
(* and offers.                                                             *)
(***************************************************************************)
EXTENDS Matchmaker, FiniteSetTheorems, TLAPS

\* Amounts are natural numbers
LEMMA AmountType ==
  /\ \A c \in Client, r \in Resource : Request[c].amount[r] \in Nat
  /\ \A t \in Offer, r \in Resource : t.amount[r] \in Nat
  BY MatchmakerAssumption DEF Capacity

LEMMA ScaleType == Scale \in Nat
  BY MatchmakerAssumption DEF Scale

\* The average of a reputation and a sample is a reputation
LEMMA EwmaType ==
  ASSUME NEW reputation \in 0..Scale, NEW success \in BOOLEAN
  PROVE  Ewma(reputation, success) \in 0..Scale
  BY ScaleType DEF Ewma

LEMMA NewOperatorType ==
  ASSUME NEW offer \in Offer
  PROVE  NewOperator(offer) \in Operator
  <1>1. Scale \div 2 \in 0..Scale
    BY ScaleType
  <1> QED  BY <1>1 DEF NewOperator, Operator
-----------------------------------------------------------------------------
(* What the operations do to the entries of the registry *)

\* Entries after a step that replaces the in_flight of one of them
LEMMA InFlightReplaced ==
  ASSUME TypeOK, NEW id \in Registered, NEW used \in [Resource -> Nat],
         ops' = [ops EXCEPT ![id].in_flight = used]
  PROVE  /\ Registered' = Registered
         /\ \A o \in Registered :
              /\ ops'[o] \in Operator
              /\ ops'[o].total = ops[o].total
              /\ ops'[o].in_flight = IF o = id THEN used ELSE ops[o].in_flight
  <1>1. Registered' = Registered
    BY DEF Registered
  <1>2. ops[id] \in Operator
    BY DEF TypeOK
  <1>3. ops'[id] = [ops[id] EXCEPT !.in_flight = used]
    BY DEF Registered
  <1>4. ops'[id] = [total |-> ops[id].total, in_flight |-> used, reputation |-> ops[id].reputation]
    BY <1>2, <1>3 DEF Operator
  <1>5. ops'[id] \in Operator /\ ops'[id].total = ops[id].total /\ ops'[id].in_flight = used
    BY <1>2, <1>4 DEF Operator
  <1>6. \A o \in Registered : o # id => ops'[o] = ops[o] /\ ops[o] \in Operator
    BY DEF Registered, TypeOK
  <1> QED  BY <1>1, <1>5, <1>6

\* A reservation that fits adds the request to what the operator has in flight
LEMMA ReserveEffect ==
  ASSUME TypeOK, NEW c \in Client, Reserve(c), Fits(c)
  PROVE  /\ Registered' = Registered
         /\ \A o \in Registered :
              /\ ops'[o] \in Operator
              /\ ops'[o].total = ops[o].total
              /\ \A r \in Resource :
                   ops'[o].in_flight[r] =
                     IF o = chosen[c] THEN ops[o].in_flight[r] + Request[c].amount[r]
                     ELSE ops[o].in_flight[r]
  <1> DEFINE used == [r \in Resource |-> ops[chosen[c]].in_flight[r] + Request[c].amount[r]]
  <1>1. chosen[c] \in Registered /\ ops' = [ops EXCEPT ![chosen[c]].in_flight = used]
    BY DEF Reserve, Fits
  <1>2. ops[chosen[c]].in_flight \in [Resource -> Nat]
    BY <1>1 DEF TypeOK, Operator
  <1>3. used \in [Resource -> Nat]
    BY <1>2, AmountType
  <1>4. \A r \in Resource : used[r] = ops[chosen[c]].in_flight[r] + Request[c].amount[r]
    OBVIOUS
  <1> HIDE DEF used
  <1>5. /\ Registered' = Registered
        /\ \A o \in Registered :
             /\ ops'[o] \in Operator
             /\ ops'[o].total = ops[o].total
             /\ ops'[o].in_flight = IF o = chosen[c] THEN used ELSE ops[o].in_flight
    BY <1>1, <1>3, InFlightReplaced
  <1> QED  BY <1>4, <1>5

\* A release takes the request off what the operator has in flight, if it is there
LEMMA ReleaseEffect ==
  ASSUME TypeOK, NEW c \in Client, Release(c)
  PROVE  /\ Registered' = Registered
         /\ \A o \in Registered :
              /\ ops'[o] \in Operator
              /\ ops'[o].total = ops[o].total
              /\ \A r \in Resource :
                   ops'[o].in_flight[r] =
                     IF o = chosen[c] THEN SaturatingSub(ops[o].in_flight[r], Request[c].amount[r])
                     ELSE ops[o].in_flight[r]
  <1>1. CASE chosen[c] \in Registered
    <2> DEFINE used == GiveBack(c, ops[chosen[c]].in_flight)
    <2>1. ops' = [ops EXCEPT ![chosen[c]].in_flight = used]
      BY <1>1 DEF Release
    <2>2. ops[chosen[c]].in_flight \in [Resource -> Nat]
      BY <1>1 DEF TypeOK, Operator
    <2>3. used \in [Resource -> Nat]
      BY <2>2, AmountType DEF GiveBack, SaturatingSub
    <2>4. \A r \in Resource :
            used[r] = SaturatingSub(ops[chosen[c]].in_flight[r], Request[c].amount[r])
      BY DEF GiveBack
    <2> HIDE DEF used
    <2>5. /\ Registered' = Registered
          /\ \A o \in Registered :
               /\ ops'[o] \in Operator
               /\ ops'[o].total = ops[o].total
               /\ ops'[o].in_flight = IF o = chosen[c] THEN used ELSE ops[o].in_flight
      BY <1>1, <2>1, <2>3, InFlightReplaced
    <2> QED  BY <2>4, <2>5
  <1>2. CASE chosen[c] \notin Registered
    BY <1>2 DEF Release, Registered, TypeOK
  <1> QED  BY <1>1, <1>2

\* Recording an outcome leaves capacity alone
LEMMA RecordEffect ==
  ASSUME TypeOK, NEW c \in Client, NEW success \in BOOLEAN, Record(c, success)
  PROVE  /\ Registered' = Registered
         /\ \A o \in Registered :
              /\ ops'[o] \in Operator
              /\ ops'[o].total = ops[o].total
              /\ ops'[o].in_flight = ops[o].in_flight
  <1>1. CASE chosen[c] \in Registered
    <2>1. PICK id \in Registered : id = chosen[c]
      BY <1>1
    <2>2. PICK new : new = Ewma(ops[id].reputation, success)
      OBVIOUS
    <2>3. ops' = [ops EXCEPT ![id].reputation = new]
      BY <1>1, <2>1, <2>2 DEF Record
    <2>4. ops[id] \in Operator
      BY DEF TypeOK
    <2>5. new \in 0..Scale
      BY <2>2, <2>4, EwmaType DEF Operator
    <2>6. Registered' = Registered /\ ops'[id] = [ops[id] EXCEPT !.reputation = new]
      BY <2>3 DEF Registered
    <2>7. ops'[id] = [total |-> ops[id].total, in_flight |-> ops[id].in_flight, reputation |-> new]
      BY <2>4, <2>6 DEF Operator
    <2>8. /\ ops'[id] \in Operator
          /\ ops'[id].total = ops[id].total
          /\ ops'[id].in_flight = ops[id].in_flight
      BY <2>4, <2>5, <2>7 DEF Operator
    <2>9. \A o \in Registered : o # id => ops'[o] = ops[o] /\ ops[o] \in Operator
      BY <2>3 DEF Registered, TypeOK
    <2> QED  BY <2>6, <2>8, <2>9
  <1>2. CASE chosen[c] \notin Registered
    BY <1>2 DEF Record, Registered, TypeOK
  <1> QED  BY <1>1, <1>2
-----------------------------------------------------------------------------
(* Type correctness *)

LEMMA TypeInductive == TypeOK /\ [Next]_vars => TypeOK'
  <1> SUFFICES ASSUME TypeOK, [Next]_vars PROVE TypeOK'
    OBVIOUS
  <1>1. ASSUME NEW id \in OperatorId, NEW offer \in Offer, Register(id, offer)
        PROVE  TypeOK'
    <2>1. \A o \in Registered' : ops'[o] \in Operator'
      BY <1>1, NewOperatorType DEF Register, TypeOK, Registered, Operator, Scale
    <2>2. recorded' \in [OperatorId -> 0..MaxOutcomes]
      BY <1>1, MatchmakerAssumption DEF Register, TypeOK
    <2> QED  BY <1>1, <2>1, <2>2 DEF Register, TypeOK, Registered
  <1>2. ASSUME NEW id \in OperatorId, Deregister(id) PROVE TypeOK'
    <2>1. recorded' \in [OperatorId -> 0..MaxOutcomes]
      BY <1>2, MatchmakerAssumption DEF Deregister, TypeOK
    <2> QED  BY <1>2, <2>1 DEF Deregister, TypeOK, Registered, Operator, Scale
  <1>3. ASSUME NEW c \in Client, Select(c) PROVE TypeOK'
    BY <1>3 DEF Select, TypeOK, Registered, Operator, Scale
  <1>4. ASSUME NEW c \in Client, Reserve(c) PROVE TypeOK'
    <2>1. CASE Fits(c)
      BY <1>4, <2>1, ReserveEffect DEF Reserve, TypeOK, Operator, Scale
    <2>2. CASE ~Fits(c)
      BY <1>4, <2>2 DEF Reserve, TypeOK, Registered, Operator, Scale
    <2> QED  BY <2>1, <2>2
  <1>5. ASSUME NEW c \in Client, Release(c) PROVE TypeOK'
    <2>1. Registered' = Registered /\ \A o \in Registered' : ops'[o] \in Operator'
      BY <1>5, ReleaseEffect DEF Operator, Scale
    <2> QED  BY <1>5, <2>1 DEF Release, TypeOK
  <1>6. ASSUME NEW c \in Client, NEW success \in BOOLEAN, Record(c, success) PROVE TypeOK'
    <2>1. Registered' = Registered /\ \A o \in Registered' : ops'[o] \in Operator'
      BY <1>6, RecordEffect DEF Operator, Scale
    <2>2. recorded' \in [OperatorId -> 0..MaxOutcomes]
      BY <1>6, MatchmakerAssumption DEF Record, TypeOK
    <2> QED  BY <1>6, <2>1, <2>2 DEF Record, TypeOK
  <1>7. ASSUME NEW c \in Client, Abandon(c) PROVE TypeOK'
    BY <1>7 DEF Abandon, TypeOK, Registered, Operator, Scale
  <1>8. CASE UNCHANGED vars
    BY <1>8 DEF vars, TypeOK, Registered, Operator, Scale
  <1> QED  BY <1>1, <1>2, <1>3, <1>4, <1>5, <1>6, <1>7, <1>8 DEF Next, Delegate

\* Counters stay natural numbers and reputations stay between 0 and 1, whatever
\* the order of reservations, outcomes and reconnections (operator.rs).
THEOREM Typed == Spec => []TypeOK
  <1>1. Init => TypeOK
    BY MatchmakerAssumption DEF Init, TypeOK, Registered
  <1> QED  BY <1>1, TypeInductive, PTL DEF Spec
-----------------------------------------------------------------------------
(* Commitment *)

\* A reservation that passes can_take fits into what the operator has
LEMMA ReserveFits ==
  ASSUME NEW op \in Operator, NEW c \in Client, CanTake(op, Request[c]), NEW r \in Resource,
         op.in_flight[r] <= op.total.amount[r]
  PROVE  op.in_flight[r] + Request[c].amount[r] <= op.total.amount[r]
  <1>1. SaturatingSub(op.total.amount[r], op.in_flight[r]) >= Request[c].amount[r]
    BY DEF CanTake, Satisfies, Free
  <1>2. /\ op.total.amount[r] \in Nat
        /\ op.in_flight[r] \in Nat
        /\ Request[c].amount[r] \in Nat
    BY AmountType DEF Operator
  <1> QED  BY <1>1, <1>2 DEF SaturatingSub

LEMMA CommitInductive ==
  TypeOK /\ NeverOvercommitted /\ [Next]_vars => NeverOvercommitted'
  <1> SUFFICES ASSUME TypeOK, NeverOvercommitted, [Next]_vars,
                      NEW o \in Registered', NEW r \in Resource
               PROVE  ops'[o].in_flight[r] <= ops'[o].total.amount[r]
    BY DEF NeverOvercommitted
  <1> DEFINE Goal == ops'[o].in_flight[r] <= ops'[o].total.amount[r]
  <1>a. ASSUME o \in Registered, ops'[o].in_flight = ops[o].in_flight,
               ops'[o].total = ops[o].total
        PROVE  Goal
    BY <1>a DEF NeverOvercommitted
  <1>1. ASSUME NEW id \in OperatorId, NEW offer \in Offer, Register(id, offer) PROVE Goal
    <2>1. CASE o = id
      <3>1. ops'[o] = NewOperator(offer)
        BY <1>1, <2>1 DEF Register
      <3>2. offer.amount[r] \in Nat
        BY AmountType
      <3> QED  BY <3>1, <3>2 DEF NewOperator
    <2>2. CASE o # id
      BY <1>1, <1>a, <2>2 DEF Register, Registered
    <2> QED  BY <2>1, <2>2
  <1>2. ASSUME NEW id \in OperatorId, Deregister(id) PROVE Goal
    BY <1>2, <1>a DEF Deregister, Registered
  <1>3. ASSUME NEW c \in Client, Select(c) PROVE Goal
    BY <1>3, <1>a DEF Select, Registered
  <1>4. ASSUME NEW c \in Client, Reserve(c) PROVE Goal
    <2>1. CASE Fits(c)
      <3>1. /\ o \in Registered
            /\ ops'[o].total = ops[o].total
            /\ ops'[o].in_flight[r] =
                 IF o = chosen[c] THEN ops[o].in_flight[r] + Request[c].amount[r]
                 ELSE ops[o].in_flight[r]
        BY <1>4, <2>1, ReserveEffect
      <3>2. ops[o] \in Operator /\ ops[o].in_flight[r] <= ops[o].total.amount[r]
        BY <3>1 DEF TypeOK, NeverOvercommitted
      <3>3. o = chosen[c] =>
              ops[o].in_flight[r] + Request[c].amount[r] <= ops[o].total.amount[r]
        BY <2>1, <3>2, ReserveFits DEF Fits
      <3> QED  BY <3>1, <3>2, <3>3
    <2>2. CASE ~Fits(c)
      BY <1>4, <2>2, <1>a DEF Reserve, Registered
    <2> QED  BY <2>1, <2>2
  <1>5. ASSUME NEW c \in Client, Release(c) PROVE Goal
    <2>1. /\ o \in Registered
          /\ ops'[o].total = ops[o].total
          /\ ops'[o].in_flight[r] =
               IF o = chosen[c] THEN SaturatingSub(ops[o].in_flight[r], Request[c].amount[r])
               ELSE ops[o].in_flight[r]
      BY <1>5, ReleaseEffect
    <2>2. ops[o] \in Operator /\ ops[o].in_flight[r] <= ops[o].total.amount[r]
      BY <2>1 DEF TypeOK, NeverOvercommitted
    <2>3. /\ ops[o].in_flight[r] \in Nat
          /\ ops[o].total.amount[r] \in Nat
          /\ Request[c].amount[r] \in Nat
      BY <2>2, AmountType DEF Operator
    <2> QED  BY <2>1, <2>2, <2>3 DEF SaturatingSub
  <1>6. ASSUME NEW c \in Client, NEW success \in BOOLEAN, Record(c, success) PROVE Goal
    BY <1>6, <1>a, RecordEffect
  <1>7. ASSUME NEW c \in Client, Abandon(c) PROVE Goal
    BY <1>7, <1>a DEF Abandon, Registered
  <1>8. CASE UNCHANGED vars
    BY <1>8, <1>a DEF vars, Registered
  <1> QED  BY <1>1, <1>2, <1>3, <1>4, <1>5, <1>6, <1>7, <1>8 DEF Next, Delegate

\* However the clients' steps interleave and operators come and go, reserve
\* never commits more of an operator than it has (operator.rs: can_take is
\* evaluated again under the write lock).
THEOREM Commitment == Spec => []NeverOvercommitted
  <1>1. Init => NeverOvercommitted
    BY DEF Init, NeverOvercommitted, Registered
  <1> QED  BY <1>1, CommitInductive, Typed, PTL DEF Spec
-----------------------------------------------------------------------------
(* Counting reserved units *)

\* The units of one client
LEMMA UnitsOfOne ==
  ASSUME NEW c \in Client, NEW r \in Resource
  PROVE  /\ IsFiniteSet({c} \X (1..Request[c].amount[r]))
         /\ Cardinality({c} \X (1..Request[c].amount[r])) = Request[c].amount[r]
  <1>1. PICK n \in Nat : n = Request[c].amount[r]
    BY AmountType
  <1>2. IsFiniteSet({c}) /\ Cardinality({c}) = 1
    BY FS_Singleton
  <1>3. 1 \in Int /\ n \in Int
    OBVIOUS
  <1>4. IsFiniteSet(1..n) /\ Cardinality(1..n) = IF 1 > n THEN 0 ELSE n - 1 + 1
    BY <1>3, FS_Interval, Zenon
  <1>5. /\ IsFiniteSet({c} \X (1..n))
        /\ Cardinality({c} \X (1..n)) = Cardinality({c}) * Cardinality(1..n)
    BY <1>2, <1>4, FS_Product, Zenon
  <1>6. Cardinality(1..n) = n
    BY <1>4
  <1>7. Cardinality({c}) * Cardinality(1..n) = n
    BY <1>2, <1>6
  <1> QED  BY <1>1, <1>5, <1>7

\* Finitely many clients ask for finitely many units
LEMMA UnitsFinite ==
  ASSUME NEW C \in SUBSET Client, NEW r \in Resource
  PROVE  IsFiniteSet(Units(C, r)) /\ Cardinality(Units(C, r)) \in Nat
  <1> DEFINE f == [c \in C |-> {c} \X (1..Request[c].amount[r])]
             parts == {{c} \X (1..Request[c].amount[r]) : c \in C}
  <1>1. IsFiniteSet(C)
    BY FS_Subset, MatchmakerAssumption
  <1>2. f \in Surjection(C, parts)
    BY DEF Surjection
  <1>3. IsFiniteSet(parts)
    BY <1>1, <1>2, FS_Surjection
  <1>4. \A P \in parts : IsFiniteSet(P)
    BY UnitsOfOne
  <1>5. IsFiniteSet(Units(C, r))
    BY <1>3, <1>4, FS_UNION DEF Units
  <1> QED  BY <1>5, FS_CardinalityType

\* One more client adds the units it asked for
LEMMA UnitsAdd ==
  ASSUME NEW C \in SUBSET Client, NEW c \in Client, c \notin C, NEW r \in Resource
  PROVE  Cardinality(Units(C \cup {c}, r)) = Cardinality(Units(C, r)) + Request[c].amount[r]
  <1> DEFINE new == {c} \X (1..Request[c].amount[r])
  <1>1. Units(C \cup {c}, r) = Units(C, r) \cup new
    BY DEF Units
  <1>2. Units(C, r) \cap new = {}
    BY DEF Units
  <1>3. IsFiniteSet(new) /\ Cardinality(new) = Request[c].amount[r]
    BY UnitsOfOne
  <1>4. Cardinality({}) = 0
    BY FS_EmptySet
  <1>5. IsFiniteSet(Units(C, r)) /\ Cardinality(Units(C, r)) \in Nat
    BY UnitsFinite
  <1>6. Request[c].amount[r] \in Nat
    BY AmountType
  <1> HIDE DEF new
  <1>7. Cardinality(Units(C, r) \cup new)
          = Cardinality(Units(C, r)) + Cardinality(new) - Cardinality(Units(C, r) \cap new)
    BY <1>3, <1>5, FS_Union
  <1>8. Cardinality(Units(C, r) \cap new) = 0
    BY <1>2, <1>4, Zenon
  <1>9. Cardinality(Units(C, r) \cup new) = Cardinality(Units(C, r)) + Request[c].amount[r]
    BY <1>3, <1>5, <1>6, <1>7, <1>8
  <1> QED  BY <1>1, <1>9, Zenon

\* One client less takes its units away
LEMMA UnitsRemove ==
  ASSUME NEW C \in SUBSET Client, NEW c \in C, NEW r \in Resource
  PROVE  /\ Request[c].amount[r] <= Cardinality(Units(C, r))
         /\ Cardinality(Units(C \ {c}, r)) = Cardinality(Units(C, r)) - Request[c].amount[r]
  <1> DEFINE D == C \ {c}
  <1>1. D \in SUBSET Client /\ c \in Client /\ c \notin D
    OBVIOUS
  <1>2. D \cup {c} = C
    OBVIOUS
  <1>3. Cardinality(Units(D, r)) \in Nat /\ Request[c].amount[r] \in Nat
    BY <1>1, UnitsFinite, AmountType
  <1> HIDE DEF D
  <1>4. Cardinality(Units(D \cup {c}, r)) = Cardinality(Units(D, r)) + Request[c].amount[r]
    BY <1>1, UnitsAdd
  <1>5. Cardinality(Units(C, r)) = Cardinality(Units(D, r)) + Request[c].amount[r]
    BY <1>2, <1>4, Zenon
  <1>6. /\ Request[c].amount[r] <= Cardinality(Units(C, r))
        /\ Cardinality(Units(D, r)) = Cardinality(Units(C, r)) - Request[c].amount[r]
    BY <1>3, <1>5
  <1> QED  BY <1>6 DEF D
-----------------------------------------------------------------------------
(* Accounting *)

\* The states in which capacity the client asked for counts as committed
Committed == {"holding", "gone"}

\* The number of units the clients asked for that occupy o
Occupied(o, r) == Cardinality(Units(ClientsOf(o, Committed), r))

LEMMA OccupiedType ==
  \A o, r : r \in Resource => Occupied(o, r) \in Nat
  <1> SUFFICES ASSUME NEW o, NEW r \in Resource PROVE Occupied(o, r) \in Nat
    OBVIOUS
  <1>1. PICK C : C = ClientsOf(o, Committed)
    OBVIOUS
  <1>2. C \in SUBSET Client
    BY <1>1 DEF ClientsOf
  <1>3. Cardinality(Units(C, r)) \in Nat
    BY <1>2, UnitsFinite
  <1> QED  BY <1>1, <1>3 DEF Occupied

\* The inductive invariant of the accounting: each counter is covered by what
\* clients asked for, and is exactly that while no operator in use has left
AccountInv ==
  \A o \in Registered, r \in Resource :
    /\ ops[o].in_flight[r] <= Occupied(o, r)
    /\ calm => ops[o].in_flight[r] = Occupied(o, r)

\* A step that leaves the clients that occupy o as they are
LEMMA OccupiedSame ==
  ASSUME NEW o, ClientsOf(o, Committed)' = ClientsOf(o, Committed), NEW r \in Resource
  PROVE  Occupied(o, r)' = Occupied(o, r)
  BY DEF Occupied, Units

\* reserve: the client becomes one of those that occupy the operator it chose
LEMMA OccupiedByReserve ==
  ASSUME TypeOK, NEW c \in Client, Reserve(c), Fits(c), NEW o, NEW r \in Resource
  PROVE  Occupied(o, r)' = IF o = chosen[c] THEN Occupied(o, r) + Request[c].amount[r]
                           ELSE Occupied(o, r)
  <1>1. pc[c] = "selected" /\ pc' = [pc EXCEPT ![c] = "holding"] /\ chosen' = chosen
    BY DEF Reserve
  <1>2. CASE o = chosen[c]
    <2>1. PICK C : C = ClientsOf(o, Committed)
      OBVIOUS
    <2>2. C \in SUBSET Client /\ c \notin C
      BY <1>1, <2>1 DEF ClientsOf, Committed
    <2>3. ClientsOf(o, Committed)' = C \cup {c}
      BY <1>1, <1>2, <2>1 DEF ClientsOf, Committed, TypeOK
    <2>4. Cardinality(Units(C \cup {c}, r)) = Cardinality(Units(C, r)) + Request[c].amount[r]
      BY <2>2, UnitsAdd
    <2> QED  BY <1>2, <2>1, <2>3, <2>4 DEF Occupied, Units
  <1>3. CASE o # chosen[c]
    <2>1. ClientsOf(o, Committed)' = ClientsOf(o, Committed)
      BY <1>1, <1>3 DEF ClientsOf, Committed, TypeOK
    <2> QED  BY <1>3, <2>1, OccupiedSame
  <1> QED  BY <1>2, <1>3

\* release: the client stops occupying the operator it chose
LEMMA OccupiedByRelease ==
  ASSUME TypeOK, NEW c \in Client, Release(c), NEW o, NEW r \in Resource
  PROVE  /\ Request[c].amount[r] <= Occupied(o, r) \/ o # chosen[c]
         /\ Occupied(o, r)' = IF o = chosen[c] THEN Occupied(o, r) - Request[c].amount[r]
                              ELSE Occupied(o, r)
  <1>1. pc[c] = "holding" /\ pc' = [pc EXCEPT ![c] = "released"] /\ chosen' = chosen
    BY DEF Release
  <1>2. CASE o = chosen[c]
    <2>1. PICK C : C = ClientsOf(o, Committed)
      OBVIOUS
    <2>2. C \in SUBSET Client /\ c \in C
      BY <1>1, <1>2, <2>1 DEF ClientsOf, Committed
    <2>3. ClientsOf(o, Committed)' = C \ {c}
      BY <1>1, <1>2, <2>1 DEF ClientsOf, Committed, TypeOK
    <2>4. /\ Request[c].amount[r] <= Cardinality(Units(C, r))
          /\ Cardinality(Units(C \ {c}, r)) = Cardinality(Units(C, r)) - Request[c].amount[r]
      BY <2>2, UnitsRemove
    <2> QED  BY <1>2, <2>1, <2>3, <2>4 DEF Occupied, Units
  <1>3. CASE o # chosen[c]
    <2>1. ClientsOf(o, Committed)' = ClientsOf(o, Committed)
      BY <1>1, <1>3 DEF ClientsOf, Committed, TypeOK
    <2> QED  BY <1>3, <2>1, OccupiedSame
  <1> QED  BY <1>2, <1>3

\* Nobody occupies an operator that is not in use
LEMMA UnusedEmpty ==
  ASSUME NEW id, Unused(id), NEW r \in Resource
  PROVE  Occupied(id, r) = 0
  <1>1. ClientsOf(id, Committed) = {}
    BY DEF ClientsOf, Committed, Unused
  <1>2. Units(ClientsOf(id, Committed), r) = {}
    BY <1>1 DEF Units
  <1> QED  BY <1>2, FS_EmptySet, Zenon DEF Occupied

LEMMA AccountInductive == TypeOK /\ AccountInv /\ [Next]_vars => AccountInv'
  <1> SUFFICES ASSUME TypeOK, AccountInv, [Next]_vars,
                      NEW o \in Registered', NEW r \in Resource
               PROVE  /\ ops'[o].in_flight[r] <= Occupied(o, r)'
                      /\ calm' => ops'[o].in_flight[r] = Occupied(o, r)'
    BY DEF AccountInv
  <1> DEFINE Goal == /\ ops'[o].in_flight[r] <= Occupied(o, r)'
                     /\ calm' => ops'[o].in_flight[r] = Occupied(o, r)'
  <1>a. Occupied(o, r) \in Nat
    BY OccupiedType
  <1>b. ASSUME o \in Registered, ops'[o].in_flight = ops[o].in_flight, calm' => calm,
               ClientsOf(o, Committed)' = ClientsOf(o, Committed)
        PROVE  Goal
    BY <1>b, OccupiedSame DEF AccountInv
  <1>1. ASSUME NEW id \in OperatorId, NEW offer \in Offer, Register(id, offer) PROVE Goal
    <2>1. ClientsOf(o, Committed)' = ClientsOf(o, Committed)
      BY <1>1 DEF Register, ClientsOf
    <2>2. CASE o = id
      <3>1. ops'[o].in_flight[r] = 0
        BY <1>1, <2>2 DEF Register, NewOperator
      <3>2. calm' => Occupied(o, r) = 0
        BY <1>1, <2>2, UnusedEmpty DEF Register
      <3>3. Occupied(o, r)' = Occupied(o, r)
        BY <2>1, OccupiedSame
      <3> QED  BY <1>a, <3>1, <3>2, <3>3
    <2>3. CASE o # id
      BY <1>1, <1>b, <2>1, <2>3 DEF Register, Registered
    <2> QED  BY <2>2, <2>3
  <1>2. ASSUME NEW id \in OperatorId, Deregister(id) PROVE Goal
    BY <1>2, <1>b DEF Deregister, Registered, ClientsOf
  <1>3. ASSUME NEW c \in Client, Select(c) PROVE Goal
    <2>1. ClientsOf(o, Committed)' = ClientsOf(o, Committed)
      BY <1>3 DEF Select, ClientsOf, Committed, TypeOK
    <2> QED  BY <1>3, <1>b, <2>1 DEF Select, Registered
  <1>4. ASSUME NEW c \in Client, Reserve(c) PROVE Goal
    <2>1. CASE Fits(c)
      <3>1. /\ o \in Registered
            /\ ops'[o].in_flight[r] =
                 IF o = chosen[c] THEN ops[o].in_flight[r] + Request[c].amount[r]
                 ELSE ops[o].in_flight[r]
        BY <1>4, <2>1, ReserveEffect
      <3>2. Occupied(o, r)' = IF o = chosen[c] THEN Occupied(o, r) + Request[c].amount[r]
                              ELSE Occupied(o, r)
        BY <1>4, <2>1, OccupiedByReserve
      <3>3. ops[o].in_flight[r] \in Nat /\ Request[c].amount[r] \in Nat
        BY <3>1, AmountType DEF TypeOK, Operator
      <3>4. calm' = calm
        BY <1>4 DEF Reserve
      <3>5. /\ ops[o].in_flight[r] <= Occupied(o, r)
            /\ calm => ops[o].in_flight[r] = Occupied(o, r)
        BY <3>1 DEF AccountInv
      <3> QED  BY <1>a, <3>1, <3>2, <3>3, <3>4, <3>5
    <2>2. CASE ~Fits(c)
      <3>1. ClientsOf(o, Committed)' = ClientsOf(o, Committed)
        BY <1>4, <2>2 DEF Reserve, ClientsOf, Committed, TypeOK
      <3> QED  BY <1>4, <2>2, <1>b, <3>1 DEF Reserve, Registered
    <2> QED  BY <2>1, <2>2
  <1>5. ASSUME NEW c \in Client, Release(c) PROVE Goal
    <2>1. /\ o \in Registered
          /\ ops'[o].in_flight[r] =
               IF o = chosen[c] THEN SaturatingSub(ops[o].in_flight[r], Request[c].amount[r])
               ELSE ops[o].in_flight[r]
      BY <1>5, ReleaseEffect
    <2>2. /\ Request[c].amount[r] <= Occupied(o, r) \/ o # chosen[c]
          /\ Occupied(o, r)' = IF o = chosen[c] THEN Occupied(o, r) - Request[c].amount[r]
                               ELSE Occupied(o, r)
      BY <1>5, OccupiedByRelease
    <2>3. ops[o].in_flight[r] \in Nat /\ Request[c].amount[r] \in Nat
      BY <2>1, AmountType DEF TypeOK, Operator
    <2>4. calm' = calm
      BY <1>5 DEF Release
    <2>5. /\ ops[o].in_flight[r] <= Occupied(o, r)
          /\ calm => ops[o].in_flight[r] = Occupied(o, r)
      BY <2>1 DEF AccountInv
    <2> QED  BY <1>a, <2>1, <2>2, <2>3, <2>4, <2>5 DEF SaturatingSub
  <1>6. ASSUME NEW c \in Client, NEW success \in BOOLEAN, Record(c, success) PROVE Goal
    <2>1. ClientsOf(o, Committed)' = ClientsOf(o, Committed)
      BY <1>6 DEF Record, ClientsOf, Committed, TypeOK
    <2>2. calm' = calm
      BY <1>6 DEF Record
    <2> QED  BY <1>6, <1>b, <2>1, <2>2, RecordEffect
  <1>7. ASSUME NEW c \in Client, Abandon(c) PROVE Goal
    <2>1. ClientsOf(o, Committed)' = ClientsOf(o, Committed)
      BY <1>7 DEF Abandon, ClientsOf, Committed, TypeOK
    <2> QED  BY <1>7, <1>b, <2>1 DEF Abandon, Registered
  <1>8. CASE UNCHANGED vars
    BY <1>8, <1>b DEF vars, Registered, ClientsOf
  <1> QED  BY <1>1, <1>2, <1>3, <1>4, <1>5, <1>6, <1>7, <1>8 DEF Next, Delegate

LEMMA Accounting == Spec => []AccountInv
  <1>1. Init => AccountInv
    BY DEF Init, AccountInv, Registered
  <1> QED  BY <1>1, AccountInductive, Typed, PTL DEF Spec

\* However reservations, releases, dropped tasks and reconnections interleave,
\* release's saturating subtraction never leaves more in flight than clients
\* asked for and did not give back.
THEOREM PhantomFree == Spec => []NoPhantomLoad
  <1>1. AccountInv => NoPhantomLoad
    BY DEF AccountInv, NoPhantomLoad, Occupied, Held, Committed
  <1> QED  BY <1>1, Accounting, PTL

\* Until an operator in use disconnects or registers again, the in_flight of an
\* operator no client went away from is exactly what its clients hold.
THEOREM ExactAccounting == Spec => []Accounted
  <1>1. AccountInv => Accounted
    <2> SUFFICES ASSUME AccountInv, calm, NEW o \in Registered, NEW r \in Resource,
                        ClientsOf(o, {"gone"}) = {}
                 PROVE  ops[o].in_flight[r] = Held(o, {"holding"}, r)
      BY DEF Accounted
    <2>1. ClientsOf(o, Committed) = ClientsOf(o, {"holding"})
      BY DEF ClientsOf, Committed
    <2>2. Occupied(o, r) = Held(o, {"holding"}, r)
      BY <2>1 DEF Occupied, Held
    <2> QED  BY <2>2 DEF AccountInv
  <1> QED  BY <1>1, Accounting, PTL

\* A re-registration (or disconnection) of an operator in use is the only way to
\* the double booking reserve is there to prevent.
THEOREM NoDoubleBookingWhileCalm == Spec => [](calm => NoDoubleBooking)
  <1>1. TypeOK /\ AccountInv /\ NeverOvercommitted => (calm => NoDoubleBooking)
    <2> SUFFICES ASSUME TypeOK, AccountInv, NeverOvercommitted, calm,
                        NEW o \in Registered, NEW r \in Resource
                 PROVE  Held(o, {"holding"}, r) <= ops[o].total.amount[r]
      BY DEF NoDoubleBooking
    <2>1. PICK C : C = ClientsOf(o, Committed)
      OBVIOUS
    <2>2. PICK D : D = ClientsOf(o, {"holding"})
      OBVIOUS
    <2>3. C \in SUBSET Client /\ D \in SUBSET Client /\ D \subseteq C
      BY <2>1, <2>2 DEF ClientsOf, Committed
    <2>4. Units(D, r) \in SUBSET Units(C, r)
      BY <2>3 DEF Units
    <2>5. /\ IsFiniteSet(Units(C, r))
          /\ Cardinality(Units(C, r)) \in Nat
          /\ Cardinality(Units(D, r)) \in Nat
      BY <2>3, UnitsFinite
    <2>6. Cardinality(Units(D, r)) <= Cardinality(Units(C, r))
      BY <2>4, <2>5, FS_Subset
    <2>7. Cardinality(Units(C, r)) = ops[o].in_flight[r]
      BY <2>1 DEF AccountInv, Occupied
    <2>8. ops[o].in_flight[r] <= ops[o].total.amount[r]
      BY DEF NeverOvercommitted
    <2>9. ops[o].total.amount[r] \in Nat
      BY AmountType DEF TypeOK, Operator
    <2> QED  BY <2>2, <2>5, <2>6, <2>7, <2>8, <2>9 DEF Held
  <1> QED  BY <1>1, Typed, Accounting, Commitment, PTL
=============================================================================
