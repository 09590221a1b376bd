--------------------------- MODULE EventBusProofs ---------------------------
(***************************************************************************)
(* Proofs about EventBus, for any number of runs, events and clients and   *)
(* any capacity of the channel.                                            *)
(***************************************************************************)
EXTENDS EventBus, SequenceTheorems, TLAPS

\* Where a client's receiver may be, and what it has been given, event by event
ReceiverInv ==
  \A c \in Client :
    /\ joined[c] <= cursor[c] /\ cursor[c] <= Len(log)
    /\ Len(got[c]) = cursor[c] - joined[c]
    /\ \A i \in 1..Len(got[c]) : got[c][i] = log[joined[c] + i]
    /\ stream[c] = "none" => joined[c] = cursor[c]

BusInv == TypeOK /\ ReceiverInv
-----------------------------------------------------------------------------
\* A run's next event is one of its events
LEMMA NextEvent ==
  ASSUME TypeOK, NEW w \in Workflow, sent[w] < EventCount[w]
  PROVE  Event(w, sent[w] + 1) \in Events
  <1>1. sent[w] + 1 \in 1..EventCount[w]
    BY EventBusAssumption DEF TypeOK
  <1> QED  BY <1>1 DEF Events

\* The log grows at its end only
LEMMA SendGrows ==
  ASSUME TypeOK, NEW w \in Workflow, Send(w)
  PROVE  /\ log' \in Seq(Events) /\ Len(log) \in Nat /\ Len(log') \in Nat
         /\ Len(log) <= Len(log')
         /\ \A i \in 1..Len(log) : log'[i] = log[i]
  <1>1. Event(w, sent[w] + 1) \in Events
    BY NextEvent DEF Send
  <1>2. log \in Seq(Events)
    BY DEF TypeOK
  <1>3. CASE Open = {}
    BY <1>2, <1>3 DEF Send, Accept
  <1>4. CASE Open # {}
    <2>1. log' = Append(log, Event(w, sent[w] + 1))
      BY <1>4 DEF Send, Accept
    <2> QED  BY <1>1, <1>2, <2>1, AppendProperties
  <1> QED  BY <1>3, <1>4

LEMMA SendInv ==
  ASSUME BusInv, NEW w \in Workflow, Send(w)
  PROVE  BusInv'
  <1>1. /\ log' \in Seq(Events) /\ Len(log) \in Nat /\ Len(log') \in Nat
        /\ Len(log) <= Len(log')
        /\ \A i \in 1..Len(log) : log'[i] = log[i]
    BY SendGrows DEF BusInv
  <1>2. UNCHANGED <<stream, joined, cursor, got>>
    BY DEF Send
  <1>3. TypeOK'
    <2>1. sent' \in [Workflow -> Nat] /\ \A v \in Workflow : sent'[v] <= EventCount[v]
      <3>1. sent' = [sent EXCEPT ![w] = sent[w] + 1] /\ sent[w] < EventCount[w]
        BY DEF Send
      <3>2. sent \in [Workflow -> Nat] /\ EventCount[w] \in Nat
        BY EventBusAssumption DEF BusInv, TypeOK
      <3>3. sent'[w] = sent[w] + 1 /\ \A v \in Workflow : v # w => sent'[v] = sent[v]
        BY <3>1, <3>2
      <3>4. sent'[w] <= EventCount[w]
        BY <3>1, <3>2, <3>3
      <3> QED  BY <3>1, <3>2, <3>3, <3>4 DEF BusInv, TypeOK
    <2> QED  BY <1>1, <1>2, <2>1 DEF BusInv, TypeOK
  <1>4. ReceiverInv'
    <2> SUFFICES ASSUME NEW c \in Client
        PROVE  /\ joined[c] <= cursor[c] /\ cursor[c] <= Len(log')
               /\ Len(got[c]) = cursor[c] - joined[c]
               /\ \A i \in 1..Len(got[c]) : got[c][i] = log'[joined[c] + i]
               /\ stream[c] = "none" => joined[c] = cursor[c]
      BY <1>2 DEF ReceiverInv
    <2>1. joined[c] \in Nat /\ cursor[c] \in Nat
      BY DEF BusInv, TypeOK
    <2>2. \A i \in 1..Len(got[c]) : joined[c] + i \in 1..Len(log)
      BY <1>1, <2>1 DEF BusInv, ReceiverInv
    <2>3. \A i \in 1..Len(got[c]) : got[c][i] = log'[joined[c] + i]
      BY <1>1, <2>2 DEF BusInv, ReceiverInv
    <2>4. cursor[c] <= Len(log')
      BY <1>1, <2>1 DEF BusInv, ReceiverInv
    <2> QED  BY <2>3, <2>4 DEF BusInv, ReceiverInv
  <1> QED  BY <1>3, <1>4 DEF BusInv

LEMMA SubscribeInv ==
  ASSUME BusInv, NEW c \in Client, Subscribe(c)
  PROVE  BusInv'
  <1>1. Len(log) \in Nat /\ log' = log /\ got' = got
    BY DEF BusInv, TypeOK, Subscribe
  <1>2. TypeOK'
    BY <1>1 DEF BusInv, TypeOK, Subscribe
  <1>3. ReceiverInv'
    <2>1. Len(got[c]) = 0
      BY DEF BusInv, TypeOK, ReceiverInv, Subscribe
    <2> QED  BY <1>1, <2>1 DEF BusInv, TypeOK, ReceiverInv, Subscribe
  <1> QED  BY <1>2, <1>3 DEF BusInv

LEMMA RecvInv ==
  ASSUME BusInv, NEW c \in Client, Recv(c)
  PROVE  BusInv'
  <1>1. /\ cursor[c] \in Nat /\ joined[c] \in Nat /\ Len(log) \in Nat /\ Dropped \in Nat
        /\ log \in Seq(Events) /\ got[c] \in Seq(Events)
    BY EventBusAssumption DEF BusInv, TypeOK, Dropped
  <1>2. cursor[c] + 1 \in 1..Len(log)
    BY <1>1 DEF Recv
  <1>3. /\ UNCHANGED <<sent, log, stream, joined>>
        /\ cursor' = [cursor EXCEPT ![c] = cursor[c] + 1]
        /\ got' = [got EXCEPT ![c] = Append(got[c], log[cursor[c] + 1])]
    BY DEF Recv
  <1>4. /\ Append(got[c], log[cursor[c] + 1]) \in Seq(Events)
        /\ Len(Append(got[c], log[cursor[c] + 1])) = Len(got[c]) + 1
        /\ \A i \in 1..Len(got[c]) : Append(got[c], log[cursor[c] + 1])[i] = got[c][i]
        /\ Append(got[c], log[cursor[c] + 1])[Len(got[c]) + 1] = log[cursor[c] + 1]
    BY <1>1, <1>2, AppendProperties
  <1>5. TypeOK'
    BY <1>1, <1>3, <1>4 DEF BusInv, TypeOK
  <1>6. ReceiverInv'
    <2>1. ASSUME NEW d \in Client, d # c
          PROVE  cursor'[d] = cursor[d] /\ got'[d] = got[d]
      BY <1>3, <2>1 DEF BusInv, TypeOK
    <2>2. cursor'[c] = cursor[c] + 1 /\ got'[c] = Append(got[c], log[cursor[c] + 1])
      BY <1>3 DEF BusInv, TypeOK
    <2>3. /\ joined[c] <= cursor[c] /\ Len(got[c]) = cursor[c] - joined[c]
          /\ \A i \in 1..Len(got[c]) : got[c][i] = log[joined[c] + i]
          /\ stream[c] # "none"
      BY DEF BusInv, ReceiverInv, Recv
    <2>4. \A i \in 1..(Len(got[c]) + 1) : got'[c][i] = log[joined[c] + i]
      <3> SUFFICES ASSUME NEW i \in 1..(Len(got[c]) + 1) PROVE got'[c][i] = log[joined[c] + i]
        OBVIOUS
      <3>1. Len(got[c]) \in Nat
        BY <1>1
      <3>2. CASE i = Len(got[c]) + 1
        <4>1. joined[c] + i = cursor[c] + 1
          BY <1>1, <2>3, <3>2
        <4> QED  BY <1>4, <2>2, <3>2, <4>1
      <3>3. CASE i # Len(got[c]) + 1
        <4>1. i \in 1..Len(got[c])
          BY <3>1, <3>3
        <4> QED  BY <1>4, <2>2, <2>3, <4>1
      <3> QED  BY <3>2, <3>3
    <2>5. /\ joined[c] <= cursor'[c] /\ cursor'[c] <= Len(log)
          /\ Len(got'[c]) = cursor'[c] - joined[c]
          /\ \A i \in 1..Len(got'[c]) : got'[c][i] = log[joined[c] + i]
      <3>1. Len(got'[c]) = Len(got[c]) + 1
        BY <1>4, <2>2
      <3>2. Len(got'[c]) = cursor'[c] - joined[c]
        BY <1>1, <2>2, <2>3, <3>1
      <3>3. joined[c] <= cursor'[c] /\ cursor'[c] <= Len(log)
        BY <1>1, <1>2, <2>2, <2>3
      <3> QED  BY <2>4, <3>1, <3>2, <3>3
    <2> QED  BY <1>3, <2>1, <2>3, <2>5 DEF BusInv, ReceiverInv
  <1> QED  BY <1>5, <1>6 DEF BusInv

LEMMA EndInv ==
  ASSUME BusInv, NEW c \in Client, Lag(c) \/ Close(c)
  PROVE  BusInv'
  <1>1. /\ UNCHANGED <<sent, log, joined, cursor, got>> /\ stream[c] = "open"
        /\ \/ stream' = [stream EXCEPT ![c] = "lagged"]
           \/ stream' = [stream EXCEPT ![c] = "closed"]
    BY DEF Lag, EndStream, Close
  <1>2. TypeOK'
    BY <1>1 DEF BusInv, TypeOK
  <1>3. ReceiverInv'
    BY <1>1 DEF BusInv, TypeOK, ReceiverInv
  <1> QED  BY <1>2, <1>3 DEF BusInv

LEMMA BusInvariant == Spec => []BusInv
  <1>1. Init => BusInv
    BY EventBusAssumption DEF Init, BusInv, TypeOK, ReceiverInv
  <1>2. BusInv /\ [Next]_vars => BusInv'
    <2> SUFFICES ASSUME BusInv, [Next]_vars PROVE BusInv'
      OBVIOUS
    <2>1. CASE UNCHANGED vars
      BY <2>1 DEF vars, BusInv, TypeOK, ReceiverInv
    <2> QED  BY <2>1, SendInv, SubscribeInv, RecvInv, EndInv DEF Next, StreamStep
  <1> QED  BY <1>1, <1>2, PTL DEF Spec
-----------------------------------------------------------------------------
\* Every state of the bus is well typed, for every capacity.
THEOREM TypeCorrect == Spec => []TypeOK
  <1>1. BusInv => TypeOK
    BY DEF BusInv
  <1> QED  BY <1>1, BusInvariant, PTL

\* What a client is given is a contiguous stretch of what was sent since it
\* subscribed, however far it fell behind.
THEOREM NoGaps == Spec => []GapFree
  <1>1. BusInv => GapFree
    <2> SUFFICES ASSUME BusInv, NEW c \in Client
        PROVE  got[c] = SubSeq(log, joined[c] + 1, cursor[c])
      BY DEF GapFree
    <2>1. /\ joined[c] \in Nat /\ cursor[c] \in Nat /\ Len(log) \in Nat
          /\ log \in Seq(Events) /\ got[c] \in Seq(Events)
          /\ joined[c] <= cursor[c] /\ cursor[c] <= Len(log)
          /\ Len(got[c]) = cursor[c] - joined[c]
          /\ \A i \in 1..Len(got[c]) : got[c][i] = log[joined[c] + i]
      BY DEF BusInv, TypeOK, ReceiverInv
    <2>2. \A i \in (joined[c] + 1)..cursor[c] : log[i] \in Events
      BY <2>1
    <2>3. PICK s : s = SubSeq(log, joined[c] + 1, cursor[c])
      OBVIOUS
    <2>4. /\ s \in Seq(Events)
          /\ Len(s) = cursor[c] - joined[c]
          /\ \A i \in 1..(cursor[c] - joined[c]) : s[i] = log[joined[c] + i]
      <3>1. /\ s \in Seq(Events)
            /\ Len(s) = IF joined[c] + 1 <= cursor[c] THEN cursor[c] - (joined[c] + 1) + 1 ELSE 0
            /\ \A i \in 1..(cursor[c] - (joined[c] + 1) + 1) : s[i] = log[joined[c] + 1 + i - 1]
        BY <2>1, <2>2, <2>3, SubSeqProperties
      <3>2. Len(s) = cursor[c] - joined[c]
        BY <2>1, <3>1
      <3>3. ASSUME NEW i \in 1..(cursor[c] - joined[c]) PROVE s[i] = log[joined[c] + i]
        <4>1. i \in 1..(cursor[c] - (joined[c] + 1) + 1) /\ joined[c] + 1 + i - 1 = joined[c] + i
          BY <2>1
        <4> QED  BY <3>1, <4>1
      <3> QED  BY <3>1, <3>2, <3>3
    <2>5. Len(s) = Len(got[c]) /\ \A i \in 1..Len(s) : s[i] = got[c][i]
      BY <2>1, <2>4
    <2>6. s = got[c]
      BY <2>1, <2>4, <2>5, SeqEqual
    <2> QED  BY <2>3, <2>6
  <1> QED  BY <1>1, BusInvariant, PTL
-----------------------------------------------------------------------------
(* The order of a workflow's events *)

\* i and j are the places of two successive events of one workflow
Successive(i, j) ==
  /\ i < j /\ log[i].workflow = log[j].workflow
  /\ \A k \in (i + 1)..(j - 1) : log[k].workflow # log[i].workflow

\* The i-th event is the latest of its workflow
Latest(i) == \A k \in (i + 1)..Len(log) : log[k].workflow # log[i].workflow

\* The part of the log a client was given or, with an open stream, may be given
Upto(c) == IF stream[c] = "open" THEN Len(log) ELSE cursor[c]

\* As long as a client listens nothing is missing from the log
OrderInv ==
  \A c \in Client :
    /\ \A i, j \in (joined[c] + 1)..Upto(c) : Successive(i, j) => log[j].number = log[i].number + 1
    /\ stream[c] = "open" =>
         \A i \in (joined[c] + 1)..Len(log) : Latest(i) => log[i].number = sent[log[i].workflow]

LEMMA SendOrder ==
  ASSUME BusInv, OrderInv, NEW w \in Workflow, Send(w)
  PROVE  OrderInv'
  <1>1. PICK L \in Nat : L = Len(log)
    BY DEF BusInv, TypeOK
  <1>2. UNCHANGED <<stream, joined, cursor, got>> /\ sent' = [sent EXCEPT ![w] = sent[w] + 1]
    BY DEF Send
  <1>3. CASE Open = {}
    <2>1. log' = log /\ \A c \in Client : stream[c] # "open"
      BY <1>3 DEF Send, Accept, Open
    <2> QED  BY <1>2, <2>1 DEF OrderInv, Upto, Successive
  <1>4. CASE Open # {}
    <2>1. log' = Append(log, Event(w, sent[w] + 1))
      BY <1>4 DEF Send, Accept
    <2>2. Event(w, sent[w] + 1) \in Events /\ log \in Seq(Events)
      BY NextEvent DEF Send, BusInv, TypeOK
    <2>3. /\ Len(log') = L + 1 /\ \A i \in 1..L : log'[i] = log[i]
          /\ log'[L + 1] = Event(w, sent[w] + 1)
      BY <1>1, <2>1, <2>2, AppendProperties
    <2>4. log'[L + 1].workflow = w /\ log'[L + 1].number = sent[w] + 1
      BY <2>3 DEF Event
    <2>5. sent'[w] = sent[w] + 1 /\ \A v \in Workflow : v # w => sent'[v] = sent[v]
      BY <1>2 DEF BusInv, TypeOK
    <2>6. \A i \in 1..L : log[i].workflow \in Workflow
      BY <1>1, <2>2 DEF Events, Event
    <2>7. ASSUME NEW c \in Client
          PROVE  joined[c] \in Nat /\ cursor[c] \in Nat /\ joined[c] <= L /\ cursor[c] <= L
      BY <1>1 DEF BusInv, TypeOK, ReceiverInv
    <2>8. ASSUME NEW c \in Client, stream[c] = "open", NEW i \in (joined[c] + 1)..(L + 1), Latest(i)'
          PROVE  log'[i].number = sent'[log'[i].workflow]
      <3>1. i \in 1..(L + 1)
        BY <2>7
      <3>2. CASE i = L + 1
        BY <2>4, <2>5, <3>2
      <3>3. CASE i # L + 1
        <4>1. i \in 1..L /\ L + 1 \in (i + 1)..(L + 1)
          BY <3>1, <3>3
        <4>2. log'[i] = log[i] /\ log[i].workflow # w
          BY <2>3, <2>4, <2>8, <4>1 DEF Latest
        <4>3. \A k \in (i + 1)..L : log[k].workflow # log[i].workflow
          <5> SUFFICES ASSUME NEW k \in (i + 1)..L PROVE log[k].workflow # log[i].workflow
            OBVIOUS
          <5>1. k \in (i + 1)..(L + 1) /\ k \in 1..L
            BY <4>1
          <5> QED  BY <2>3, <2>8, <4>2, <5>1 DEF Latest
        <4>4. i \in (joined[c] + 1)..L
          BY <2>7, <3>3
        <4>5. log[i].number = sent[log[i].workflow]
          BY <1>1, <2>8, <4>3, <4>4 DEF OrderInv, Latest
        <4> QED  BY <2>5, <2>6, <4>1, <4>2, <4>5
      <3> QED  BY <3>2, <3>3
    <2>9. ASSUME NEW c \in Client, NEW i \in (joined[c] + 1)..Upto(c)', NEW j \in (joined[c] + 1)..Upto(c)',
                 Successive(i, j)'
          PROVE  log'[j].number = log'[i].number + 1
      <3>1. Upto(c)' = (IF stream[c] = "open" THEN L + 1 ELSE cursor[c])
        BY <1>2, <2>3 DEF Upto
      <3>2. i \in 1..(L + 1) /\ j \in 1..(L + 1) /\ i < j /\ i \in 1..L
        <4>1. Upto(c)' \in Nat /\ Upto(c)' <= L + 1
          BY <2>7, <3>1
        <4> QED  BY <2>7, <2>9, <4>1 DEF Successive
      <3>3. log'[i] = log[i]
        BY <2>3, <3>2
      <3>4. CASE j = L + 1
        <4>1. stream[c] = "open"
          BY <2>7, <2>9, <3>1, <3>4
        <4>2. log[i].workflow = w /\ Latest(i)
          <5>1. log[i].workflow = w
            BY <2>4, <2>9, <3>3, <3>4 DEF Successive
          <5>2. ASSUME NEW k \in (i + 1)..L PROVE log[k].workflow # log[i].workflow
            <6>1. k \in (i + 1)..(j - 1) /\ k \in 1..L
              BY <3>2, <3>4
            <6> QED  BY <2>3, <2>9, <3>3, <6>1 DEF Successive
          <5> QED  BY <1>1, <5>1, <5>2 DEF Latest
        <4>3. i \in (joined[c] + 1)..L
          BY <2>7, <3>2
        <4>4. log[i].number = sent[w]
          BY <1>1, <4>1, <4>2, <4>3 DEF OrderInv
        <4> QED  BY <2>4, <3>3, <3>4, <4>4
      <3>5. CASE j # L + 1
        <4>1. j \in 1..L /\ log'[j] = log[j]
          BY <2>3, <3>2, <3>5
        <4>2. i \in (joined[c] + 1)..Upto(c) /\ j \in (joined[c] + 1)..Upto(c)
          BY <1>1, <2>7, <3>1, <3>2, <4>1 DEF Upto
        <4>3. Successive(i, j)
          <5>1. \A k \in (i + 1)..(j - 1) : log'[k] = log[k]
            BY <2>3, <3>2, <4>1
          <5> QED  BY <2>9, <3>3, <4>1, <5>1 DEF Successive
        <4> QED  BY <3>3, <4>1, <4>2, <4>3 DEF OrderInv
      <3> QED  BY <3>4, <3>5
    <2> QED  BY <1>2, <2>3, <2>8, <2>9 DEF OrderInv
  <1> QED  BY <1>3, <1>4

\* The other steps leave the log and the runs alone and move one client
LEMMA ClientOrder ==
  ASSUME BusInv, OrderInv, NEW c \in Client, Subscribe(c) \/ Recv(c) \/ Lag(c) \/ Close(c)
  PROVE  OrderInv'
  <1>1. /\ log' = log /\ sent' = sent
        /\ \A d \in Client : d # c => stream'[d] = stream[d] /\ joined'[d] = joined[d] /\ cursor'[d] = cursor[d]
    BY DEF Subscribe, Recv, Lag, EndStream, Close, BusInv, TypeOK
  <1>2. \A i, j : Successive(i, j)' <=> Successive(i, j)
    BY <1>1 DEF Successive
  <1>3. \A i : Latest(i)' <=> Latest(i)
    BY <1>1 DEF Latest
  <1>4. /\ Len(log) \in Nat /\ joined[c] \in Nat /\ cursor[c] \in Nat /\ cursor[c] <= Len(log)
        /\ joined'[c] \in Nat
    BY DEF BusInv, TypeOK, ReceiverInv, Subscribe, Recv, Lag, Close
  <1>5. \/ stream'[c] = "open" /\ joined'[c] = Len(log)
        \/ joined'[c] = joined[c] /\ stream[c] = "open"
           /\ (stream'[c] = "open" \/ (stream'[c] # "open" /\ cursor'[c] = cursor[c]))
    BY DEF Subscribe, Recv, Lag, EndStream, Close, BusInv, TypeOK
  <1>6. /\ \A i, j \in (joined'[c] + 1)..Upto(c)' : Successive(i, j) => log[j].number = log[i].number + 1
        /\ stream'[c] = "open" =>
             \A i \in (joined'[c] + 1)..Len(log) : Latest(i) => log[i].number = sent[log[i].workflow]
    <2>1. CASE stream'[c] = "open" /\ joined'[c] = Len(log)
      <3>1. Upto(c)' = Len(log) /\ (joined'[c] + 1)..Len(log) = {}
        BY <1>1, <1>4, <2>1 DEF Upto
      <3> QED  BY <3>1
    <2>2. CASE /\ joined'[c] = joined[c] /\ stream[c] = "open"
               /\ (stream'[c] = "open" \/ (stream'[c] # "open" /\ cursor'[c] = cursor[c]))
      <3>1. Upto(c) = Len(log) /\ Upto(c)' \in Nat /\ Upto(c)' <= Len(log)
        BY <1>1, <1>4, <2>2 DEF Upto
      <3>2. (joined[c] + 1)..Upto(c)' \subseteq (joined[c] + 1)..Upto(c)
        BY <1>4, <3>1
      <3> QED  BY <2>2, <3>2 DEF OrderInv
    <2> QED  BY <1>5, <2>1, <2>2
  <1>7. \A d \in Client : d # c => Upto(d)' = Upto(d)
    BY <1>1 DEF Upto
  <1>8. ASSUME NEW d \in Client
        PROVE  /\ \A i, j \in (joined'[d] + 1)..Upto(d)' : Successive(i, j) => log[j].number = log[i].number + 1
               /\ stream'[d] = "open" =>
                    \A i \in (joined'[d] + 1)..Len(log) : Latest(i) => log[i].number = sent[log[i].workflow]
    <2>1. CASE d = c
      BY <1>6, <2>1
    <2>2. CASE d # c
      BY <1>1, <1>7, <2>2 DEF OrderInv
    <2> QED  BY <2>1, <2>2
  <1> QED  BY <1>1, <1>2, <1>3, <1>8 DEF OrderInv

LEMMA OrderInvariant == Spec => []OrderInv
  <1>1. Init => OrderInv
    <2> SUFFICES ASSUME Init, NEW c \in Client PROVE (joined[c] + 1)..Upto(c) = {} /\ stream[c] # "open"
      BY DEF OrderInv
    <2>1. joined[c] = 0 /\ cursor[c] = 0 /\ stream[c] = "none"
      BY DEF Init
    <2> QED  BY <2>1 DEF Upto
  <1>2. BusInv /\ OrderInv /\ [Next]_vars => OrderInv'
    <2> SUFFICES ASSUME BusInv, OrderInv, [Next]_vars PROVE OrderInv'
      OBVIOUS
    <2>1. CASE UNCHANGED vars
      BY <2>1 DEF vars, OrderInv, Upto, Successive, Latest
    <2> QED  BY <2>1, SendOrder, ClientOrder DEF Next, StreamStep
  <1> QED  BY <1>1, <1>2, BusInvariant, PTL DEF Spec

\* A client sees the events of each workflow in order and without a hole
\* between two of them, for any number of concurrent workflows.
THEOREM InOrder == Spec => []WorkflowInOrder
  <1>1. BusInv /\ OrderInv => WorkflowInOrder
    <2> SUFFICES ASSUME BusInv, OrderInv, NEW c \in Client, NEW i \in DOMAIN got[c], NEW j \in DOMAIN got[c],
                        i < j, got[c][i].workflow = got[c][j].workflow,
                        \A k \in (i + 1)..(j - 1) : got[c][k].workflow # got[c][i].workflow
        PROVE  got[c][j].number = got[c][i].number + 1
      BY DEF WorkflowInOrder
    <2>1. /\ joined[c] \in Nat /\ cursor[c] \in Nat /\ Len(log) \in Nat /\ cursor[c] <= Len(log)
          /\ Len(got[c]) = cursor[c] - joined[c] /\ DOMAIN got[c] = 1..Len(got[c])
          /\ \A k \in 1..Len(got[c]) : got[c][k] = log[joined[c] + k]
      BY DEF BusInv, TypeOK, ReceiverInv
    <2>2. PICK J \in Nat, C \in Nat : J = joined[c] /\ C = cursor[c] /\ Len(got[c]) = C - J
      BY <2>1
    <2>3. i \in 1..(C - J) /\ j \in 1..(C - J) /\ Upto(c) \in Nat /\ C <= Upto(c)
      <3>1. DOMAIN got[c] = 1..(C - J)
        BY <2>1, <2>2
      <3>2. C <= Len(log) /\ Len(log) \in Nat /\ Upto(c) = (IF stream[c] = "open" THEN Len(log) ELSE C)
        BY <2>1, <2>2 DEF Upto
      <3> QED  BY <3>1, <3>2
    <2>4. J + i \in (J + 1)..Upto(c) /\ J + j \in (J + 1)..Upto(c) /\ J + i < J + j
      BY <2>3
    <2>5. got[c][i] = log[J + i] /\ got[c][j] = log[J + j]
      BY <2>1, <2>2, <2>3
    <2>6. ASSUME NEW k \in (J + i + 1)..(J + j - 1) PROVE log[k].workflow # log[J + i].workflow
      <3>1. k - J \in (i + 1)..(j - 1) /\ k - J \in 1..(C - J) /\ J + (k - J) = k
        BY <2>3
      <3>2. got[c][k - J] = log[k]
        BY <2>1, <2>2, <3>1
      <3> QED  BY <2>5, <3>1, <3>2
    <2>7. Successive(J + i, J + j)
      BY <2>3, <2>4, <2>5, <2>6 DEF Successive
    <2>8. log[J + j].number = log[J + i].number + 1
      BY <2>2, <2>4, <2>7 DEF OrderInv
    <2> QED  BY <2>5, <2>8
  <1> QED  BY <1>1, BusInvariant, OrderInvariant, PTL

\* A client that has read all there is has the last event of every run it saw
\* anything of, for any number of runs and subscribers and any capacity.
THEOREM CaughtUp == Spec => []UpToDate
  <1>1. BusInv /\ OrderInv => UpToDate
    <2> SUFFICES ASSUME BusInv, OrderInv, NEW c \in Client, stream[c] = "open", cursor[c] = Len(log),
                        NEW i \in DOMAIN got[c],
                        \A k \in (i + 1)..Len(got[c]) : got[c][k].workflow # got[c][i].workflow
        PROVE  got[c][i].number = sent[got[c][i].workflow]
      BY DEF UpToDate
    <2>1. /\ joined[c] \in Nat /\ Len(log) \in Nat /\ joined[c] <= Len(log)
          /\ Len(got[c]) \in Nat /\ DOMAIN got[c] = 1..Len(got[c])
          /\ Len(got[c]) = Len(log) - joined[c]
          /\ \A m \in 1..Len(got[c]) : got[c][m] = log[joined[c] + m]
      BY DEF BusInv, TypeOK, ReceiverInv
    <2>2. PICK J \in Nat, L \in Nat : J = joined[c] /\ L = Len(log)
      BY <2>1
    <2>3. i \in 1..(L - J) /\ Len(got[c]) = L - J
      BY <2>1, <2>2
    <2>4. J + i \in (J + 1)..L /\ got[c][i] = log[J + i]
      BY <2>1, <2>2, <2>3
    <2>5. ASSUME NEW k \in (J + i + 1)..L PROVE log[k].workflow # log[J + i].workflow
      <3>1. k - J \in (i + 1)..(L - J) /\ k - J \in 1..(L - J) /\ J + (k - J) = k
        BY <2>3
      <3>2. got[c][k - J] = log[k]
        BY <2>1, <2>2, <2>3, <3>1
      <3> QED  BY <2>3, <2>4, <3>1, <3>2
    <2>6. Latest(J + i)
      BY <2>2, <2>5 DEF Latest
    <2> QED  BY <2>2, <2>4, <2>6 DEF OrderInv
  <1> QED  BY <1>1, BusInvariant, OrderInvariant, PTL
=============================================================================
