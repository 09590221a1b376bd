------------------------------ MODULE EventBus ------------------------------
(***************************************************************************)
(* The event bus: the bounded broadcast channel of a Scheduler             *)
(* (scheduler.rs), the workflow runs that send their KernelEvents on it,   *)
(* and the GraphQL subscriptions of kernelflow-api that read it.           *)
(*                                                                         *)
(* tokio's channel keeps the last Capacity messages for all receivers and  *)
(* never makes a sender wait.  Every receiver has a cursor of its own; one *)
(* that falls behind the oldest message kept gets RecvError::Lagged, and   *)
(* `while let Ok(ev) = rx.recv().await` ends the stream there.  AppState   *)
(* holds a sender, so RecvError::Closed does not happen.                   *)
(***************************************************************************)
EXTENDS Integers, Sequences, FiniteSets

CONSTANTS
  Workflow,     \* the runs that share the scheduler
  EventCount,   \* EventCount[w]: how many events run w sends
  Client,       \* the clients of the API, one subscription each
  Eager,        \* the clients that keep reading as long as they are subscribed
  Capacity      \* cfg.event_buffer, a power of two

ASSUME EventBusAssumption ==
  /\ EventCount \in [Workflow -> Nat]
  /\ Eager \subseteq Client
  /\ Capacity \in Nat \ {0}

VARIABLES
  sent,     \* how many events each run has sent, with or without receivers
  log,      \* the messages the channel accepted; it still holds the last Capacity of them
  stream,   \* each client's stream: "none", "open", "lagged" (it ended), "closed" (by the client)
  joined,   \* the channel's tail when the client subscribed
  cursor,   \* the position of the client's receiver
  got       \* what was yielded to the client

vars == <<sent, log, stream, joined, cursor, got>>

\* The k-th event of run w
Event(w, k) == [workflow |-> w, number |-> k]
Events == UNION {{Event(w, k) : k \in 1..EventCount[w]} : w \in Workflow}

\* Scheduler::new (or main) creates the channel and drops its first receiver
Init ==
  /\ sent = [w \in Workflow |-> 0]
  /\ log = << >>
  /\ stream = [c \in Client |-> "none"]
  /\ joined = [c \in Client |-> 0]
  /\ cursor = [c \in Client |-> 0]
  /\ got = [c \in Client |-> << >>]

Open == {c \in Client : stream[c] = "open"}
\* The oldest message the channel still holds comes after this position
Dropped == IF Len(log) > Capacity THEN Len(log) - Capacity ELSE 0
-----------------------------------------------------------------------------
\* Mutant: an event that does not fit is thrown away
AcceptIfRoom(e) == IF \A c \in Open : Len(log) - cursor[c] < Capacity THEN Append(log, e) ELSE log

\* Without a receiver the channel refuses the event
Accept(e) == IF Open = {} THEN log ELSE Append(log, e)

\* `let _ = self.events.send(..)`: an error is ignored, and no receiver makes
\* the run wait
Send(w) ==
  /\ sent[w] < EventCount[w]
  /\ sent' = [sent EXCEPT ![w] = @ + 1]
  /\ log' = Accept(Event(w, sent[w] + 1))
  /\ UNCHANGED <<stream, joined, cursor, got>>

\* SubscriptionRoot::events: state.events.subscribe() starts at the tail
Subscribe(c) ==
  /\ stream[c] = "none"
  /\ stream' = [stream EXCEPT ![c] = "open"]
  /\ joined' = [joined EXCEPT ![c] = Len(log)]
  /\ cursor' = [cursor EXCEPT ![c] = Len(log)]
  /\ UNCHANGED <<sent, log, got>>

\* `Ok(ev) = rx.recv().await`, and the client takes the EventDto
Recv(c) ==
  /\ stream[c] = "open"
  /\ cursor[c] \in Dropped..(Len(log) - 1)
  /\ got' = [got EXCEPT ![c] = Append(@, log[cursor[c] + 1])]
  /\ cursor' = [cursor EXCEPT ![c] = @ + 1]
  /\ UNCHANGED <<sent, log, stream, joined>>

\* Mutant: a receiver that lags is never woken again
RecvFailsNever(c) == FALSE

\* recv yields Err(Lagged)
RecvFails(c) == cursor[c] < Dropped

\* Mutant: the loop goes on, at the oldest message
SkipLost(c) == cursor' = [cursor EXCEPT ![c] = Dropped] /\ UNCHANGED stream

\* Mutant: the loop subscribes anew and goes on
Resubscribe(c) == cursor' = [cursor EXCEPT ![c] = Len(log)] /\ UNCHANGED stream

\* The while-let loop, and with it the stream, ends
EndStream(c) == stream' = [stream EXCEPT ![c] = "lagged"] /\ UNCHANGED cursor

Lag(c) ==
  /\ stream[c] = "open"
  /\ RecvFails(c)
  /\ EndStream(c)
  /\ UNCHANGED <<sent, log, joined, got>>

\* The client closes its WebSocket and the receiver is dropped
Close(c) ==
  /\ stream[c] = "open"
  /\ stream' = [stream EXCEPT ![c] = "closed"]
  /\ UNCHANGED <<sent, log, joined, cursor, got>>

StreamStep(c) == Recv(c) \/ Lag(c)

Next ==
  \/ \E w \in Workflow : Send(w)
  \/ \E c \in Client : Subscribe(c) \/ StreamStep(c) \/ Close(c)

Spec == Init /\ [][Next]_vars

\* A stream is polled only when its client asks for more, which only the eager
\* ones are sure to do.  Nothing is assumed of the runs and the other clients.
FairSpec ==
  /\ Spec
  /\ \A c \in Eager : WF_vars(StreamStep(c))
-----------------------------------------------------------------------------
\* Type correctness
TypeOK ==
  /\ sent \in [Workflow -> Nat]
  /\ \A w \in Workflow : sent[w] <= EventCount[w]
  /\ log \in Seq(Events)
  /\ stream \in [Client -> {"none", "open", "lagged", "closed"}]
  /\ joined \in [Client -> Nat]
  /\ cursor \in [Client -> Nat]
  /\ got \in [Client -> Seq(Events)]

\* What a subscription delivers has no gap, no duplicate and no reordering: it
\* is a contiguous stretch of what was sent since the client subscribed, however
\* far the client fell behind.  The loop must not go on after RecvError::Lagged.
GapFree ==
  \A c \in Client : got[c] = SubSeq(log, joined[c] + 1, cursor[c])

\* A client that stays sees each workflow in the order of its own events,
\* without a hole between two of them, although runs interleave on the channel.
WorkflowInOrder ==
  \A c \in Client : \A i, j \in DOMAIN got[c] :
    (/\ i < j /\ got[c][i].workflow = got[c][j].workflow
     /\ \A k \in (i + 1)..(j - 1) : got[c][k].workflow # got[c][i].workflow) =>
      got[c][j].number = got[c][i].number + 1

\* A client that has read all there is is up to date: the last event it was
\* given of a workflow is the last one the run has sent, so it does not wait in
\* vain for the terminal event of a run that is over.  Nothing gets lost between
\* the senders and an open stream, neither when runs interleave, nor when the
\* channel overflows, nor because events without a receiver are refused.
UpToDate ==
  \A c \in Client : stream[c] = "open" /\ cursor[c] = Len(log) =>
    \A i \in DOMAIN got[c] :
      (\A k \in (i + 1)..Len(got[c]) : got[c][k].workflow # got[c][i].workflow) =>
        got[c][i].number = sent[got[c][i].workflow]

\* An event sent while an eager client is subscribed is delivered to it, or its
\* stream ends: no stream hangs open for ever with events outstanding.
DeliveredOrEnded ==
  \A c \in Eager : []<>(stream[c] = "open" => cursor[c] = Len(log))
=============================================================================
