----------------------------- MODULE Resilience -----------------------------
(***************************************************************************)
(* ResilientExecutor of kernelflow-scheduler (resilience.rs): rate limit,  *)
(* circuit breaker, timeout and retry around a call, shared by all actors  *)
(* of a workflow run.  Every caller calls run again and again; the callers *)
(* interleave at each await: the breaker's lock, the attempt under its     *)
(* timeout, and the backoff sleep.                                         *)
(*                                                                         *)
(* Time is abstract: the breaker's open_until is in the future ("cooling") *)
(* until the clock passes it ("elapsed"), an attempt may time out at any   *)
(* moment, and the limiter gets a token back at any moment.                *)
(***************************************************************************)
EXTENDS Integers, FiniteSets

CONSTANTS
  Caller,           \* the actors that share the executor
  Rps,              \* cfg.rps
  MaxRetries,       \* cfg.max_retries
  InitialBackoff,   \* cfg.initial_backoff
  MaxBackoff,       \* cfg.max_backoff
  Threshold         \* cfg.circuit_threshold, a u8

ASSUME ResilienceAssumption ==
  /\ IsFiniteSet(Caller)
  /\ Rps \in Nat
  /\ MaxRetries \in Nat
  /\ InitialBackoff \in Nat
  /\ MaxBackoff \in Nat
  /\ Threshold \in 0..255

VARIABLES
  tokens,     \* cells left in the governor limiter
  failures,   \* breaker.failures, a u8
  openUntil,  \* breaker.open_until: "none", "cooling", "elapsed"
  pc,         \* where each caller is in run, or what its last run returned
  attempt,    \* run's attempt
  backoff,    \* run's backoff
  outcome,    \* what each caller's last attempt ended with
  streak,     \* history: failed runs since the last successful one, up to Threshold
  fresh       \* history: the same, counted anew each time the breaker is reset

vars == <<tokens, failures, openUntil, pc, attempt, backoff, outcome, streak, fresh>>
breaker == <<failures, openUntil>>
locals == <<attempt, backoff, outcome>>
history == <<streak, fresh>>

AtLeast1(x) == IF x < 1 THEN 1 ELSE x
AtMost(x, bound) == IF x > bound THEN bound ELSE x

\* Quota::per_second(cfg.rps.max(1)) allows a burst of that many cells
Burst == AtLeast1(Rps)
\* The loop of run gives up when attempt >= cfg.max_retries, after one attempt at least
Attempts == AtLeast1(MaxRetries)

Init ==
  /\ tokens = Burst
  /\ failures = 0
  /\ openUntil = "none"
  /\ pc = [c \in Caller |-> "new"]
  /\ attempt = [c \in Caller |-> 0]
  /\ backoff = [c \in Caller |-> InitialBackoff]
  /\ outcome = [c \in Caller |-> "none"]
  /\ streak = 0
  /\ fresh = 0

\* A caller outside run: it has not called yet, or holds what run returned
Resting == {"new", "Ok", "Err", "Timeout", "RateLimited", "CircuitOpen"}

\* run returns r to the caller and its locals are gone
Return(c, r) ==
  /\ pc' = [pc EXCEPT ![c] = r]
  /\ attempt' = [attempt EXCEPT ![c] = 0]
  /\ backoff' = [backoff EXCEPT ![c] = InitialBackoff]
  /\ outcome' = [outcome EXCEPT ![c] = "none"]
-----------------------------------------------------------------------------
\* Mutant: a refusal is reported to the breaker like an answer of the node
RefuseAsOk(c) == Return(c, "RateLimited") /\ failures' = 0 /\ UNCHANGED openUntil

\* RateLimited, before the breaker is asked
Refuse(c) == Return(c, "RateLimited") /\ UNCHANGED breaker

\* run is called: limiter.check()
Limit(c) ==
  /\ pc[c] \in Resting
  /\ IF tokens = 0
     THEN Refuse(c) /\ UNCHANGED tokens
     ELSE /\ tokens' = tokens - 1
          /\ pc' = [pc EXCEPT ![c] = "gate"]
          /\ UNCHANGED <<locals, breaker>>
  /\ UNCHANGED history

\* Mutant: allow never refuses
AllowAlways(c) ==
  /\ pc[c] = "gate"
  /\ pc' = [pc EXCEPT ![c] = "exec"]
  /\ attempt' = [attempt EXCEPT ![c] = 1]
  /\ UNCHANGED <<breaker, backoff, outcome, tokens, history>>

\* breaker.allow(): refuse while cooling, reset a breaker that has cooled down,
\* and start the first attempt
Allow(c) ==
  /\ pc[c] = "gate"
  /\ IF openUntil = "cooling"
     THEN Return(c, "CircuitOpen") /\ UNCHANGED breaker
     ELSE /\ failures' = IF openUntil = "elapsed" THEN 0 ELSE failures
          /\ openUntil' = "none"
          /\ pc' = [pc EXCEPT ![c] = "exec"]
          /\ attempt' = [attempt EXCEPT ![c] = 1]
          /\ UNCHANGED <<backoff, outcome>>
  /\ fresh' = IF openUntil = "elapsed" THEN 0 ELSE fresh
  /\ UNCHANGED <<tokens, streak>>

\* Mutant: max_retries counts the attempts after the first
EndsOneLater(c, o) == o = "Ok" \/ attempt[c] > MaxRetries

\* Mutant: a timeout is not retried
EndsOnTimeout(c, o) == o # "Err" \/ attempt[c] >= MaxRetries

\* The loop is left with Ok, or with the error of the last attempt
Ends(c, o) == o = "Ok" \/ attempt[c] >= MaxRetries

\* `timeout(cfg.timeout, f()).await` is over: the node returned Ok or Err, or
\* the time was up and the node's future is dropped
Attempt(c, o) ==
  /\ pc[c] = "exec"
  /\ o \in {"Ok", "Err", "Timeout"}
  /\ outcome' = [outcome EXCEPT ![c] = o]
  /\ pc' = [pc EXCEPT ![c] = IF Ends(c, o) THEN "settle" ELSE "sleep"]
  /\ UNCHANGED <<tokens, breaker, attempt, backoff, history>>

\* `(backoff * 2).min(cfg.max_backoff)`
NextBackoff(b) == AtMost(b * 2, MaxBackoff)

\* Mutant: the attempt is not counted
SameAttempt(a) == a

NextAttempt(a) == a + 1

\* The backoff sleep is over; the next attempt starts
Wake(c) ==
  /\ pc[c] = "sleep"
  /\ backoff' = [backoff EXCEPT ![c] = NextBackoff(@)]
  /\ attempt' = [attempt EXCEPT ![c] = NextAttempt(@)]
  /\ pc' = [pc EXCEPT ![c] = "exec"]
  /\ UNCHANGED <<tokens, breaker, outcome, history>>

\* Mutant: a success does not end the row of failures
OnSuccessNothing == UNCHANGED failures

\* CircuitBreaker::on_success leaves open_until alone
OnSuccess == failures' = 0

\* breaker.on_success(): a breaker that is open stays open
SettleOk(c) ==
  /\ pc[c] = "settle"
  /\ outcome[c] = "Ok"
  /\ OnSuccess
  /\ streak' = 0
  /\ fresh' = 0
  /\ Return(c, "Ok")
  /\ UNCHANGED <<tokens, openUntil>>

\* Mutant: the breaker opens one failure late
TripsLate(f) == f > Threshold

Trips(f) == f >= Threshold

\* breaker.on_failure(): a breaker that is open already starts cooling anew
SettleErr(c) ==
  /\ pc[c] = "settle"
  /\ outcome[c] # "Ok"
  /\ failures' = AtMost(failures + 1, 255)
  /\ openUntil' = IF Trips(failures') THEN "cooling" ELSE openUntil
  /\ streak' = AtMost(streak + 1, Threshold)
  /\ fresh' = AtMost(fresh + 1, Threshold)
  /\ Return(c, outcome[c])
  /\ UNCHANGED tokens

\* The node's code panics (unwinding build): the actor's task ends inside run
\* and the breaker hears nothing of it
Panic(c) ==
  /\ pc[c] = "exec"
  /\ pc' = [pc EXCEPT ![c] = "dead"]
  /\ UNCHANGED <<tokens, breaker, locals, history>>

CallerStep(c) ==
  \/ Limit(c) \/ Allow(c) \/ (\E o \in {"Ok", "Err", "Timeout"} : Attempt(c, o))
  \/ Wake(c) \/ SettleOk(c) \/ SettleErr(c) \/ Panic(c)
-----------------------------------------------------------------------------
\* The clock passes open_until
CoolDown ==
  /\ openUntil = "cooling"
  /\ openUntil' = "elapsed"
  /\ UNCHANGED <<tokens, failures, pc, locals, history>>

\* The limiter's quota yields another cell
Replenish ==
  /\ tokens < Burst
  /\ tokens' = tokens + 1
  /\ UNCHANGED <<breaker, pc, locals, history>>

Next == CoolDown \/ Replenish \/ \E c \in Caller : CallerStep(c)

Spec == Init /\ [][Next]_vars

\* The runtime polls every caller that is inside run (nobody has to call run),
\* timers fire (tokio::time::timeout, sleep) and time passes.
FairSpec ==
  /\ Spec
  /\ WF_vars(CoolDown)
  /\ \A c \in Caller : WF_vars(pc[c] \notin Resting /\ CallerStep(c))
-----------------------------------------------------------------------------
Running == {"exec", "sleep", "settle"}

\* Type correctness.  attempt never passes max(1, max_retries): run executes the
\* node that often at most.
TypeOK ==
  /\ tokens \in 0..Burst
  /\ failures \in 0..255
  /\ openUntil \in {"none", "cooling", "elapsed"}
  /\ pc \in [Caller -> Resting \cup Running \cup {"gate", "dead"}]
  /\ attempt \in [Caller -> 0..Attempts]
  /\ backoff \in [Caller -> Nat]
  /\ outcome \in [Caller -> {"none", "Ok", "Err", "Timeout"}]
  /\ streak \in 0..Threshold
  /\ fresh \in 0..Threshold

\* A breaker that lets calls through has counted fewer than `threshold` failures
\* since its last reset, whatever calls were in flight when it was reset.
ClosedBelowThreshold == openUntil = "none" => failures < AtLeast1(Threshold)

\* Calls admitted before the breaker opened go on failing while it is open, but
\* no more than one per caller: the u8 counter stays below 255 and
\* saturating_add never saturates unless more than 255 - threshold actors share
\* the executor.
FailuresBounded ==
  failures + Cardinality({c \in Caller : pc[c] \in Running})
    <= AtLeast1(Threshold) - 1 + Cardinality(Caller)

\* "consecutive failures before open" (resilience.rs:20): when the breaker
\* opens, the last `threshold` runs that ended have all failed.
TripsOnStreak ==
  [][openUntil # "cooling" /\ openUntil' = "cooling" => streak' = Threshold]_vars

\* The breaker opens in time: while it is closed, fewer than `threshold` runs
\* have failed in a row since it was last reset.  Calls that the limiter or the
\* breaker refused, that panicked or that are still retrying break no row, and
\* neither does a run admitted before a reset that fails after it.
OpensInTime == openUntil = "none" => fresh < AtLeast1(Threshold)

\* run returns an error of the node only after all its attempts failed.
ErrAfterAllAttempts ==
  \A c \in Caller : pc[c] = "settle" /\ outcome[c] # "Ok" => attempt[c] = Attempts

\* Every call of run returns, refused or executed, unless the node panics.
RunReturns ==
  \A c \in Caller : pc[c] \notin Resting ~> pc[c] \in Resting \cup {"dead"}
=============================================================================
