-------------------------- MODULE ResilienceProofs --------------------------
(***************************************************************************)
(* Proofs about Resilience, for any set of callers and any configuration.  *)
(***************************************************************************)
EXTENDS Resilience, FiniteSetTheorems, TLAPS

\* Where a caller is in the loop of run bounds its attempt counter, and what
\* it will report is what its last attempt ended with.
LoopInv ==
  \A c \in Caller :
    /\ pc[c] \in Running => attempt[c] >= 1
    /\ pc[c] = "sleep" => attempt[c] < MaxRetries
    /\ pc[c] = "settle" => outcome[c] # "none"
    /\ pc[c] = "settle" /\ outcome[c] # "Ok" => attempt[c] = Attempts

\* The breaker never counts more failures than the row of failed runs is long,
\* and none of those since its last reset is forgotten
StreakInv == AtMost(failures, Threshold) <= streak /\ fresh <= failures

\* The inductive invariant
BreakerInv == TypeOK /\ LoopInv /\ StreakInv /\ ClosedBelowThreshold

InRun == {c \in Caller : pc[c] \in Running}

LEMMA Bounds ==
  /\ Burst \in Nat /\ Burst >= 1
  /\ Attempts \in Nat /\ Attempts >= 1
  /\ MaxRetries \in Nat /\ MaxRetries <= Attempts
  /\ Threshold \in Nat /\ Threshold <= 255
  /\ AtLeast1(Threshold) \in Nat
  /\ Attempts # MaxRetries => MaxRetries = 0 /\ Attempts = 1
  BY ResilienceAssumption DEF Burst, Attempts, AtLeast1

LEMMA InitBreakerInv == Init => BreakerInv
  BY Bounds, ResilienceAssumption
  DEF Init, BreakerInv, TypeOK, LoopInv, StreakInv, ClosedBelowThreshold, Resting, Running,
      AtMost, AtLeast1

\* One step of one caller
LEMMA CallerPreserves ==
  ASSUME BreakerInv, NEW c \in Caller, CallerStep(c)
  PROVE  BreakerInv'
  <1> USE Bounds, ResilienceAssumption DEF BreakerInv, Resting, Running, breaker, locals, history
  <1>1. CASE Limit(c)
    BY <1>1 DEF Limit, Refuse, Return, TypeOK, LoopInv, StreakInv, ClosedBelowThreshold
  <1>2. CASE Allow(c)
    <2>1. TypeOK'
      BY <1>2 DEF Allow, Return, TypeOK
    <2>2. LoopInv'
      BY <1>2 DEF Allow, Return, TypeOK, LoopInv
    <2>3. StreakInv' /\ ClosedBelowThreshold'
      BY <1>2 DEF Allow, TypeOK, StreakInv, ClosedBelowThreshold, AtMost, AtLeast1
    <2> QED  BY <2>1, <2>2, <2>3
  <1>3. ASSUME NEW o \in {"Ok", "Err", "Timeout"}, Attempt(c, o) PROVE BreakerInv'
    <2>1. TypeOK'
      BY <1>3 DEF Attempt, Ends, TypeOK
    <2>2. LoopInv'
      BY <1>3 DEF Attempt, Ends, TypeOK, LoopInv
    <2>3. StreakInv' /\ ClosedBelowThreshold'
      BY <1>3 DEF Attempt, Ends, StreakInv, ClosedBelowThreshold
    <2> QED  BY <2>1, <2>2, <2>3
  <1>4. CASE Wake(c)
    <2>1. TypeOK'
      BY <1>4 DEF Wake, NextBackoff, NextAttempt, TypeOK, LoopInv, AtMost
    <2>2. LoopInv'
      BY <1>4 DEF Wake, NextBackoff, NextAttempt, TypeOK, LoopInv
    <2>3. StreakInv' /\ ClosedBelowThreshold'
      BY <1>4 DEF Wake, NextBackoff, NextAttempt, StreakInv, ClosedBelowThreshold
    <2> QED  BY <2>1, <2>2, <2>3
  <1>5. CASE SettleOk(c)
    <2>1. TypeOK'
      BY <1>5 DEF SettleOk, OnSuccess, Return, TypeOK
    <2>2. LoopInv'
      BY <1>5 DEF SettleOk, OnSuccess, Return, TypeOK, LoopInv
    <2>3. StreakInv' /\ ClosedBelowThreshold'
      BY <1>5 DEF SettleOk, OnSuccess, TypeOK, StreakInv, ClosedBelowThreshold, AtMost, AtLeast1
    <2> QED  BY <2>1, <2>2, <2>3
  <1>6. CASE SettleErr(c)
    <2>1. outcome[c] \in {"Err", "Timeout"}
      BY <1>6 DEF SettleErr, Trips, TypeOK, LoopInv
    <2>2. TypeOK'
      BY <1>6, <2>1 DEF SettleErr, Trips, Return, TypeOK, AtMost
    <2>3. LoopInv'
      BY <1>6, <2>1 DEF SettleErr, Trips, Return, TypeOK, LoopInv
    <2>4. StreakInv' /\ ClosedBelowThreshold'
      BY <1>6 DEF SettleErr, Trips, TypeOK, StreakInv, ClosedBelowThreshold, AtMost, AtLeast1
    <2> QED  BY <2>2, <2>3, <2>4
  <1>7. CASE Panic(c)
    BY <1>7 DEF Panic, TypeOK, LoopInv, StreakInv, ClosedBelowThreshold
  <1> QED  BY <1>1, <1>2, <1>3, <1>4, <1>5, <1>6, <1>7 DEF CallerStep

LEMMA BreakerInductive == BreakerInv /\ [Next]_vars => BreakerInv'
  <1> SUFFICES ASSUME BreakerInv, [Next]_vars PROVE BreakerInv'
    OBVIOUS
  <1> USE Bounds DEF BreakerInv, TypeOK, LoopInv, StreakInv, ClosedBelowThreshold, breaker, locals, history
  <1>1. CASE CoolDown
    BY <1>1 DEF CoolDown
  <1>2. CASE Replenish
    BY <1>2 DEF Replenish
  <1>3. CASE UNCHANGED vars
    BY <1>3 DEF vars
  <1> QED  BY <1>1, <1>2, <1>3, CallerPreserves DEF Next

\* resilience.rs: attempt stays within max(1, max_retries) and failures within
\* the u8, for any number of interleaved calls.
THEOREM TypeCorrect == Spec => []TypeOK
  BY InitBreakerInv, BreakerInductive, PTL DEF Spec, BreakerInv

\* The breaker is closed only below its threshold (on_failure and allow are
\* the only places that open and close it).
THEOREM BreakerSound == Spec => []ClosedBelowThreshold
  BY InitBreakerInv, BreakerInductive, PTL DEF Spec, BreakerInv

\* However refusals, successes, resets and late settlements interleave, a closed
\* breaker has not seen `threshold` failed runs in a row since its last reset.
THEOREM OpensOnTime == Spec => []OpensInTime
  <1>1. BreakerInv => OpensInTime
    BY Bounds DEF BreakerInv, TypeOK, StreakInv, ClosedBelowThreshold, OpensInTime
  <1> QED  BY <1>1, InitBreakerInv, BreakerInductive, PTL DEF Spec

\* run gives up only after max(1, max_retries) failed attempts.
THEOREM RetriesExhausted == Spec => []ErrAfterAllAttempts
  <1>1. BreakerInv => ErrAfterAllAttempts
    BY DEF BreakerInv, LoopInv, ErrAfterAllAttempts
  <1> QED  BY <1>1, InitBreakerInv, BreakerInductive, PTL DEF Spec

\* The comment on circuit_threshold, "consecutive failures before open", holds
\* however the calls interleave.
THEOREM OpensOnStreak == Spec => TripsOnStreak
  <1>1. BreakerInv /\ [Next]_vars =>
          [openUntil # "cooling" /\ openUntil' = "cooling" => streak' = Threshold]_vars
    <2> SUFFICES ASSUME BreakerInv, Next, openUntil # "cooling", openUntil' = "cooling"
                 PROVE  streak' = Threshold
      BY DEF vars
    <2>1. PICK c \in Caller : SettleErr(c)
      BY DEF Next, CallerStep, Limit, Refuse, Allow, Attempt, Ends, Wake, NextBackoff, NextAttempt, SettleOk, OnSuccess, Panic, CoolDown, Replenish,
             Return, breaker, locals, history
    <2>2. /\ failures' >= Threshold
          /\ failures' = AtMost(failures + 1, 255)
          /\ streak' = AtMost(streak + 1, Threshold)
      BY <2>1 DEF SettleErr, Trips
    <2>3. /\ failures \in 0..255
          /\ streak \in 0..Threshold
          /\ AtMost(failures, Threshold) <= streak
      BY DEF BreakerInv, TypeOK, StreakInv
    <2> QED  BY <2>2, <2>3, Bounds DEF AtMost
  <1> QED  BY <1>1, InitBreakerInv, BreakerInductive, PTL DEF Spec, TripsOnStreak

\* The callers inside run are finitely many
LEMMA InRunFinite ==
  /\ IsFiniteSet(InRun)
  /\ Cardinality(InRun) \in Nat
  /\ Cardinality(Caller) \in Nat
  /\ Cardinality(InRun) <= Cardinality(Caller)
  BY ResilienceAssumption, FS_Subset, FS_CardinalityType DEF InRun

\* Only a caller that leaves run adds a failure, so the sum stays below the limit
LEMMA LoadInductive ==
  ASSUME BreakerInv, BreakerInv', FailuresBounded, [Next]_vars
  PROVE  FailuresBounded'
  <1> DEFINE limit == AtLeast1(Threshold) - 1 + Cardinality(Caller)
  <1>1. failures + Cardinality(InRun) <= limit
    BY DEF FailuresBounded, InRun
  <1>2. SUFFICES failures' + Cardinality(InRun') <= limit
    BY DEF FailuresBounded, InRun
  <1>3. /\ IsFiniteSet(InRun') /\ Cardinality(InRun') \in Nat
        /\ Cardinality(InRun') <= Cardinality(Caller)
    BY ResilienceAssumption, FS_Subset, FS_CardinalityType DEF InRun
  <1>4. failures \in Nat /\ failures' \in Nat /\ limit \in Int
    BY InRunFinite, Bounds DEF BreakerInv, TypeOK
  <1> HIDE DEF limit
  <1>5. ASSUME InRun' \subseteq InRun, failures' <= failures
        PROVE  failures' + Cardinality(InRun') <= limit
    <2>1. Cardinality(InRun') <= Cardinality(InRun)
      BY <1>5, InRunFinite, FS_Subset
    <2> QED  BY <1>1, <1>3, <1>4, <1>5, <2>1, InRunFinite
  <1>6. ASSUME failures' < AtLeast1(Threshold)
        PROVE  failures' + Cardinality(InRun') <= limit
    BY <1>3, <1>4, <1>6, InRunFinite, Bounds DEF limit
  <1>7. ASSUME NEW c \in Caller, CallerStep(c)
        PROVE  failures' + Cardinality(InRun') <= limit
    <2> USE DEF InRun, BreakerInv, TypeOK, Running, Resting, breaker, locals, history
    <2>1. CASE Limit(c)
      BY <1>5, <2>1 DEF Limit, Refuse, Return
    <2>2. CASE Allow(c)
      <3>1. CASE openUntil = "cooling"
        BY <1>5, <2>2, <3>1 DEF Allow, Return
      <3>2. CASE openUntil # "cooling"
        BY <1>6, <2>2, <3>2, Bounds DEF Allow, ClosedBelowThreshold
      <3> QED  BY <3>1, <3>2
    <2>3. ASSUME NEW o \in {"Ok", "Err", "Timeout"}, Attempt(c, o)
          PROVE  failures' + Cardinality(InRun') <= limit
      BY <1>5, <2>3 DEF Attempt, Ends
    <2>4. CASE Wake(c)
      BY <1>5, <2>4 DEF Wake, NextBackoff, NextAttempt
    <2>5. CASE SettleOk(c)
      BY <1>5, <2>5 DEF SettleOk, OnSuccess, Return
    <2>6. CASE SettleErr(c)
      <3>1. outcome[c] \in {"Err", "Timeout"}
        BY <2>6 DEF SettleErr, Trips, LoopInv
      <3>2. InRun' = InRun \ {c} /\ c \in InRun
        BY <2>6, <3>1 DEF SettleErr, Trips, Return
      <3>3. failures' <= failures + 1
        BY <2>6, <1>4 DEF SettleErr, Trips, AtMost
      <3> HIDE DEF InRun, BreakerInv
      <3>4. Cardinality(InRun') = Cardinality(InRun) - 1
        BY <3>2, InRunFinite, FS_RemoveElement
      <3> QED  BY <1>1, <1>3, <1>4, <3>3, <3>4, InRunFinite
    <2>7. CASE Panic(c)
      BY <1>5, <2>7 DEF Panic
    <2> QED  BY <1>7, <2>1, <2>2, <2>3, <2>4, <2>5, <2>6, <2>7 DEF CallerStep
  <1>8. CASE CoolDown
    BY <1>4, <1>5, <1>8 DEF CoolDown, InRun
  <1>9. CASE Replenish
    BY <1>4, <1>5, <1>9 DEF Replenish, InRun, breaker
  <1>10. CASE UNCHANGED vars
    BY <1>4, <1>5, <1>10 DEF vars, InRun
  <1> QED  BY <1>7, <1>8, <1>9, <1>10 DEF Next

\* Calls in flight when the breaker opens add at most one failure each: with
\* at most 255 - threshold callers, `saturating_add` never saturates.
THEOREM FailureBound == Spec => []FailuresBounded
  <1>1. Init => FailuresBounded
    <2> SUFFICES ASSUME Init PROVE FailuresBounded
      OBVIOUS
    <2>1. InRun = {} /\ failures = 0
      BY DEF Init, InRun, Running
    <2>2. Cardinality(InRun) = 0
      BY <2>1, FS_EmptySet
    <2>3. AtLeast1(Threshold) >= 1
      BY Bounds DEF AtLeast1
    <2> QED  BY <2>1, <2>2, <2>3, InRunFinite, Bounds DEF FailuresBounded, InRun
  <1> QED  BY <1>1, InitBreakerInv, BreakerInductive, LoadInductive, PTL DEF Spec
=============================================================================
