--------------------------- MODULE ResilienceProofs ---------------------------
(***************************************************************************)
(* Proofs about Resilience, for every retry policy, time limit and         *)
(* scheduling delay.                                                       *)
(***************************************************************************)
EXTENDS Resilience, TLAPS

LEMMA AllowedType ==
  ASSUME max_attempts \in AttemptLimits
  PROVE  max_attempts \in Nat /\ Allowed \in Nat \ {0} /\ max_attempts <= Allowed
BY ResilienceAssumption DEF Allowed

LEMMA AllowedFrame ==
  ASSUME UNCHANGED max_attempts
  PROVE  Allowed' = Allowed /\ Longest' = Longest
BY DEF Allowed, Longest

\* delay_for never asks for more than max_delay, with jitter for no less than
\* half of the capped delay.
LEMMA DelayBounds ==
  ASSUME NEW n \in Nat, NEW d \in Delays(n)
  PROVE  /\ d \in 0..MaxDelay
         /\ Capped(n) \in 0..MaxDelay
         /\ BaseDelay > 0 => 2 * d >= Capped(n)
<1>. Capped(n) \in 0..MaxDelay
  BY ResilienceAssumption DEF Capped
<1>. QED
  BY ResilienceAssumption DEF Delays

\* One more attempt and the wait after it.
LEMMA BeforeStep ==
  ASSUME NEW n \in Nat
  PROVE  /\ Before(n) \in Nat
         /\ Before(n + 1) = Before(n) + Limit + Lag + MaxDelay + Lag
<1>. DEFINE K == Limit + Lag + MaxDelay + Lag
<1>1. K \in Nat
  BY ResilienceAssumption
<1>2. n * K \in Nat /\ (n + 1) * K = n * K + K
  <2>. HIDE DEF K
  <2>. QED
    BY <1>1
<1>. QED
  BY <1>2, ResilienceAssumption DEF Before

\* The attempts a call is allowed fit in Longest.
LEMMA BeforeLongest ==
  ASSUME max_attempts \in AttemptLimits, NEW n \in Nat, n < Allowed
  PROVE  Before(n) + Limit + Lag <= Longest
<1>. DEFINE K == Limit + Lag + MaxDelay + Lag
            m == Allowed - 1
<1>1. K \in Nat /\ m \in Nat /\ n <= m /\ Allowed = m + 1
  BY ResilienceAssumption, AllowedType
<1>2. n * K <= m * K
  <2>. HIDE DEF K, m
  <2>1. m - n \in Nat /\ (m - n) * K \in Nat
    BY <1>1
  <2>2. m * K = n * K + (m - n) * K
    BY <1>1
  <2>. QED
    BY <1>1, <2>1, <2>2
<1>3. Longest = m * K + Limit + Lag
  <2>. DEFINE a == Limit + Lag
              b == MaxDelay + Lag
  <2>1. a \in Nat /\ b \in Nat /\ K = a + b
    BY ResilienceAssumption
  <2>2. (m + 1) * a + m * b = m * (a + b) + a
    <3>. HIDE DEF K, m, a, b
    <3>. QED
      BY <1>1, <2>1
  <2>3. Longest = (m + 1) * a + m * b
    BY <1>1 DEF Longest
  <2>. QED
    BY <2>1, <2>2, <2>3, <1>1, ResilienceAssumption
<1>. QED
  BY <1>1, <1>2, <1>3, ResilienceAssumption DEF Before

LEMMA InitIInv == Init => IInv
<1>. SUFFICES ASSUME Init PROVE IInv
  OBVIOUS
<1>1. TypeOK
  BY ResilienceAssumption, AllowedType DEF Init, TypeOK
<1>2. LoopInv
  BY AllowedType DEF Init, LoopInv
<1>3. TimeInv
  <2>1. Before(0) \in Nat
    BY BeforeStep
  <2>. QED
    BY <2>1, ResilienceAssumption DEF Init, TimeInv
<1>4. TimeoutsAreGenuine
  BY DEF Init, TimeoutsAreGenuine
<1>. QED
  BY <1>1, <1>2, <1>3, <1>4 DEF IInv

-----------------------------------------------------------------------------
(* The result of an attempt reaches the loop.                              *)

LEMMA ResolveKeepsIInv ==
  ASSUME IInv, phase = "attempting", NEW result \in Results, Resolve(result),
         result = "timeout" => answer = "none" /\ now >= wake
  PROVE  IInv'
<1>0. /\ max_attempts \in AttemptLimits /\ max_attempts' = max_attempts
      /\ Allowed' = Allowed /\ Longest' = Longest
  <2>1. max_attempts \in AttemptLimits /\ max_attempts' = max_attempts
    BY DEF IInv, TypeOK, Resolve, ReturnWith
  <2>. QED
    BY <2>1, AllowedFrame
<1>. USE <1>0
<1>1. /\ attempt \in Nat /\ attempt < Allowed /\ Len(log) = attempt
      /\ log \in Seq([result : Results, took : Nat, delay : Nat, intime : BOOLEAN])
      /\ \A i \in 1..Len(log) : Retryable(log[i].result) /\ log[i].delay \in Delays(i)
      /\ outcome = "none"
  BY AllowedType DEF IInv, TypeOK, LoopInv
<1>2. /\ now \in Nat /\ began \in Nat /\ wake = began + Limit
      /\ began <= now /\ now <= began + Limit + Lag
      /\ began <= Before(attempt)
  BY ResilienceAssumption DEF IInv, TypeOK, TimeInv
<1>3. ASSUME NEW d \in Nat
      PROVE  /\ Entry(result, d) \in [result : Results, took : Nat, delay : Nat, intime : BOOLEAN]
             /\ Entry(result, d).result = result
             /\ Entry(result, d).delay = d
             /\ result = "timeout" => /\ Entry(result, d).took \in Limit..(Limit + Lag)
                                      /\ ~Entry(result, d).intime
  <2>. DEFINE t == answer # "none" /\ answered < began + Limit
  <2>1. now - began \in Nat /\ t \in BOOLEAN
    BY <1>2
  <2>2. Entry(result, d) = [result |-> result, took |-> now - began, delay |-> d, intime |-> t]
    BY DEF Entry
  <2>3. result = "timeout" => now - began \in Limit..(Limit + Lag) /\ ~t
    BY <1>2, ResilienceAssumption
  <2>. HIDE DEF t
  <2>. QED
    BY <1>3, <2>1, <2>2, <2>3
<1>4. ASSUME NEW d \in Nat, log' = Append(log, Entry(result, d))
      PROVE  /\ log' \in Seq([result : Results, took : Nat, delay : Nat, intime : BOOLEAN])
             /\ Len(log') = attempt + 1
             /\ log'[attempt + 1] = Entry(result, d)
             /\ \A i \in 1..attempt : log'[i] = log[i]
             /\ TimeoutsAreGenuine'
  <2>1. /\ log' \in Seq([result : Results, took : Nat, delay : Nat, intime : BOOLEAN])
        /\ Len(log') = attempt + 1
        /\ log'[attempt + 1] = Entry(result, d)
        /\ \A i \in 1..attempt : log'[i] = log[i]
    <3>. DEFINE R == [result : Results, took : Nat, delay : Nat, intime : BOOLEAN]
                e == Entry(result, d)
    <3>1. e \in R /\ log \in Seq(R) /\ log' = Append(log, e)
      BY <1>1, <1>3, <1>4
    <3>. HIDE DEF R, e
    <3>2. /\ log' \in Seq(R) /\ Len(log') = Len(log) + 1 /\ log'[Len(log) + 1] = e
          /\ \A i \in 1..Len(log) : log'[i] = log[i]
      BY <3>1
    <3>. QED
      BY <3>2, <1>1 DEF R, e
  <2>2. ASSUME NEW i \in 1..(attempt + 1), log'[i].result = "timeout"
        PROVE  /\ log'[i].took \in Limit..(Limit + Lag)
               /\ ~log'[i].intime
    <3>1. CASE i = attempt + 1
      BY <2>1, <2>2, <3>1, <1>3
    <3>2. CASE i \in 1..attempt
      BY <2>1, <2>2, <3>2, <1>1 DEF IInv, TimeoutsAreGenuine
    <3>. QED
      BY <3>1, <3>2, <1>1
  <2>. QED
    BY <2>1, <2>2 DEF TimeoutsAreGenuine
\* The call returns, with a value or with its last error.
<1>5. CASE ReturnWith(result) /\ attempt' \in {attempt, attempt + 1}
           /\ (Retryable(result) => attempt + 1 = Allowed)
  <2>1. /\ log' = Append(log, Entry(result, 0))
        /\ phase' = "returned" /\ outcome' = result
        /\ UNCHANGED <<now, began, wake, answer, answered>>
    BY <1>5 DEF ReturnWith
  <2>2. TypeOK'
    BY <2>1, <1>1, <1>4, <1>5, AllowedType DEF IInv, TypeOK
  <2>3. LoopInv'
    <3>1. attempt' <= Allowed
      BY <1>1, <1>5, AllowedType
    <3>2. Len(log') \in 1..Allowed /\ outcome' = log'[Len(log')].result
      <4>1. Len(log') = attempt + 1 /\ log'[attempt + 1] = Entry(result, 0)
        BY <2>1, <1>4
      <4>2. Entry(result, 0).result = result
        BY <1>3
      <4>. QED
        BY <2>1, <4>1, <4>2, <1>1, AllowedType
    <3>3. \A i \in 1..(Len(log') - 1) : Retryable(log'[i].result) /\ log'[i].delay \in Delays(i)
      BY <2>1, <1>1, <1>4
    <3>4. Retryable(outcome') => Len(log') = Allowed
      BY <2>1, <1>4, <1>5
    <3>. QED
      BY <2>1, <3>1, <3>2, <3>3, <3>4 DEF LoopInv
  <2>4. TimeInv'
    <3>1. Before(attempt) + Limit + Lag <= Longest /\ Before(attempt) \in Nat
      BY <1>1, BeforeLongest, BeforeStep
    <3>2. now <= Longest
      <4>1. Longest \in Int
        BY ResilienceAssumption, AllowedType DEF Longest
      <4>. QED
        BY <4>1, <3>1, <1>2, ResilienceAssumption
    <3>. QED
      BY <2>1, <3>2 DEF TimeInv, Longest, Before
  <2>. QED
    BY <2>1, <2>2, <2>3, <2>4, <1>4 DEF IInv
\* The error is retried, after a delay or at once.
<1>6. ASSUME NEW d \in Delays(attempt + 1),
             log' = Append(log, Entry(result, d)), attempt' = attempt + 1,
             Retryable(result), attempt + 1 < Allowed,
             UNCHANGED <<now, outcome>>,
             \/ d = 0 /\ BeginAttempt
             \/ phase' = "sleeping" /\ wake' = now + d /\ UNCHANGED <<began, answer, answered>>
      PROVE  IInv'
  <2>1. d \in Nat /\ d <= MaxDelay
    BY DelayBounds, <1>1, <1>6, ResilienceAssumption
  <2>2. /\ Before(attempt) \in Nat
        /\ Before(attempt + 1) = Before(attempt) + Limit + Lag + MaxDelay + Lag
    BY BeforeStep, <1>1
  <2>3. TypeOK'
    <3>1. log' \in Seq([result : Results, took : Nat, delay : Nat, intime : BOOLEAN])
      BY <2>1, <1>4, <1>6
    <3>2. attempt' \in 0..Allowed
      BY <1>1, <1>6, AllowedType
    <3>. QED
      <4>1. CASE d = 0 /\ BeginAttempt
        <5>1. /\ phase' = "attempting" /\ began' = now /\ wake' = now + Limit
              /\ answer' = "none" /\ answered' = now /\ now' = now /\ outcome' = outcome
          BY <4>1, <1>6 DEF BeginAttempt
        <5>2. now + Limit \in Nat
          BY <1>2, ResilienceAssumption
        <5>. QED
          BY <5>1, <5>2, <3>1, <3>2, <1>2 DEF IInv, TypeOK
      <4>2. CASE phase' = "sleeping" /\ wake' = now + d /\ UNCHANGED <<began, answer, answered>>
        BY <4>2, <3>1, <3>2, <2>1, <1>2, <1>6 DEF IInv, TypeOK
      <4>. QED
        BY <4>1, <4>2, <1>6
  <2>4. LoopInv'
    <3>1. ASSUME NEW i \in 1..(attempt + 1)
          PROVE  Retryable(log'[i].result) /\ log'[i].delay \in Delays(i)
      <4>1. CASE i = attempt + 1
        BY <4>1, <2>1, <1>3, <1>4, <1>6
      <4>2. CASE i \in 1..attempt
        BY <4>2, <2>1, <1>1, <1>4, <1>6
      <4>. QED
        BY <4>1, <4>2, <1>1
    <3>2. phase' # "returned" /\ Len(log') = attempt' /\ outcome' = "none"
      BY <1>1, <1>4, <1>6, <2>1 DEF BeginAttempt
    <3>. QED
      BY <3>1, <3>2, <1>1, <1>6, AllowedType DEF LoopInv
  <2>5. TimeInv'
    <3>1. CASE d = 0 /\ BeginAttempt
      <4>1. /\ phase' = "attempting" /\ now' = now /\ began' = now
            /\ wake' = now + Limit /\ answer' = "none"
        BY <3>1, <1>6 DEF BeginAttempt
      <4>2. now <= Before(attempt + 1)
        BY <2>2, <1>2, ResilienceAssumption
      <4>3. Before(attempt)' = Before(attempt + 1)
        BY <1>6 DEF Before
      <4>. QED
        BY <4>1, <4>2, <4>3, <1>2, ResilienceAssumption DEF TimeInv
    <3>2. CASE phase' = "sleeping" /\ wake' = now + d
      <4>1. now <= wake' + Lag /\ wake' + Lag <= Before(attempt + 1)
        BY <3>2, <2>1, <2>2, <1>2, ResilienceAssumption
      <4>. QED
        BY <4>1, <3>2, <1>6 DEF TimeInv, Before
    <3>. QED
      BY <3>1, <3>2, <1>6
  <2>. QED
    BY <2>1, <2>3, <2>4, <2>5, <1>4, <1>6 DEF IInv
<1>7. LastAttempt(result) => (Retryable(result) => attempt + 1 = Allowed)
  BY <1>1, ResilienceAssumption DEF LastAttempt, Allowed
<1>8. ~LastAttempt(result) => Retryable(result) /\ attempt + 1 < Allowed
  BY <1>1, ResilienceAssumption DEF LastAttempt, Allowed
<1>. QED
  <2>1. CASE result = "ok" /\ ReturnWith("ok") /\ UNCHANGED attempt
    BY <2>1, <1>5 DEF Retryable
  <2>2. CASE LastAttempt(result) /\ attempt' = attempt + 1 /\ ReturnWith(result)
    BY <2>2, <1>5, <1>7
  <2>3. CASE ~LastAttempt(result) /\ Resolve(result) /\ result # "ok"
    <3>1. /\ attempt' = attempt + 1 /\ UNCHANGED <<now, outcome>>
          /\ \E d \in Delays(attempt + 1) :
               /\ log' = Append(log, Entry(result, d))
               /\ IF d = 0 THEN BeginAttempt
                  ELSE /\ phase' = "sleeping"
                       /\ wake' = now + d
                       /\ UNCHANGED <<began, answer, answered>>
      BY <2>3 DEF Resolve
    <3>. QED
      BY <3>1, <2>3, <1>6, <1>8
  <2>. QED
    BY <2>1, <2>2, <2>3 DEF Resolve

-----------------------------------------------------------------------------
(* The steps between two results.                                          *)

LEMMA AnswerKeepsIInv == ASSUME IInv, Answer PROVE IInv'
<1>0. max_attempts' = max_attempts /\ Allowed' = Allowed /\ Longest' = Longest
  BY AllowedFrame DEF Answer
<1>1. TypeOK'
  BY <1>0 DEF IInv, TypeOK, Answer
<1>2. LoopInv'
  BY <1>0, Zenon DEF IInv, LoopInv, Answer
<1>3. TimeInv'
  BY ResilienceAssumption DEF IInv, TypeOK, TimeInv, Answer, Before, Longest
<1>4. TimeoutsAreGenuine'
  BY DEF IInv, TimeoutsAreGenuine, Answer
<1>. QED
  BY <1>1, <1>2, <1>3, <1>4 DEF IInv

LEMMA WakeKeepsIInv == ASSUME IInv, Wake PROVE IInv'
<1>0. max_attempts' = max_attempts /\ Allowed' = Allowed /\ Longest' = Longest
  BY AllowedFrame DEF Wake
<1>1. TypeOK'
  BY <1>0, ResilienceAssumption DEF IInv, TypeOK, Wake, BeginAttempt
<1>2. LoopInv'
  BY <1>0 DEF IInv, LoopInv, Wake, BeginAttempt
<1>3. TimeInv'
  <2>1. Before(attempt) \in Nat /\ Before(attempt)' = Before(attempt)
    <3>1. attempt \in Nat
      BY AllowedType DEF IInv, TypeOK
    <3>. QED
      BY <3>1, BeforeStep DEF Wake, Before
  <2>. QED
    BY <2>1, ResilienceAssumption DEF IInv, TypeOK, TimeInv, Wake, BeginAttempt
<1>4. TimeoutsAreGenuine'
  BY DEF IInv, TimeoutsAreGenuine, Wake
<1>. QED
  BY <1>1, <1>2, <1>3, <1>4 DEF IInv

LEMMA TickKeepsIInv == ASSUME IInv, Tick PROVE IInv'
<1>0. max_attempts' = max_attempts /\ Allowed' = Allowed /\ Longest' = Longest
  BY AllowedFrame DEF Tick
<1>1. TypeOK'
  BY <1>0 DEF IInv, TypeOK, Tick
<1>2. LoopInv'
  BY <1>0 DEF IInv, LoopInv, Tick
<1>3. TimeInv'
  BY ResilienceAssumption DEF IInv, TypeOK, TimeInv, Tick
<1>4. TimeoutsAreGenuine'
  BY DEF IInv, TimeoutsAreGenuine, Tick
<1>. QED
  BY <1>1, <1>2, <1>3, <1>4 DEF IInv

-----------------------------------------------------------------------------
(* The theorems.                                                           *)

\* The inductive invariant of the retry loop under its timers.
THEOREM Invariance == Spec => []IInv
<1>1. IInv /\ [Next]_vars => IInv'
  <2>. SUFFICES ASSUME IInv, [Next]_vars PROVE IInv'
    OBVIOUS
  <2>1. CASE PollReady
    <3>1. phase = "attempting" /\ answer \in Results /\ answer # "timeout" /\ Resolve(answer)
      BY <2>1 DEF PollReady, IInv, TypeOK, Results, Answers
    <3>. QED
      BY <3>1, ResolveKeepsIInv
  <2>2. CASE Expire
    <3>1. "timeout" \in Results
      BY DEF Results
    <3>. QED
      BY <2>2, <3>1, ResolveKeepsIInv DEF Expire
  <2>3. CASE UNCHANGED vars
    <3>1. max_attempts' = max_attempts /\ Allowed' = Allowed /\ Longest' = Longest
      BY <2>3, AllowedFrame DEF vars
    <3>. QED
      BY <2>3, <3>1, ResilienceAssumption
         DEF vars, IInv, TypeOK, LoopInv, TimeInv, TimeoutsAreGenuine, Before
  <2>. QED
    BY <2>1, <2>2, <2>3, AnswerKeepsIInv, WakeKeepsIInv, TickKeepsIInv DEF Next
<1>. QED
  BY InitIInv, <1>1, PTL DEF Spec

\* retry_if returns the result of the last attempt it made, retries only what
\* may be retried, and gives up on a retryable error only at max_attempts.
THEOREM LastResult == Spec => []ResultIsTheLastAttempts
<1>1. IInv => ResultIsTheLastAttempts
  BY AllowedType DEF IInv, LoopInv, ResultIsTheLastAttempts
<1>. QED
  BY Invariance, <1>1, PTL

\* with_timeout reports a timeout only once the limit has passed, and never in
\* the place of an answer that came in time.
THEOREM GenuineTimeouts == Spec => []TimeoutsAreGenuine
<1>1. IInv => TimeoutsAreGenuine
  BY DEF IInv
<1>. QED
  BY Invariance, <1>1, PTL

\* Every backoff stays within max_delay and above half of the schedule.
THEOREM BackoffInRange == Spec => []BackoffIsInRange
<1>1. IInv => BackoffIsInRange
  <2>. SUFFICES ASSUME IInv, NEW i \in 1..(Len(log) - 1)
                PROVE  /\ log[i].delay <= MaxDelay
                       /\ BaseDelay > 0 => 2 * log[i].delay >= Capped(i)
    BY DEF BackoffIsInRange
  <2>1. log[i].delay \in Delays(i) /\ i \in Nat
    BY DEF IInv, LoopInv, TypeOK
  <2>. QED
    BY <2>1, DelayBounds, ResilienceAssumption
<1>. QED
  BY Invariance, <1>1, PTL

\* A call takes no longer than its attempts under their limits and the longest
\* waits between them, for every policy: the engine's tasks cannot hang in it.
THEOREM BoundedCall == Spec => []TheCallIsBounded
<1>1. IInv => TheCallIsBounded
  <2>. SUFFICES ASSUME IInv PROVE now <= Longest
    BY DEF TheCallIsBounded
  <2>1. /\ now \in Nat /\ attempt \in Nat /\ wake \in Nat /\ Longest \in Int
        /\ max_attempts \in AttemptLimits
    BY ResilienceAssumption, AllowedType DEF IInv, TypeOK, Longest
  <2>2. CASE phase = "returned"
    BY <2>2 DEF IInv, TimeInv
  <2>3. CASE phase # "returned"
    <3>1. attempt < Allowed
      BY <2>3 DEF IInv, LoopInv
    <3>2. Before(attempt) \in Nat /\ Before(attempt) + Limit + Lag <= Longest
      BY <2>1, <3>1, BeforeStep, BeforeLongest
    <3>3. now <= Before(attempt) + Limit + Lag
      BY <2>1, <2>3, <3>2, ResilienceAssumption DEF IInv, TypeOK, TimeInv
    <3>. QED
      BY <2>1, <3>2, <3>3, ResilienceAssumption
  <2>. QED
    BY <2>2, <2>3
<1>. QED
  BY Invariance, <1>1, PTL
=============================================================================
