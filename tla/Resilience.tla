----------------------------- MODULE Resilience -----------------------------
(***************************************************************************)
(* One call of retry_if over an operation run under with_timeout, in time  *)
(* (quicforge-resilience): the way run_connection connects.  It refines    *)
(* what BenchEngine says of a task that is "connecting" by the deadlines   *)
(* and the backoff.                                                        *)
(*                                                                         *)
(* Time passes in ticks.  A future that can go on is polled within Lag     *)
(* ticks: Lag stands for the scheduling delay of the runtime and for the   *)
(* granularity of its timer wheel.  tokio's timeout polls the operation    *)
(* before its own timer, so an answer that is there wins over a deadline   *)
(* that has passed.                                                        *)
(***************************************************************************)
EXTENDS Integers, Sequences

CONSTANTS
  AttemptLimits, \* what RetryPolicy.max_attempts may be
  BaseDelay,     \* RetryPolicy.base_delay, in ticks
  MaxDelay,      \* RetryPolicy.max_delay, in ticks
  Multiplier,    \* RetryPolicy.multiplier
  Jitter,        \* RetryPolicy.jitter
  Limit,         \* the duration given to with_timeout, in ticks
  Lag            \* bound on the ticks a runnable future waits for its poll

ASSUME ResilienceAssumption ==
  /\ AttemptLimits \subseteq Nat
  /\ {BaseDelay, MaxDelay, Limit, Lag} \subseteq Nat
  /\ Multiplier \in Nat \ {0}
  /\ Jitter \in BOOLEAN

VARIABLES
  max_attempts,  \* that of the policy of this call
  now,           \* ticks since the call
  phase,         \* "attempting", "sleeping" or "returned"
  attempt,       \* the counter of the loop: attempts that failed
  began,         \* when the attempt in progress began
  wake,          \* when the timer of the attempt, or of the sleep, fires
  answer,        \* what the operation has come to, "none" while it is pending
  answered,      \* when it came to it
  outcome,       \* what the call returned
  log            \* the attempts made: their results, times and delays after them

vars == <<max_attempts, now, phase, attempt, began, wake, answer, answered, outcome, log>>

-----------------------------------------------------------------------------
\* Results of the operation: a value, an error that may be retried, one that
\* may not; and the error with_timeout puts in the place of a late result.
Answers == {"ok", "transient", "fatal"}
Results == Answers \union {"timeout"}

Retryable(e) == e \in {"transient", "timeout"}

\* The loop makes at least one attempt, even for max_attempts = 0.
Allowed == IF max_attempts > 1 THEN max_attempts ELSE 1

Raw(n)    == BaseDelay * Multiplier ^ (n - 1)

Capped_Uncapped(n) == Raw(n)
Capped(n) == IF Raw(n) \in 0..MaxDelay THEN Raw(n) ELSE MaxDelay

\* The delays delay_for(n) may give: the capped one, or with equal jitter
\* anything from its half up.
Delays_FullJitter(n) == IF BaseDelay = 0 THEN {0} ELSE 0..Capped(n)
Delays(n) ==
  IF BaseDelay = 0 THEN {0}
  ELSE IF Jitter THEN {d \in 0..Capped(n) : 2 * d >= Capped(n)}
  ELSE {Capped(n)}

Init ==
  /\ max_attempts \in AttemptLimits
  /\ now = 0
  /\ phase = "attempting"
  /\ attempt = 0
  /\ began = 0
  /\ wake = Limit
  /\ answer = "none"
  /\ answered = 0
  /\ outcome = "none"
  /\ log = <<>>

-----------------------------------------------------------------------------
Entry(result, delay) == [result |-> result, took |-> now - began, delay |-> delay,
                         intime |-> answer # "none" /\ answered < began + Limit]

\* op(attempt) is called anew, under a timeout of its own.
BeginAttempt ==
  /\ phase' = "attempting"
  /\ began' = now
  /\ wake' = now + Limit
  /\ answer' = "none"
  /\ answered' = now

ReturnWith(result) ==
  /\ phase' = "returned"
  /\ outcome' = result
  /\ log' = Append(log, Entry(result, 0))
  /\ UNCHANGED <<max_attempts, now, began, wake, answer, answered>>

\* attempt >= max_attempts || !is_retryable(&err), after the increment.
LastAttempt_OffByOne(err) == attempt >= Allowed \/ ~Retryable(err)
LastAttempt_Exactly(err) == attempt + 1 = max_attempts \/ ~Retryable(err)
LastAttempt_RetryAll(err) == attempt + 1 >= max_attempts
LastAttempt(err) == attempt + 1 >= max_attempts \/ ~Retryable(err)

\* The result of an attempt reaches the loop of retry_if.
Resolve(result) ==
  \/ /\ result = "ok"
     /\ ReturnWith("ok")
     /\ UNCHANGED attempt
  \/ /\ result # "ok"
     /\ LastAttempt(result)
     /\ attempt' = attempt + 1
     /\ ReturnWith(result)
  \/ /\ result # "ok"
     /\ ~LastAttempt(result)
     /\ attempt' = attempt + 1
     /\ \E d \in Delays(attempt + 1) :
          /\ log' = Append(log, Entry(result, d))
          /\ IF d = 0 THEN BeginAttempt
             ELSE /\ phase' = "sleeping"
                  /\ wake' = now + d
                  /\ UNCHANGED <<began, answer, answered>>
     /\ UNCHANGED <<max_attempts, now, outcome>>

\* The operation comes to a result (or never does: it has no fairness).
Answer ==
  /\ phase = "attempting"
  /\ answer = "none"
  /\ answer' \in Answers
  /\ answered' = now
  /\ UNCHANGED <<max_attempts, now, phase, attempt, began, wake, outcome, log>>

\* The timeout is polled and finds the operation ready ...
PollReady ==
  /\ phase = "attempting"
  /\ answer # "none"
  /\ Resolve(answer)

\* ... or finds it pending and its own timer elapsed: the operation is dropped.
Expire_NoTimeout == FALSE /\ UNCHANGED vars
Expire_TimerFirst ==
  /\ phase = "attempting"
  /\ now >= wake
  /\ Resolve("timeout")
Expire ==
  /\ phase = "attempting"
  /\ answer = "none"
  /\ now >= wake
  /\ Resolve("timeout")

\* The backoff sleep is over.
Wake ==
  /\ phase = "sleeping"
  /\ now >= wake
  /\ BeginAttempt
  /\ UNCHANGED <<max_attempts, now, attempt, outcome, log>>

\* A tick, unless some poll is as late as it may get.
Tick ==
  /\ phase # "returned"
  /\ now < wake + Lag
  /\ answer # "none" /\ phase = "attempting" => now < answered + Lag
  /\ now' = now + 1
  /\ UNCHANGED <<max_attempts, phase, attempt, began, wake, answer, answered, outcome, log>>

Next == Answer \/ PollReady \/ Expire \/ Wake \/ Tick

Spec == Init /\ [][Next]_vars

\* Time goes on, and the runtime polls what can go on.
FairSpec == Spec /\ WF_vars(Tick) /\ WF_vars(PollReady) /\ WF_vars(Expire) /\ WF_vars(Wake)

-----------------------------------------------------------------------------
(* Properties                                                              *)

\* Every variable has its type; the loop's counter never exceeds the attempts.
TypeOK ==
  /\ max_attempts \in AttemptLimits
  /\ now \in Nat /\ began \in Nat /\ wake \in Nat /\ answered \in Nat
  /\ phase \in {"attempting", "sleeping", "returned"}
  /\ attempt \in 0..Allowed
  /\ answer \in Answers \union {"none"}
  /\ outcome \in Results \union {"none"}
  /\ log \in Seq([result : Results, took : Nat, delay : Nat, intime : BOOLEAN])

\* The call ends with the result of its last attempt; every attempt before it
\* failed with an error that may be retried; and if the last one failed too it
\* was the last allowed or its error may not be retried.
ResultIsTheLastAttempts ==
  /\ Len(log) <= Allowed
  /\ phase = "returned" =>
       /\ Len(log) > 0
       /\ outcome = log[Len(log)].result
       /\ \A i \in 1..(Len(log) - 1) : Retryable(log[i].result)
       /\ Retryable(outcome) => Len(log) = Allowed

\* A timeout is reported only when the whole limit has passed, at most Lag
\* later, and never for an operation that had its result in time.
TimeoutsAreGenuine ==
  \A i \in 1..Len(log) :
    log[i].result = "timeout" => /\ log[i].took \in Limit..(Limit + Lag)
                                 /\ ~log[i].intime

\* No wait between attempts exceeds max_delay or falls short of half of what
\* the exponential schedule asks for.
BackoffIsInRange ==
  \A i \in 1..(Len(log) - 1) :
    /\ log[i].delay <= MaxDelay
    /\ BaseDelay > 0 => 2 * log[i].delay >= Capped(i)

\* The longest the call may take: its attempts, and the waits between them.
Longest == Allowed * (Limit + Lag) + (Allowed - 1) * (MaxDelay + Lag)

\* The whole call is bounded in time, whatever the operation does: that is what
\* lets the engine await a task without a deadline of its own.
TheCallIsBounded == now <= Longest

\* The call returns, even if the operation never answers.
TheCallReturns == <>(phase = "returned")

-----------------------------------------------------------------------------
(* The inductive invariant: how the loop's counter, the log and the timers *)
(* stand to each other between two steps.                                  *)

\* The longest the first n attempts and the waits after them may take.
Before(n) == n * (Limit + Lag + MaxDelay + Lag)

LoopInv ==
  /\ attempt <= Allowed
  /\ phase # "returned" =>
       /\ attempt < Allowed
       /\ outcome = "none"
       /\ Len(log) = attempt
       /\ \A i \in 1..Len(log) : Retryable(log[i].result) /\ log[i].delay \in Delays(i)
  /\ phase = "returned" =>
       /\ Len(log) \in 1..Allowed
       /\ outcome = log[Len(log)].result
       /\ \A i \in 1..(Len(log) - 1) : Retryable(log[i].result) /\ log[i].delay \in Delays(i)
       /\ Retryable(outcome) => Len(log) = Allowed

\* No timer is overdue by more than Lag, and every attempt began in time for the
\* call to end within Longest.
TimeInv ==
  /\ phase = "attempting" =>
       /\ began <= now /\ now <= wake + Lag /\ wake = began + Limit
       /\ began <= Before(attempt)
       /\ answer # "none" => answered <= now /\ now <= answered + Lag
  /\ phase = "sleeping" =>
       /\ now <= wake + Lag
       /\ wake + Lag <= Before(attempt)
  /\ phase = "returned" => now <= Longest

\* The inductive invariant of the call.
IInv == TypeOK /\ LoopInv /\ TimeInv /\ TimeoutsAreGenuine
=============================================================================
