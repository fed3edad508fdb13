---------------------------- MODULE CircuitBreaker ----------------------------
(***************************************************************************)
(* CircuitBreaker of agent-sre-core.  Each method is one step: it holds    *)
(* the write lock of the inner state throughout.  A caller asks is_allowed *)
(* and, if it may pass, records the outcome of its work some time later,   *)
(* when other callers may have changed the state.                          *)
(*                                                                         *)
(* Time is the age of an Instant in ticks.  Ages and the failure count are *)
(* kept only as far as the code compares them, up to Timeout and Cap.      *)
(***************************************************************************)
EXTENDS Naturals

CONSTANTS Callers,
          Threshold,  \* failure_threshold
          Timeout     \* reset_timeout in ticks

ASSUME BreakerAssumption == Threshold \in Nat /\ Timeout \in Nat

Cap == Threshold + 1        \* bound of failureCount
Never == Timeout + 1        \* the age of an event that has not happened

VARIABLES
  state,         \* "Closed", "Open" or "HalfOpen"
  failureCount,  \* failure_count
  sinceTrip,     \* age of last_failure_time; Never for None
  running,       \* callers that were allowed and have not recorded an outcome
  \* History, to state the properties:
  failures,      \* failures recorded since the last success
  sinceFailure   \* age of the last record_failure

inner == <<state, failureCount, sinceTrip>>
vars == <<inner, running, failures, sinceFailure>>

Init == /\ state = "Closed" /\ failureCount = 0 /\ sinceTrip = Never
        /\ running = {}
        /\ failures = 0 /\ sinceFailure = Never

Increment(n) == IF n < Cap THEN n + 1 ELSE Cap
Older(age) == IF age < Timeout THEN age + 1 ELSE age

\* last_failure_time is set and elapsed() >= reset_timeout.
TimedOut == sinceTrip # Never /\ sinceTrip >= Timeout

\* What is_allowed returns.
Allowed == state \in {"Closed", "HalfOpen"} \/ (state = "Open" /\ TimedOut)

\* Mutant: a refused call restarts the timeout.
IsAllowedRestarts(c) ==
  /\ c \notin running
  /\ IF Allowed
     THEN /\ running' = running \cup {c} /\ UNCHANGED sinceTrip
          /\ state' = IF state = "Open" THEN "HalfOpen" ELSE state
     ELSE sinceTrip' = 0 /\ UNCHANGED <<running, state>>
  /\ UNCHANGED <<failureCount, failures, sinceFailure>>

IsAllowed(c) ==
  /\ c \notin running
  /\ IF Allowed
     THEN /\ running' = running \cup {c}
          /\ state' = IF state = "Open" THEN "HalfOpen" ELSE state
     ELSE UNCHANGED <<running, state>>
  /\ UNCHANGED <<failureCount, sinceTrip, failures, sinceFailure>>

\* Mutant: a success closes the breaker and keeps the count.
RecordSuccessKeepsCount ==
  /\ state' = "Closed" /\ UNCHANGED <<failureCount, sinceTrip>>
  /\ failures' = 0 /\ UNCHANGED sinceFailure

RecordSuccess ==
  /\ state' = "Closed" /\ failureCount' = 0 /\ UNCHANGED sinceTrip
  /\ failures' = 0 /\ UNCHANGED sinceFailure

RecordFailure ==
  /\ failureCount' = Increment(failureCount)
  /\ IF failureCount' >= Threshold
     THEN state' = "Open" /\ sinceTrip' = 0
     ELSE UNCHANGED <<state, sinceTrip>>
  /\ failures' = Increment(failures) /\ sinceFailure' = 0

\* A caller that was allowed records the outcome, whatever the state is by now.
Succeed(c) == c \in running /\ running' = running \ {c} /\ RecordSuccess
Fail(c)    == c \in running /\ running' = running \ {c} /\ RecordFailure

\* Nothing ties record_success and record_failure to a call of is_allowed.
RecordUnasked == UNCHANGED running /\ (RecordSuccess \/ RecordFailure)

Tick == /\ sinceTrip' = Older(sinceTrip) /\ sinceFailure' = Older(sinceFailure)
        /\ UNCHANGED <<state, failureCount, running, failures>>

Next == \/ \E c \in Callers : IsAllowed(c) \/ Succeed(c) \/ Fail(c)
        \/ RecordUnasked
        \/ Tick

Spec == Init /\ [][Next]_vars

\* Time passes; callers owe nothing, not even the outcome of their work.
FairSpec == Spec /\ WF_vars(Tick)

-------------------------------------------------------------------------------
TypeOK == /\ state \in {"Closed", "Open", "HalfOpen"}
          /\ failureCount \in 0..Cap /\ sinceTrip \in 0..Never
          /\ running \subseteq Callers
          /\ failures \in 0..Cap /\ sinceFailure \in 0..Never

\* is_allowed lets a caller pass exactly when fewer failures than the threshold
\* were recorded since the last success, or none for as long as the timeout:
\* late outcomes, probes of the half-open state and calls nobody waited for do
\* not make it forget a failure or refuse for longer.
AdmissionExact ==
  Allowed <=> failures = 0 \/ failures < Threshold
              \/ (sinceFailure # Never /\ sinceFailure >= Timeout)

\* An open breaker lets callers pass again, unless failures are recorded forever:
\* refused callers, however many, cannot keep it open.
Recovers == (state = "Open" ~> Allowed) \/ []<><<RecordFailure>>_vars
===============================================================================
