---------------------------- MODULE CircuitBreaker ----------------------------
(***************************************************************************)
(* contrib/circuit_breaker.py with every method of CircuitBreaker atomic:  *)
(* callers that share one breaker, each alternating check() with at most   *)
(* one record_success() / record_failure() for a request it was allowed.   *)
(* BreakerStore refines each method into its accesses to the KVStore.      *)
(*                                                                         *)
(* Two unbounded quantities saturate at the value the code compares them   *)
(* with, which loses nothing the code can observe: fail_count is only ever *)
(* compared with fail_threshold, and clock() - opened_at only with         *)
(* open_duration_s.  An absent fail_count key reads as 0 (incr starts from *)
(* "0"); opened_at holds the time elapsed since it was written.            *)
(***************************************************************************)
EXTENDS Naturals

CONSTANTS
  Callers,         \* the threads or processes sharing the breaker
  FailThreshold,   \* fail_threshold
  OpenDuration,    \* open_duration_s, in clock units
  NONE             \* an absent key

ASSUME FailThresholdAssumption == FailThreshold \in Nat \ {0}
ASSUME OpenDurationAssumption == OpenDuration \in Nat
ASSUME NoneAssumption == NONE \notin Nat \cup {"CLOSED", "OPEN", "HALF_OPEN"}

VARIABLES
  state,        \* key circuit:<gate>:state
  fail_count,   \* key circuit:<gate>:fail_count
  opened_at,    \* key circuit:<gate>:opened_at, as time elapsed since
  pc            \* pc[c]: "idle", or "running" a request that check() allowed

store == <<state, fail_count, opened_at>>
vars == <<state, fail_count, opened_at, pc>>

Elapsed == 0 .. OpenDuration

TypeOK ==
  /\ state \in {NONE, "CLOSED", "OPEN", "HALF_OPEN"}
  /\ fail_count \in 0 .. FailThreshold
  /\ opened_at \in Elapsed \cup {NONE}
  /\ pc \in [Callers -> {"idle", "running"}]

Init ==
  /\ state = NONE
  /\ fail_count = 0
  /\ opened_at = NONE
  /\ pc = [c \in Callers |-> "idle"]

-------------------------------------------------------------------------------
\* check(): the branches that allow the request.

Allow(c) ==
  /\ pc[c] = "idle"
  /\ pc' = [pc EXCEPT ![c] = "running"]

\* No state key, CLOSED, or HALF_OPEN: allowed, nothing written.
CheckAllows(c) ==
  /\ state \in {NONE, "CLOSED", "HALF_OPEN"}
  /\ Allow(c)
  /\ UNCHANGED store

FaultyCheckOpen(c) ==   \* fault: the trial starts with a clean counter
  /\ state = "OPEN"
  /\ opened_at # NONE /\ opened_at >= OpenDuration
  /\ Allow(c)
  /\ state' = "HALF_OPEN"
  /\ fail_count' = 0
  /\ UNCHANGED opened_at

FaultyHalfOpenValue(c) ==   \* fault: str(State.HALF_OPEN) stored, not its value
  /\ state = "OPEN"
  /\ opened_at # NONE /\ opened_at >= OpenDuration
  /\ Allow(c)
  /\ state' = "State.HALF_OPEN"
  /\ UNCHANGED <<fail_count, opened_at>>

\* _reset(): an OPEN circuit without opened_at is corrupt; all keys go.
CheckOpen(c) ==
  /\ state = "OPEN"
  /\ IF opened_at = NONE
     THEN /\ Allow(c)
          /\ state' = NONE
          /\ fail_count' = 0
          /\ opened_at' = NONE
     ELSE /\ opened_at >= OpenDuration
          /\ Allow(c)
          /\ state' = "HALF_OPEN"
          /\ UNCHANGED <<fail_count, opened_at>>

FaultyCheckRefuses(c) ==   \* fault: a refused request restarts the wait
  /\ pc[c] = "idle"
  /\ state = "OPEN"
  /\ opened_at # NONE /\ opened_at < OpenDuration
  /\ opened_at' = 0
  /\ UNCHANGED <<state, fail_count, pc>>

\* OPEN and not yet elapsed: the caller is refused and stays idle.
CheckRefuses(c) ==
  /\ pc[c] = "idle"
  /\ state = "OPEN"
  /\ opened_at # NONE
  /\ opened_at < OpenDuration
  /\ UNCHANGED vars

-------------------------------------------------------------------------------
\* The outcome of an allowed request.

Finish(c) ==
  /\ pc[c] = "running"
  /\ pc' = [pc EXCEPT ![c] = "idle"]

FaultyRecordSuccess(c) ==   \* fault: the counter survives a success
  /\ Finish(c)
  /\ state' = "CLOSED"
  /\ opened_at' = NONE
  /\ UNCHANGED fail_count

RecordSuccess(c) ==
  /\ Finish(c)
  /\ state' = "CLOSED"
  /\ fail_count' = 0
  /\ opened_at' = NONE

FaultyRecordFailure(c) ==   \* fault: opened_at is stamped on the first trip only
  /\ Finish(c)
  /\ fail_count' = IF fail_count < FailThreshold THEN fail_count + 1 ELSE fail_count
  /\ IF fail_count + 1 >= FailThreshold
     THEN /\ state' = "OPEN"
          /\ opened_at' = IF opened_at = NONE THEN 0 ELSE opened_at
     ELSE UNCHANGED <<state, opened_at>>

RecordFailure(c) ==
  /\ Finish(c)
  /\ IF fail_count + 1 >= FailThreshold
     THEN /\ fail_count' = FailThreshold
          /\ state' = "OPEN"
          /\ opened_at' = 0
     ELSE /\ fail_count' = fail_count + 1
          /\ UNCHANGED <<state, opened_at>>

\* The request raised, or its process died: nothing is recorded.
Abandon(c) ==
  /\ Finish(c)
  /\ UNCHANGED store

\* clock() advances.
Tick ==
  /\ opened_at # NONE
  /\ opened_at < OpenDuration
  /\ opened_at' = opened_at + 1
  /\ UNCHANGED <<state, fail_count, pc>>

Next ==
  \/ Tick
  \/ \E c \in Callers :
       \/ CheckAllows(c)
       \/ CheckOpen(c)
       \/ CheckRefuses(c)
       \/ RecordSuccess(c)
       \/ RecordFailure(c)
       \/ Abandon(c)

Spec == Init /\ [][Next]_vars

\* Time passes, an allowed request ends somehow (nothing is assumed of how),
\* and whoever uses the breaker asks again.
Ends(c) == RecordSuccess(c) \/ RecordFailure(c) \/ Abandon(c)

Fairness ==
  /\ WF_vars(Tick)
  /\ \A c \in Callers : WF_vars(CheckOpen(c)) /\ WF_vars(Ends(c))

FairSpec == Spec /\ Fairness

-------------------------------------------------------------------------------
(***************************************************************************)
(* Properties.                                                             *)
(***************************************************************************)

\* The three keys agree: the circuit is tripped (OPEN or HALF_OPEN) exactly
\* while the failure counter stands at the threshold, and exactly while the
\* time of opening is known.  check() and record_failure() each read one key
\* and take the others for granted; if HALF_OPEN could be reached with a lower
\* count, a failed trial would not reopen the circuit.
StoreConsistent ==
  LET tripped == state \in {"OPEN", "HALF_OPEN"}
  IN /\ tripped <=> fail_count = FailThreshold
     /\ tripped <=> opened_at # NONE

\* A failure reported while the circuit is tripped leaves it OPEN with the
\* full wait ahead (record_failure re-stamps opened_at), whichever caller
\* reports it and however many trials are running.
FailedTrialReopens ==
  [][\A c \in Callers :
       RecordFailure(c) /\ state \in {"OPEN", "HALF_OPEN"}
         => state' = "OPEN" /\ opened_at' = 0]_vars

\* The keys as the docstring's machine: a fresh circuit is CLOSED, and there is
\* no age while the circuit has not opened.
DocState == IF state = NONE THEN "CLOSED" ELSE state
DocAge == IF opened_at = NONE THEN 0 ELSE opened_at

\* Every step of the shared breaker is a step of the documented machine, or
\* the outcome of a request that was allowed before the circuit opened.
Machine ==
  INSTANCE BreakerFSM WITH
    LateOutcomes <- TRUE,
    st <- DocState,
    fails <- fail_count,
    age <- DocAge

ImplementsMachine == Machine!FsmSpec

\* With a single caller no outcome is late, and the breaker is exactly the
\* machine of the module docstring.
Docstring ==
  INSTANCE BreakerFSM WITH
    LateOutcomes <- FALSE,
    st <- DocState,
    fails <- fail_count,
    age <- DocAge

ImplementsDocstring == Docstring!FsmSpec

\* An OPEN circuit does not refuse for ever: late failures may restart the
\* wait, but only as often as requests were already running.
OpenEnds == state = "OPEN" ~> state # "OPEN"
===============================================================================
