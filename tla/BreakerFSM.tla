------------------------------ MODULE BreakerFSM ------------------------------
(***************************************************************************)
(* What contrib/circuit_breaker.py promises in its module docstring: the   *)
(* three-state machine                                                     *)
(*                                                                         *)
(*    CLOSED    --(fail_threshold consecutive fails)--> OPEN               *)
(*    OPEN      --(open_duration elapsed)-->            HALF_OPEN          *)
(*    HALF_OPEN --(success)--> CLOSED  /  (fail)-->     OPEN               *)
(*                                                                         *)
(* with no store, no callers and no keys.  CircuitBreaker and BreakerStore *)
(* are compared with it through refinement mappings.  The docstring says   *)
(* nothing of the outcome of a request that was allowed before the circuit *)
(* opened and ends after; LateOutcomes adds what such an outcome does.     *)
(***************************************************************************)
EXTENDS Naturals

CONSTANTS
  FailThreshold,   \* consecutive failures that trip the circuit
  OpenDuration,    \* clock units an OPEN circuit refuses for
  LateOutcomes     \* BOOLEAN: may an outcome arrive while the circuit is OPEN?

VARIABLES
  st,      \* the state a reader of the docstring has in mind
  fails,   \* consecutive failures reported while CLOSED, FailThreshold once tripped
  age      \* time since the circuit last opened, saturating at OpenDuration

fsmVars == <<st, fails, age>>

FsmInit ==
  /\ st = "CLOSED"
  /\ fails = 0
  /\ age = 0

\* A reported success forgets the failures; it ends a HALF_OPEN trial.
FsmSuccess ==
  /\ st \in {"CLOSED", "HALF_OPEN"}
  /\ st' = "CLOSED"
  /\ fails' = 0
  /\ age' = 0

\* A failure below the threshold is only counted.
FsmFailure ==
  /\ st = "CLOSED"
  /\ fails + 1 < FailThreshold
  /\ fails' = fails + 1
  /\ UNCHANGED <<st, age>>

\* The failure that reaches the threshold, or that ends a trial, opens it.
FsmTrip ==
  /\ \/ st = "CLOSED" /\ fails + 1 = FailThreshold
     \/ st = "HALF_OPEN"
  /\ st' = "OPEN"
  /\ fails' = FailThreshold
  /\ age' = 0

FsmElapse ==
  /\ st = "OPEN"
  /\ age = OpenDuration
  /\ st' = "HALF_OPEN"
  /\ UNCHANGED <<fails, age>>

\* A late success closes the circuit at once; a late failure restarts the wait.
FsmLateSuccess ==
  /\ LateOutcomes
  /\ st = "OPEN"
  /\ st' = "CLOSED"
  /\ fails' = 0
  /\ age' = 0

FsmLateFailure ==
  /\ LateOutcomes
  /\ st = "OPEN"
  /\ age' = 0
  /\ UNCHANGED <<st, fails>>

FsmTick ==
  /\ st \in {"OPEN", "HALF_OPEN"}
  /\ age < OpenDuration
  /\ age' = age + 1
  /\ UNCHANGED <<st, fails>>

FsmNext ==
  \/ FsmSuccess
  \/ FsmFailure
  \/ FsmTrip
  \/ FsmElapse
  \/ FsmTick
  \/ FsmLateSuccess
  \/ FsmLateFailure

FsmSpec == FsmInit /\ [][FsmNext]_fsmVars

===============================================================================
