------------------------- MODULE CircuitBreakerProofs -------------------------
(***************************************************************************)
(* Theorems about CircuitBreaker, for every set of callers, every positive *)
(* threshold and every duration:                                           *)
(*   - the type invariant, and StoreConsistent, which is inductive given   *)
(*     the types;                                                          *)
(*   - a failure reported while the circuit is tripped reopens it;         *)
(*   - the shared breaker implements the documented machine with late      *)
(*     outcomes;                                                           *)
(*   - with one caller it implements the documented machine as it stands.  *)
(***************************************************************************)
EXTENDS CircuitBreaker, TLAPS

LEMMA TypeInit == Init => TypeOK
  BY FailThresholdAssumption, OpenDurationAssumption DEF Init, TypeOK

\* Every action keeps the keys and the program counters in their types.
LEMMA TypeNext == TypeOK /\ [Next]_vars => TypeOK'
<1> SUFFICES ASSUME TypeOK, [Next]_vars PROVE TypeOK'
  OBVIOUS
<1> USE FailThresholdAssumption, OpenDurationAssumption, NoneAssumption DEF TypeOK, Elapsed
<1>1. CASE Tick
  BY <1>1 DEF Tick
<1>2. ASSUME NEW c \in Callers, CheckAllows(c) PROVE TypeOK'
  BY <1>2 DEF CheckAllows, Allow, store
<1>3. ASSUME NEW c \in Callers, CheckOpen(c) PROVE TypeOK'
  BY <1>3 DEF CheckOpen, Allow
<1>4. ASSUME NEW c \in Callers, CheckRefuses(c) PROVE TypeOK'
  BY <1>4 DEF CheckRefuses, vars
<1>5. ASSUME NEW c \in Callers, RecordSuccess(c) PROVE TypeOK'
  BY <1>5 DEF RecordSuccess, Finish
<1>6. ASSUME NEW c \in Callers, RecordFailure(c) PROVE TypeOK'
  BY <1>6 DEF RecordFailure, Finish
<1>7. ASSUME NEW c \in Callers, Abandon(c) PROVE TypeOK'
  BY <1>7 DEF Abandon, Finish, store
<1>8. CASE UNCHANGED vars
  BY <1>8 DEF vars
<1> QED
  BY <1>1, <1>2, <1>3, <1>4, <1>5, <1>6, <1>7, <1>8 DEF Next

\* The keys and program counters always have their types.
THEOREM TypeCorrect == Spec => []TypeOK
<1>1. Init => TypeOK
  BY TypeInit
<1>2. TypeOK /\ [Next]_vars => TypeOK'
  BY TypeNext
<1> QED
  BY <1>1, <1>2, PTL DEF Spec

-------------------------------------------------------------------------------
LEMMA ConsistentInit == Init => StoreConsistent
  BY FailThresholdAssumption, NoneAssumption DEF Init, StoreConsistent

\* No action breaks the agreement of the three keys: a trial keeps the count
\* and the time of opening, a success clears both, a failure below the
\* threshold touches neither state nor time.
LEMMA ConsistentNext == TypeOK /\ StoreConsistent /\ [Next]_vars => StoreConsistent'
<1> SUFFICES ASSUME TypeOK, StoreConsistent, [Next]_vars PROVE StoreConsistent'
  OBVIOUS
<1> USE FailThresholdAssumption, OpenDurationAssumption, NoneAssumption
    DEF TypeOK, Elapsed, StoreConsistent
<1>1. CASE Tick
  BY <1>1 DEF Tick
<1>2. ASSUME NEW c \in Callers, CheckAllows(c) PROVE StoreConsistent'
  BY <1>2 DEF CheckAllows, store
<1>3. ASSUME NEW c \in Callers, CheckOpen(c) PROVE StoreConsistent'
  BY <1>3 DEF CheckOpen
<1>4. ASSUME NEW c \in Callers, CheckRefuses(c) PROVE StoreConsistent'
  BY <1>4 DEF CheckRefuses, vars
<1>5. ASSUME NEW c \in Callers, RecordSuccess(c) PROVE StoreConsistent'
  BY <1>5 DEF RecordSuccess
<1>6. ASSUME NEW c \in Callers, RecordFailure(c) PROVE StoreConsistent'
  <2>1. CASE fail_count + 1 >= FailThreshold
    BY <1>6, <2>1 DEF RecordFailure
  <2>2. CASE ~(fail_count + 1 >= FailThreshold)
    <3>1. fail_count # FailThreshold /\ fail_count' # FailThreshold
      BY <1>6, <2>2 DEF RecordFailure
    <3> QED
      BY <1>6, <2>2, <3>1 DEF RecordFailure
  <2> QED
    BY <2>1, <2>2
<1>7. ASSUME NEW c \in Callers, Abandon(c) PROVE StoreConsistent'
  BY <1>7 DEF Abandon, store
<1>8. CASE UNCHANGED vars
  BY <1>8 DEF vars
<1> QED
  BY <1>1, <1>2, <1>3, <1>4, <1>5, <1>6, <1>7, <1>8 DEF Next

\* The circuit is tripped exactly while the counter stands at the threshold
\* and exactly while the time of opening is known.
THEOREM KeysAgree == Spec => []StoreConsistent
<1>1. Init => TypeOK /\ StoreConsistent
  BY TypeInit, ConsistentInit
<1>2. (TypeOK /\ StoreConsistent) /\ [Next]_vars => (TypeOK /\ StoreConsistent)'
  BY TypeNext, ConsistentNext
<1> QED
  BY <1>1, <1>2, PTL DEF Spec

\* A failure reported while the circuit is OPEN or HALF_OPEN leaves it OPEN
\* with the full wait ahead: the count is already at the threshold.
THEOREM FailureReopens == Spec => FailedTrialReopens
<1> DEFINE Reopens ==
      \A c \in Callers :
        RecordFailure(c) /\ state \in {"OPEN", "HALF_OPEN"}
          => state' = "OPEN" /\ opened_at' = 0
<1>1. TypeOK /\ StoreConsistent /\ [Next]_vars => [Reopens]_vars
  <2> SUFFICES ASSUME TypeOK, StoreConsistent, NEW c \in Callers,
                      RecordFailure(c), state \in {"OPEN", "HALF_OPEN"}
               PROVE  state' = "OPEN" /\ opened_at' = 0
    OBVIOUS
  <2>1. fail_count + 1 >= FailThreshold
    BY FailThresholdAssumption DEF StoreConsistent
  <2> QED
    BY <2>1 DEF RecordFailure
<1> QED
  BY <1>1, TypeCorrect, KeysAgree, PTL DEF Spec, FailedTrialReopens

-------------------------------------------------------------------------------
LEMMA MachineInit == Init => Machine!FsmInit
  BY NoneAssumption DEF Init, Machine!FsmInit, DocState, DocAge

\* Each action is a step of the documented machine, a late outcome, or nothing
\* to it.
LEMMA MachineNext ==
  TypeOK /\ StoreConsistent /\ [Next]_vars => [Machine!FsmNext]_(Machine!fsmVars)
<1> SUFFICES ASSUME TypeOK, StoreConsistent, [Next]_vars
             PROVE  Machine!FsmNext \/ UNCHANGED Machine!fsmVars
  OBVIOUS
<1> USE FailThresholdAssumption, OpenDurationAssumption, NoneAssumption
    DEF TypeOK, Elapsed, StoreConsistent, DocState, DocAge
<1>1. CASE Tick
  <2>1. Machine!FsmTick
    BY <1>1 DEF Tick, Machine!FsmTick
  <2> QED
    BY <2>1 DEF Machine!FsmNext
<1>2. ASSUME NEW c \in Callers, CheckAllows(c) PROVE UNCHANGED Machine!fsmVars
  BY <1>2 DEF CheckAllows, store, Machine!fsmVars
<1>3. ASSUME NEW c \in Callers, CheckOpen(c) PROVE Machine!FsmNext
  <2>1. Machine!FsmElapse
    BY <1>3 DEF CheckOpen, Machine!FsmElapse
  <2> QED
    BY <2>1 DEF Machine!FsmNext
<1>4. ASSUME NEW c \in Callers, CheckRefuses(c) PROVE UNCHANGED Machine!fsmVars
  BY <1>4 DEF CheckRefuses, vars, Machine!fsmVars
<1>5. ASSUME NEW c \in Callers, RecordSuccess(c) PROVE Machine!FsmNext
  <2>1. CASE state = "OPEN"
    <3>1. Machine!FsmLateSuccess
      BY <1>5, <2>1 DEF RecordSuccess, Machine!FsmLateSuccess
    <3> QED
      BY <3>1 DEF Machine!FsmNext
  <2>2. CASE state # "OPEN"
    <3>1. Machine!FsmSuccess
      BY <1>5, <2>2 DEF RecordSuccess, Machine!FsmSuccess
    <3> QED
      BY <3>1 DEF Machine!FsmNext
  <2> QED
    BY <2>1, <2>2
<1>6. ASSUME NEW c \in Callers, RecordFailure(c) PROVE Machine!FsmNext
  <2>1. CASE state = "OPEN"
    <3>1. Machine!FsmLateFailure
      BY <1>6, <2>1 DEF RecordFailure, Machine!FsmLateFailure
    <3> QED
      BY <3>1 DEF Machine!FsmNext
  <2>2. CASE state = "HALF_OPEN"
    <3>1. Machine!FsmTrip
      BY <1>6, <2>2 DEF RecordFailure, Machine!FsmTrip
    <3> QED
      BY <3>1 DEF Machine!FsmNext
  <2>3. CASE state \notin {"OPEN", "HALF_OPEN"} /\ fail_count + 1 >= FailThreshold
    <3>1. Machine!FsmTrip
      BY <1>6, <2>3 DEF RecordFailure, Machine!FsmTrip
    <3> QED
      BY <3>1 DEF Machine!FsmNext
  <2>4. CASE state \notin {"OPEN", "HALF_OPEN"} /\ ~(fail_count + 1 >= FailThreshold)
    <3>1. Machine!FsmFailure
      BY <1>6, <2>4 DEF RecordFailure, Machine!FsmFailure
    <3> QED
      BY <3>1 DEF Machine!FsmNext
  <2> QED
    BY <2>1, <2>2, <2>3, <2>4
<1>7. ASSUME NEW c \in Callers, Abandon(c) PROVE UNCHANGED Machine!fsmVars
  BY <1>7 DEF Abandon, store, Machine!fsmVars
<1>8. CASE UNCHANGED vars
  BY <1>8 DEF vars, Machine!fsmVars
<1> QED
  BY <1>1, <1>2, <1>3, <1>4, <1>5, <1>6, <1>7, <1>8 DEF Next

\* However many callers share it, the breaker does what the module docstring
\* says, and otherwise only lets the outcome of an earlier request count while
\* the circuit is OPEN.
THEOREM BreakerIsMachine == Spec => ImplementsMachine
<1>1. Init => Machine!FsmInit
  BY MachineInit
<1>2. TypeOK /\ StoreConsistent /\ [Next]_vars => [Machine!FsmNext]_(Machine!fsmVars)
  BY MachineNext
<1> QED
  BY <1>1, <1>2, TypeCorrect, KeysAgree, PTL
  DEF Spec, ImplementsMachine, Machine!FsmSpec

-------------------------------------------------------------------------------
\* With one caller nothing is in flight while the circuit is OPEN.
NoneLate == state = "OPEN" => \A c \in Callers : pc[c] = "idle"

LEMMA NoneLateNext ==
  ASSUME NEW only, Callers = {only}
  PROVE  TypeOK /\ NoneLate /\ [Next]_vars => NoneLate'
<1> SUFFICES ASSUME TypeOK, NoneLate, [Next]_vars PROVE NoneLate'
  OBVIOUS
<1> USE NoneAssumption DEF TypeOK, NoneLate
<1>1. CASE Tick
  BY <1>1 DEF Tick
<1>2. ASSUME NEW c \in Callers, CheckAllows(c) PROVE NoneLate'
  BY <1>2 DEF CheckAllows, store
<1>3. ASSUME NEW c \in Callers, CheckOpen(c) PROVE NoneLate'
  BY <1>3 DEF CheckOpen
<1>4. ASSUME NEW c \in Callers, CheckRefuses(c) PROVE NoneLate'
  BY <1>4 DEF CheckRefuses, vars
<1>5. ASSUME NEW c \in Callers, RecordSuccess(c) PROVE NoneLate'
  BY <1>5 DEF RecordSuccess
<1>6. ASSUME NEW c \in Callers, RecordFailure(c) PROVE NoneLate'
  BY <1>6 DEF RecordFailure, Finish
<1>7. ASSUME NEW c \in Callers, Abandon(c) PROVE NoneLate'
  BY <1>7 DEF Abandon, Finish, store
<1>8. CASE UNCHANGED vars
  BY <1>8 DEF vars
<1> QED
  BY <1>1, <1>2, <1>3, <1>4, <1>5, <1>6, <1>7, <1>8 DEF Next

\* Then a step that is a step of the machine with late outcomes is one of the
\* machine without them: an outcome needs a running request.
LEMMA DocstringNext ==
  TypeOK /\ StoreConsistent /\ NoneLate /\ [Next]_vars
    => [Docstring!FsmNext]_(Docstring!fsmVars)
<1> SUFFICES ASSUME TypeOK, StoreConsistent, NoneLate, [Next]_vars
             PROVE  Docstring!FsmNext \/ UNCHANGED Docstring!fsmVars
  OBVIOUS
<1> USE FailThresholdAssumption, OpenDurationAssumption, NoneAssumption
    DEF TypeOK, Elapsed, StoreConsistent, DocState, DocAge
<1>1. CASE Tick
  <2>1. Docstring!FsmTick
    BY <1>1 DEF Tick, Docstring!FsmTick
  <2> QED
    BY <2>1 DEF Docstring!FsmNext
<1>2. ASSUME NEW c \in Callers, CheckAllows(c) PROVE UNCHANGED Docstring!fsmVars
  BY <1>2 DEF CheckAllows, store, Docstring!fsmVars
<1>3. ASSUME NEW c \in Callers, CheckOpen(c) PROVE Docstring!FsmNext
  <2>1. Docstring!FsmElapse
    BY <1>3 DEF CheckOpen, Docstring!FsmElapse
  <2> QED
    BY <2>1 DEF Docstring!FsmNext
<1>4. ASSUME NEW c \in Callers, CheckRefuses(c) PROVE UNCHANGED Docstring!fsmVars
  BY <1>4 DEF CheckRefuses, vars, Docstring!fsmVars
<1>5. ASSUME NEW c \in Callers, RecordSuccess(c) PROVE Docstring!FsmNext
  <2>1. state # "OPEN"
    BY <1>5 DEF RecordSuccess, Finish, NoneLate
  <2>2. Docstring!FsmSuccess
    BY <1>5, <2>1 DEF RecordSuccess, Docstring!FsmSuccess
  <2> QED
    BY <2>2 DEF Docstring!FsmNext
<1>6. ASSUME NEW c \in Callers, RecordFailure(c) PROVE Docstring!FsmNext
  <2>1. state # "OPEN"
    BY <1>6 DEF RecordFailure, Finish, NoneLate
  <2>2. CASE state = "HALF_OPEN" \/ fail_count + 1 >= FailThreshold
    <3>1. Docstring!FsmTrip
      BY <1>6, <2>1, <2>2 DEF RecordFailure, Docstring!FsmTrip
    <3> QED
      BY <3>1 DEF Docstring!FsmNext
  <2>3. CASE state # "HALF_OPEN" /\ ~(fail_count + 1 >= FailThreshold)
    <3>1. Docstring!FsmFailure
      BY <1>6, <2>1, <2>3 DEF RecordFailure, Docstring!FsmFailure
    <3> QED
      BY <3>1 DEF Docstring!FsmNext
  <2> QED
    BY <2>2, <2>3
<1>7. ASSUME NEW c \in Callers, Abandon(c) PROVE UNCHANGED Docstring!fsmVars
  BY <1>7 DEF Abandon, store, Docstring!fsmVars
<1>8. CASE UNCHANGED vars
  BY <1>8 DEF vars, Docstring!fsmVars
<1> QED
  BY <1>1, <1>2, <1>3, <1>4, <1>5, <1>6, <1>7, <1>8 DEF Next

\* Used by one caller at a time, the breaker is exactly the three-state machine
\* of the module docstring.
THEOREM SingleCallerIsDocstring ==
  ASSUME NEW only, Callers = {only}
  PROVE  Spec => ImplementsDocstring
<1>1. Init => Docstring!FsmInit /\ NoneLate
  BY NoneAssumption DEF Init, NoneLate, Docstring!FsmInit, DocState, DocAge
<1>2. TypeOK /\ NoneLate /\ [Next]_vars => NoneLate'
  BY NoneLateNext
<1>3. TypeOK /\ StoreConsistent /\ NoneLate /\ [Next]_vars
        => [Docstring!FsmNext]_(Docstring!fsmVars)
  BY DocstringNext
<1> QED
  BY <1>1, <1>2, <1>3, TypeCorrect, KeysAgree, PTL
  DEF Spec, ImplementsDocstring, Docstring!FsmSpec
===============================================================================
