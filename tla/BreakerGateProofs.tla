--------------------------- MODULE BreakerGateProofs ---------------------------
(***************************************************************************)
(* Proofs about BreakerGate, for every set of callers and calls, every     *)
(* positive threshold and every duration.                                  *)
(***************************************************************************)
EXTENDS BreakerGate, FiniteSetTheorems, TLAPS

\* The breaker's counter is the number of ERRORs told to it since the last
\* verdict that was something else.
CountsTrailingErrors ==
  /\ fail_count <= Len(recent)
  /\ \A j \in 1 .. Len(recent) : j > Len(recent) - fail_count => recent[j] = "ERROR"
  /\ fail_count < Len(recent) => recent[Len(recent) - fail_count] # "ERROR"

IInv ==
  /\ TypeOK
  /\ Breaker!StoreConsistent
  /\ CountsTrailingErrors

-------------------------------------------------------------------------------
LEMMA GateVerdictTypes ==
  ASSUME NEW k, NEW src PROVE GateVerdicts(k, src) \subseteq Verdicts \cup Raised
  BY DEF GateVerdicts, EvaluateTransition, Result, Verdicts, Raised

\* The window of verdicts has a type of its own.
LEMMA RememberType ==
  ASSUME recent \in Seq(Verdicts), Len(recent) <= FailThreshold,
         NEW v \in Verdicts, Remember(v)
  PROVE  recent' \in Seq(Verdicts) /\ Len(recent') <= FailThreshold
<1>1. CASE Len(recent) < FailThreshold
  BY <1>1, BreakerAssumption DEF Remember
<1>2. CASE ~(Len(recent) < FailThreshold)
  <2>1. Len(recent) \in Nat /\ Len(recent) = FailThreshold /\ recent # <<>>
    BY <1>2, BreakerAssumption
  <2> QED
    BY <1>2, <2>1, BreakerAssumption DEF Remember
<1> QED
  BY <1>1, <1>2

LEMMA TypeInit == Init => TypeOK
  BY BreakerAssumption, MaxLostAssumption, FS_EmptySet
  DEF Init, TypeOK, Breaker!Init, Breaker!TypeOK, Breaker!Elapsed

LEMMA TypeNext == TypeOK /\ [Next]_vars => TypeOK'
<1> SUFFICES ASSUME TypeOK, [Next]_vars PROVE TypeOK'
  OBVIOUS
<1> USE BreakerAssumption DEF TypeOK, Breaker!TypeOK, Breaker!Elapsed, keys, Answers
<1>1. CASE Tick
  BY <1>1 DEF Tick, Breaker!Tick
<1>2. CASE SourceChanges
  BY <1>2 DEF SourceChanges
<1>3. ASSUME NEW c \in Callers, NEW k \in Calls, Admit(c, k) PROVE TypeOK'
  BY <1>3 DEF Admit, Breaker!CheckAllows, Breaker!CheckOpen, Breaker!Allow, Breaker!store
<1>4. ASSUME NEW c \in Callers, NEW k \in Calls, Refuse(c, k) PROVE TypeOK'
  BY <1>4 DEF Refuse, Breaker!CheckRefuses, Breaker!vars, Verdicts
<1>5. ASSUME NEW c \in Callers, NEW k \in Calls, PassThrough(c, k) PROVE TypeOK'
  <2>1. PICK v \in GateVerdicts(k, source) \ Raised :
          answer' = [answer EXCEPT ![c] = [verdict |-> v, reached |-> Reached(k, source)]]
    BY <1>5 DEF PassThrough
  <2>2. v \in Verdicts /\ Reached(k, source) \in BOOLEAN
    BY GateVerdictTypes DEF Reached
  <2> QED
    BY <1>5, <2>1, <2>2 DEF PassThrough
<1>6. ASSUME NEW c \in Callers, Evaluate(c) PROVE TypeOK'
  <2>1. PICK v \in GateVerdicts(req[c], source) \ Raised :
          answer' = [answer EXCEPT ![c] =
                       [verdict |-> v, reached |-> Reached(req[c], source)]]
    BY <1>6 DEF Evaluate
  <2>2. v \in Verdicts /\ Reached(req[c], source) \in BOOLEAN
    BY GateVerdictTypes DEF Reached
  <2> QED
    BY <1>6, <2>1, <2>2 DEF Evaluate
<1>7. ASSUME NEW c \in Callers, GateRaises(c) PROVE TypeOK'
  BY <1>7 DEF GateRaises, Breaker!Abandon, Breaker!Finish, Breaker!store
<1>8. ASSUME NEW c \in Callers, Record(c) PROVE TypeOK'
  <2>1. recent' \in Seq(Verdicts) /\ Len(recent') <= FailThreshold
    BY <1>8, RememberType DEF Record
  <2>2. CASE answer[c].verdict = "ERROR"
    BY <1>8, <2>1, <2>2 DEF Record, Breaker!RecordFailure, Breaker!Finish
  <2>3. CASE answer[c].verdict # "ERROR"
    BY <1>8, <2>1, <2>3 DEF Record, Breaker!RecordSuccess, Breaker!Finish
  <2> QED
    BY <2>2, <2>3
<1>9. ASSUME NEW c \in Callers, Lose(c) PROVE TypeOK'
  <2>1. /\ IsFiniteSet(lost \cup {c})
        /\ Cardinality(lost \cup {c}) = Cardinality(lost) + 1
    BY <1>9, FS_AddElement DEF Lose, Running
  <2>2. Cardinality(lost) \in Nat
    BY FS_CardinalityType
  <2> QED
    BY <1>9, <2>1, <2>2, MaxLostAssumption DEF Lose
<1>10. CASE UNCHANGED vars
  BY <1>10 DEF vars
<1> QED
  BY <1>1, <1>2, <1>3, <1>4, <1>5, <1>6, <1>7, <1>8, <1>9, <1>10 DEF Next

-------------------------------------------------------------------------------
LEMMA IInvInit == Init => IInv
  BY TypeInit, BreakerAssumption
  DEF Init, IInv, CountsTrailingErrors, Breaker!Init, Breaker!StoreConsistent

\* A failure adds an ERROR at the end; one beyond the threshold drops the oldest.
LEMMA FailureCounted ==
  ASSUME IInv, NEW c \in Callers, Record(c), answer[c].verdict = "ERROR"
  PROVE  CountsTrailingErrors'
<1> USE BreakerAssumption DEF IInv, TypeOK, Breaker!TypeOK, CountsTrailingErrors
<1>1. Breaker!RecordFailure(c) /\ Remember("ERROR")
  BY DEF Record
<1>2. recent \in Seq(Verdicts) /\ Len(recent) \in Nat /\ fail_count \in Nat
  OBVIOUS
<1>3. CASE Len(recent) < FailThreshold
  <2>1. recent' = Append(recent, "ERROR") /\ fail_count' = fail_count + 1
    BY <1>1, <1>2, <1>3 DEF Remember, Breaker!RecordFailure
  <2>2. /\ Len(recent') = Len(recent) + 1
        /\ recent'[Len(recent) + 1] = "ERROR"
        /\ \A j \in 1 .. Len(recent) : recent'[j] = recent[j]
    BY <1>2, <2>1
  <2> QED
    BY <1>2, <2>1, <2>2
<1>4. CASE Len(recent) = FailThreshold
  <2>1. recent' = Append(Tail(recent), "ERROR")
    BY <1>1, <1>2, <1>4 DEF Remember
  <2>2. /\ Len(recent') = Len(recent)
        /\ recent'[Len(recent)] = "ERROR"
        /\ \A j \in 1 .. Len(recent) - 1 : recent'[j] = recent[j + 1]
    BY <1>2, <1>4, <2>1
  <2>3. CASE fail_count + 1 >= FailThreshold
    <3>1. fail_count' = FailThreshold
      BY <1>1, <2>3 DEF Breaker!RecordFailure
    <3> QED
      BY <1>2, <1>4, <2>2, <2>3, <3>1
  <2>4. CASE fail_count + 1 < FailThreshold
    <3>1. fail_count' = fail_count + 1
      BY <1>1, <1>2, <2>4 DEF Breaker!RecordFailure
    <3> QED
      BY <1>2, <1>4, <2>2, <2>4, <3>1
  <2> QED
    BY <1>2, <2>3, <2>4
<1> QED
  BY <1>2, <1>3, <1>4

\* Any other verdict ends the run of ERRORs.
LEMMA SuccessCounted ==
  ASSUME IInv, NEW c \in Callers, Record(c), answer[c].verdict # "ERROR"
  PROVE  CountsTrailingErrors'
<1> USE BreakerAssumption DEF IInv, TypeOK, Breaker!TypeOK, CountsTrailingErrors
<1> DEFINE v == answer[c].verdict
<1>1. fail_count' = 0 /\ Remember(v) /\ v \in Verdicts
  BY DEF Record, Breaker!RecordSuccess, Answers
<1>2. recent \in Seq(Verdicts) /\ Len(recent) \in Nat
  OBVIOUS
<1>3. Len(recent') \in Nat \ {0} /\ recent'[Len(recent')] = v
  <2> HIDE DEF v
  <2>1. CASE Len(recent) < FailThreshold
    BY <1>1, <1>2, <2>1 DEF Remember
  <2>2. CASE Len(recent) = FailThreshold
    <3>1. recent' = Append(Tail(recent), v) /\ Tail(recent) \in Seq(Verdicts)
      BY <1>1, <1>2, <2>2 DEF Remember
    <3> QED
      BY <1>1, <3>1
  <2> QED
    BY <1>2, <2>1, <2>2
<1> QED
  BY <1>1, <1>3

LEMMA IInvNext == IInv /\ [Next]_vars => IInv'
<1> SUFFICES ASSUME IInv, [Next]_vars PROVE IInv'
  OBVIOUS
<1>1. TypeOK'
  BY TypeNext DEF IInv
<1> USE BreakerAssumption
    DEF IInv, TypeOK, Breaker!TypeOK, Breaker!Elapsed, Breaker!StoreConsistent, keys
<1>2. CASE Tick
  BY <1>1, <1>2 DEF Tick, Breaker!Tick, CountsTrailingErrors
<1>3. ASSUME NEW c \in Callers, NEW k \in Calls, Admit(c, k) PROVE IInv'
  \* StoreConsistent: no OPEN circuit is without its time of opening, so that
  \* check() resets nothing.
  <2>1. UNCHANGED <<fail_count, opened_at, recent>>
    BY <1>3 DEF Admit, Breaker!CheckAllows, Breaker!CheckOpen, Breaker!store
  <2> QED
    BY <1>1, <1>3, <2>1
    DEF Admit, Breaker!CheckAllows, Breaker!CheckOpen, Breaker!store, CountsTrailingErrors
<1>4. ASSUME NEW c \in Callers, Record(c) PROVE IInv'
  <2>1. CountsTrailingErrors'
    BY <1>4, FailureCounted, SuccessCounted
  <2>2. Breaker!StoreConsistent'
    <3>1. CASE answer[c].verdict = "ERROR"
      BY <1>4, <3>1 DEF Record, Breaker!RecordFailure
    <3>2. CASE answer[c].verdict # "ERROR"
      BY <1>4, <3>2 DEF Record, Breaker!RecordSuccess
    <3> QED
      BY <3>1, <3>2
  <2> QED
    BY <1>1, <2>1, <2>2
<1>5. ASSUME UNCHANGED <<keys, recent>> PROVE IInv'
  BY <1>1, <1>5 DEF CountsTrailingErrors
<1>6. ASSUME NEW c \in Callers,
             \/ \E k \in Calls : Refuse(c, k) \/ PassThrough(c, k)
             \/ Evaluate(c) \/ GateRaises(c) \/ Lose(c)
      PROVE  UNCHANGED <<keys, recent>>
  BY <1>6 DEF Refuse, PassThrough, Evaluate, GateRaises, Lose, Breaker!CheckRefuses,
              Breaker!vars, Breaker!Abandon, Breaker!store
<1>7. SourceChanges \/ UNCHANGED vars => UNCHANGED <<keys, recent>>
  BY DEF SourceChanges, vars
<1> QED
  BY <1>2, <1>3, <1>4, <1>5, <1>6, <1>7 DEF Next

-------------------------------------------------------------------------------
\* Whatever callers are admitted, refused, lost or raise, the keys of the breaker,
\* the answers and the window of verdicts keep their types, and no more than
\* MaxLost callers are lost.
THEOREM TypesHold == Spec => []TypeOK
<1>1. Init => TypeOK
  BY TypeInit
<1>2. TypeOK /\ [Next]_vars => TypeOK'
  BY TypeNext
<1> QED
  BY <1>1, <1>2, PTL DEF Spec

\* The circuit is tripped exactly while the last FailThreshold verdicts it was
\* told were all ERROR; for any number of callers, whose answers may be recorded
\* in any order and long after they were given.
THEOREM TripsOnRepeatedErrors == Spec => []TrippedIffRepeatedErrors
<1>1. Init => IInv
  BY IInvInit
<1>2. IInv /\ [Next]_vars => IInv'
  BY IInvNext
<1>3. IInv => TrippedIffRepeatedErrors
  <2> SUFFICES ASSUME IInv PROVE TrippedIffRepeatedErrors
    OBVIOUS
  <2>1. /\ Len(recent) \in Nat /\ fail_count \in Nat /\ FailThreshold \in Nat
        /\ Len(recent) <= FailThreshold /\ fail_count <= FailThreshold
        /\ DOMAIN recent = 1 .. Len(recent)
    BY BreakerAssumption DEF IInv, TypeOK, Breaker!TypeOK
  <2>2. CountsTrailingErrors /\ fail_count <= Len(recent)
    BY DEF IInv, CountsTrailingErrors
  <2>3. state \in {"OPEN", "HALF_OPEN"} <=> fail_count = FailThreshold
    BY DEF IInv, Breaker!StoreConsistent
  <2>4. CASE fail_count = FailThreshold
    <3>1. Len(recent) = FailThreshold
      <4> DEFINE n == Len(recent)
      <4>1. n \in Nat /\ n <= FailThreshold /\ FailThreshold <= n /\ FailThreshold \in Nat
        BY <2>1, <2>2, <2>4
      <4> HIDE DEF n
      <4>2. n = FailThreshold
        BY <4>1
      <4> QED
        BY <4>2 DEF n
    <3>2. \A j \in DOMAIN recent : recent[j] = "ERROR"
      BY <2>1, <2>2, <2>4, <3>1 DEF CountsTrailingErrors
    <3> QED
      BY <2>3, <2>4, <3>1, <3>2 DEF TrippedIffRepeatedErrors
  <2>5. CASE fail_count # FailThreshold
    <3>1. ASSUME Len(recent) = FailThreshold
          PROVE  /\ FailThreshold - fail_count \in DOMAIN recent
                 /\ recent[FailThreshold - fail_count] # "ERROR"
      BY <2>1, <2>2, <2>5, <3>1 DEF CountsTrailingErrors
    <3> QED
      BY <2>3, <2>5, <3>1 DEF TrippedIffRepeatedErrors
  <2> QED
    BY <2>4, <2>5
<1> QED
  BY <1>1, <1>2, <1>3, PTL DEF Spec
===============================================================================
