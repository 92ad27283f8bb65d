------------------------------ MODULE BreakerGate ------------------------------
(***************************************************************************)
(* contrib/breaker_gate.py: guarded_measured_gate composes the measured    *)
(* mandated gate with a CircuitBreaker.  Callers share one breaker, whose  *)
(* methods are the atomic ones of CircuitBreaker; between check(), the     *)
(* evaluation of the gate and the record_...() call the others run, and    *)
(* the manifest source goes down and comes back.                           *)
(*                                                                         *)
(* The measurement is reduced to what the breaker sees of it: whether it   *)
(* could be made at all ("down" stands for a failing source and for failing*)
(* plumbing alike, both reported as ERROR), and whether the precondition   *)
(* was met.  MeasuredGate models how it comes to its answer.               *)
(***************************************************************************)
EXTENDS PhaseGate, FiniteSets

CONSTANTS
  Callers, FailThreshold, OpenDuration, NONE,   \* as in CircuitBreaker
  Calls,   \* the calls made: [from, to, conditional, skipped, guarded]
  MaxLost  \* bound on callers that are lost

ASSUME BreakerAssumption ==
  /\ FailThreshold \in Nat \ {0} /\ OpenDuration \in Nat
  /\ NONE \notin Nat \cup {"CLOSED", "OPEN", "HALF_OPEN"}
ASSUME CallsAssumption ==
  Calls \subseteq [from : STRING, to : STRING, conditional : BOOLEAN,
                   skipped : BOOLEAN, guarded : BOOLEAN]
ASSUME MaxLostAssumption == MaxLost \in Nat

VARIABLES
  state, fail_count, opened_at,   \* the breaker's keys
  pc,       \* "running" from an allowing check() to the end of the call
  req,      \* req[c]: the call in flight, or NONE
  answer,   \* answer[c]: what the gate said of it; kept until the next call
  lost,     \* callers whose call in flight will never come back
  source,   \* "up" or "down"
  recent    \* history: the last FailThreshold verdicts told to the breaker

keys == <<state, fail_count, opened_at>>
vars == <<keys, pc, req, answer, lost, source, recent>>

Breaker == INSTANCE CircuitBreaker

\* `reached` is history: the source and the tests were read for this answer.
Answers == [verdict : Verdicts, reached : BOOLEAN]

TypeOK ==
  /\ Breaker!TypeOK
  /\ req \in [Callers -> Calls \cup {NONE}]
  /\ answer \in [Callers -> Answers \cup {NONE}]
  /\ lost \in SUBSET Callers /\ IsFiniteSet(lost) /\ Cardinality(lost) <= MaxLost
  /\ source \in {"up", "down"}
  /\ recent \in Seq(Verdicts) /\ Len(recent) <= FailThreshold

Init ==
  /\ Breaker!Init
  /\ req = [c \in Callers |-> NONE]
  /\ answer = [c \in Callers |-> NONE]
  /\ lost = {}
  /\ source = "up"
  /\ recent = <<>>

-------------------------------------------------------------------------------
\* decision = breaker.check() allows the request.
Admit(c, k) ==
  /\ k.guarded
  /\ Breaker!CheckAllows(c) \/ Breaker!CheckOpen(c)
  /\ req' = [req EXCEPT ![c] = k]
  /\ answer' = [answer EXCEPT ![c] = NONE]
  /\ UNCHANGED <<lost, source, recent>>

FaultyRefuse(c, k) ==   \* fault: the reason code is returned as the verdict
  /\ k.guarded
  /\ Breaker!CheckRefuses(c)
  /\ answer' = [answer EXCEPT ![c] = [verdict |-> "circuit_open", reached |-> FALSE]]
  /\ UNCHANGED <<req, lost, source, recent>>

\* The circuit_open short-circuit: ERROR, the gate does not run.  Neither the
\* flags nor the phases of the call are looked at.
Refuse(c, k) ==
  /\ k.guarded
  /\ Breaker!CheckRefuses(c)
  /\ answer' = [answer EXCEPT ![c] = [verdict |-> "ERROR", reached |-> FALSE]]
  /\ UNCHANGED <<req, lost, source, recent>>

\* evaluate_measured_mandated_from_with_receipt: the verdicts it can return
\* for k while the source is src, or an exception of the transition algebra.
GateVerdicts(k, src) ==
  IF ~IsMeasurable(k.from, k.to) THEN {"FAIL"}
  ELSE IF src = "down" THEN {"ERROR"}
  ELSE {EvaluateTransition(k.from, k.to, met, k.conditional, k.skipped).verdict :
          met \in BOOLEAN}

\* The source was asked, and answered.
Reached(k, src) == IsMeasurable(k.from, k.to) /\ src = "up"

Running(c) == pc[c] = "running" /\ c \notin lost

\* The gate comes back with a result, not yet told to the breaker.
Evaluate(c) ==
  /\ Running(c)
  /\ answer[c] = NONE
  /\ \E v \in GateVerdicts(req[c], source) \ Raised :
       answer' = [answer EXCEPT ![c] =
                    [verdict |-> v, reached |-> Reached(req[c], source)]]
  /\ UNCHANGED <<keys, pc, req, lost, source, recent>>

\* It raised (contradictory flags): the breaker hears nothing of the request.
GateRaises(c) ==
  /\ Running(c)
  /\ answer[c] = NONE
  /\ GateVerdicts(req[c], source) \cap Raised # {}
  /\ Breaker!Abandon(c)
  /\ req' = [req EXCEPT ![c] = NONE]
  /\ UNCHANGED <<answer, lost, source, recent>>

Remember(v) ==
  recent' = IF Len(recent) < FailThreshold THEN Append(recent, v)
            ELSE Append(Tail(recent), v)

FaultyRecord(c) ==   \* fault: whatever does not advance counts as an outage
  /\ Running(c)
  /\ answer[c] # NONE
  /\ IF CanAdvance(answer[c].verdict)
     THEN Breaker!RecordSuccess(c)
     ELSE Breaker!RecordFailure(c)
  /\ Remember(answer[c].verdict)
  /\ req' = [req EXCEPT ![c] = NONE]
  /\ UNCHANGED <<answer, lost, source>>

FaultyRecordEvaluated(c) ==   \* fault: only an ERROR is told to the breaker
  /\ Running(c)
  /\ answer[c] # NONE
  /\ IF answer[c].verdict = "ERROR"
     THEN Breaker!RecordFailure(c)
     ELSE Breaker!Abandon(c)
  /\ Remember(answer[c].verdict)
  /\ req' = [req EXCEPT ![c] = NONE]
  /\ UNCHANGED <<answer, lost, source>>

FaultyRecordOutage(c) ==   \* fault: an ERROR answer is recorded as a success
  /\ Running(c)
  /\ answer[c] # NONE
  /\ Breaker!RecordSuccess(c)
  /\ Remember(answer[c].verdict)
  /\ req' = [req EXCEPT ![c] = NONE]
  /\ UNCHANGED <<answer, lost, source>>

\* ERROR is an outage, any other verdict a healthy source.
Record(c) ==
  /\ Running(c)
  /\ answer[c] # NONE
  /\ IF answer[c].verdict = "ERROR"
     THEN Breaker!RecordFailure(c)
     ELSE Breaker!RecordSuccess(c)
  /\ Remember(answer[c].verdict)
  /\ req' = [req EXCEPT ![c] = NONE]
  /\ UNCHANGED <<answer, lost, source>>

\* breaker=None: the gate itself, with no word to or from a breaker.
PassThrough(c, k) ==
  /\ ~k.guarded
  /\ pc[c] = "idle"
  /\ \E v \in GateVerdicts(k, source) \ Raised :
       answer' = [answer EXCEPT ![c] = [verdict |-> v, reached |-> Reached(k, source)]]
  /\ UNCHANGED <<keys, pc, req, lost, source, recent>>

\* pytest is run without a timeout: a call in flight may hang for ever, or its
\* process may be killed.  The breaker is not told.
Lose(c) ==
  /\ Running(c)
  /\ Cardinality(lost) < MaxLost
  /\ lost' = lost \cup {c}
  /\ UNCHANGED <<keys, pc, req, answer, source, recent>>

Tick ==
  /\ Breaker!Tick
  /\ UNCHANGED <<req, answer, lost, source, recent>>

SourceChanges ==
  /\ source' = IF source = "up" THEN "down" ELSE "up"
  /\ UNCHANGED <<keys, pc, req, answer, lost, recent>>

Ask(c) == \E k \in Calls : Admit(c, k) \/ Refuse(c, k)

Next ==
  \/ Tick
  \/ SourceChanges
  \/ \E c \in Callers :
       \/ \E k \in Calls : Admit(c, k) \/ Refuse(c, k) \/ PassThrough(c, k)
       \/ Evaluate(c)
       \/ GateRaises(c)
       \/ Record(c)
       \/ Lose(c)

Spec == Init /\ [][Next]_vars

\* Time passes; a call that was let in and is not lost ends and is recorded;
\* whoever uses the guarded gate asks again.  Nothing is owed about the source or
\* the answers.
FairSpec ==
  /\ Spec
  /\ WF_vars(Tick)
  /\ \A c \in Callers :
       WF_vars(Ask(c)) /\ WF_vars(Evaluate(c) \/ GateRaises(c)) /\ WF_vars(Record(c))

-------------------------------------------------------------------------------
(***************************************************************************)
(* Properties.                                                             *)
(***************************************************************************)

\* "A FAIL is an evaluated red, NOT an outage, so it does not trip the breaker
\* - only repeated ERRORs do": the circuit is tripped exactly while the last
\* FailThreshold verdicts it was told, by whichever callers, were all ERROR.
TrippedIffRepeatedErrors ==
  state \in {"OPEN", "HALF_OPEN"} <=>
    /\ Len(recent) = FailThreshold
    /\ \A j \in DOMAIN recent : recent[j] = "ERROR"

InFlight == {req[c] : c \in Callers \ lost} \ {NONE}
AllMeasurable == \A k \in InFlight : IsMeasurable(k.from, k.to)
AllWellFormed == \A k \in InFlight : ~(k.conditional /\ k.skipped)

\* An outage trips the circuit and keeps it tripped, provided the transitions
\* asked about are ones the source has a say in: each refusal of any other
\* transition counts as a healthy source and clears the failures.  Callers that
\* hang hold nothing up: a trial that is lost leaves HALF_OPEN open to the next.
OutageTrips ==
  <>[](source = "down" /\ AllMeasurable)
    => <>[](state \in {"OPEN", "HALF_OPEN"})

\* When the source is back for good the circuit closes for good, provided the
\* calls are well-formed: one with contradictory flags raises after the
\* measurement and leaves a HALF_OPEN circuit as it is.
RecoveryCloses ==
  <>[](source = "up" /\ AllWellFormed)
    => <>[](state \in {NONE, "CLOSED"})

\* "An evaluated verdict (incl. FAIL) means the source was reachable": only a
\* call that reached the source resets the breaker.
EvaluatedMeansReachable ==
  [][\A c \in Callers :
       Record(c) /\ answer[c].verdict # "ERROR" => answer[c].reached]_vars
===============================================================================
