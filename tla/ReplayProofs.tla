----------------------------- MODULE ReplayProofs -----------------------------
(***************************************************************************)
(* Theorems of Replay: which receipts replay against which checkouts.      *)
(* Everything here follows from FromACall, the part of MeasuredGateProofs' *)
(* invariant that says how a receipt comes about.                          *)
(***************************************************************************)
EXTENDS Replay, MeasuredGateProofs

USE GateConstants

\* The one measurable transition, whatever the flags.
LEMMA MeasurableVerdict ==
  ASSUME NEW met \in BOOLEAN, NEW conditional \in BOOLEAN, NEW skipped \in BOOLEAN
  PROVE  EvaluateTransition("SCW", "MetaReview", met, conditional, skipped) =
           IF conditional /\ skipped THEN Result("SCW", "MetaReview", "ValueError", UNKNOWN)
           ELSE IF skipped THEN Result("SCW", "MetaReview", "SKIP", UNKNOWN)
           ELSE IF ~met THEN Result("SCW", "MetaReview", "FAIL", 5)
           ELSE IF conditional THEN Result("SCW", "MetaReview", "CONDITIONAL", UNKNOWN)
           ELSE Result("SCW", "MetaReview", "PASS", UNKNOWN)
<1>1. PhaseByName("SCW") = 4 /\ PhaseByName("MetaReview") = 5
  BY DEF PhaseByName
<1>2. CHAIN[4] = "SCW" /\ CHAIN[5] = "MetaReview"
  BY DEF CHAIN
<1>3. ~IsSelfApplication(4, 5) /\ NextPhase(4) = 5
  BY DEF IsSelfApplication, NextPhase
<1> QED BY <1>1, <1>2, <1>3 DEF EvaluateTransition, UNKNOWN

\* A phase that phase_by_name knows is known by its canonical name too.
LEMMA Canonical ==
  ASSUME NEW name, PhaseByName(name) # UNKNOWN
  PROVE  PhaseByName(CHAIN[PhaseByName(name)]) = PhaseByName(name)
<1>1. PhaseByName(name) \in {0, 1, 2, 3, 4, 5, 6}
  BY DEF PhaseByName, UNKNOWN
<1>2. /\ CHAIN[1] = "SA" /\ CHAIN[2] = "SP" /\ CHAIN[3] = "ST" /\ CHAIN[4] = "SCW"
      /\ CHAIN[5] = "MetaReview" /\ CHAIN[6] = "Cleanup"
  BY DEF CHAIN
<1>3. /\ PhaseByName("SA") = 1 /\ PhaseByName("SP") = 2 /\ PhaseByName("ST") = 3
      /\ PhaseByName("SCW") = 4 /\ PhaseByName("MetaReview") = 5 /\ PhaseByName("Cleanup") = 6
  BY DEF PhaseByName
<1>4. \A p \in {1, 2, 3, 4, 5, 6} : PhaseByName(CHAIN[p]) = p
  BY <1>2, <1>3
<1> QED BY <1>1, <1>4 DEF UNKNOWN

\* The same for the combinations of flags that are tried.
LEMMA MeasurableVerdicts ==
  ASSUME NEW met \in BOOLEAN
  PROVE  LET says(c, s) == EvaluateTransition("SCW", "MetaReview", met, c, s).verdict
         IN /\ says(FALSE, FALSE) = IF met THEN "PASS" ELSE "FAIL"
            /\ says(TRUE, FALSE) = IF met THEN "CONDITIONAL" ELSE "FAIL"
            /\ says(FALSE, TRUE) = "SKIP"
<1>1. PhaseByName("SCW") = 4 /\ PhaseByName("MetaReview") = 5
  BY DEF PhaseByName
<1>2. ~IsSelfApplication(4, 5) /\ NextPhase(4) = 5
  BY DEF IsSelfApplication, NextPhase
<1> QED BY <1>1, <1>2 DEF EvaluateTransition, Result, UNKNOWN

\* A result that is none of the exceptions names phases that phase_by_name knows.
LEMMA KnownIfEvaluated ==
  ASSUME NEW from, NEW to, NEW met, NEW conditional, NEW skipped,
         EvaluateTransition(from, to, met, conditional, skipped).verdict \notin Raised
  PROVE  LET result == EvaluateTransition(from, to, met, conditional, skipped)
         IN PhaseByName(result.from) # UNKNOWN /\ PhaseByName(result.to) # UNKNOWN
<1>1. PhaseByName(from) # UNKNOWN /\ PhaseByName(to) # UNKNOWN
  BY DEF EvaluateTransition, Result, Raised
<1>2. LET result == EvaluateTransition(from, to, met, conditional, skipped)
      IN result.from = CHAIN[PhaseByName(from)] /\ result.to = CHAIN[PhaseByName(to)]
  BY <1>1 DEF EvaluateTransition, Result, Raised
<1> QED BY <1>1, <1>2, Canonical

\* An evaluation raises exactly if a phase is unknown (or the flags exclude each other).
LEMMA RaisedIffUnknown ==
  ASSUME NEW from, NEW to, NEW met \in BOOLEAN,
         NEW conditional \in BOOLEAN, NEW skipped \in BOOLEAN, ~(conditional /\ skipped)
  PROVE  EvaluateTransition(from, to, met, conditional, skipped).verdict \in Raised <=>
           ~(PhaseByName(from) # UNKNOWN /\ PhaseByName(to) # UNKNOWN)
BY DEF EvaluateTransition, Result, Raised

\* _consistent_verdicts tries every admissible combination of the flags.
LEMMA Tried ==
  ASSUME NEW r, r.error = NONE, r.kind # "asserted"
  PROVE  LET says(c, s) == EvaluateTransition(r.from, r.to, r.exit = 0, c, s).verdict
         IN ConsistentVerdicts(r) =
              {says(FALSE, FALSE), says(TRUE, FALSE), says(FALSE, TRUE)} \ Raised
<1> DEFINE says(c, s) == EvaluateTransition(r.from, r.to, r.exit = 0, c, s).verdict
<1>1. ConsistentVerdicts(r) = {says(fl[1], fl[2]) : fl \in FlagCombos} \ Raised
  BY DEF ConsistentVerdicts
<1> HIDE DEF says
<1> DEFINE a == <<FALSE, FALSE>>
           b == <<TRUE, FALSE>>
           c == <<FALSE, TRUE>>
<1>2. a[1] = FALSE /\ a[2] = FALSE /\ b[1] = TRUE /\ b[2] = FALSE /\ c[1] = FALSE /\ c[2] = TRUE
  OBVIOUS
<1>3. FlagCombos = {a, b, c}
  BY DEF FlagCombos
<1> HIDE DEF a, b, c
<1>4. {says(fl[1], fl[2]) : fl \in {a, b, c}} = {says(a[1], a[2]), says(b[1], b[2]), says(c[1], c[2])}
  BY Zenon
<1>5. {says(fl[1], fl[2]) : fl \in FlagCombos}
        = {says(FALSE, FALSE), says(TRUE, FALSE), says(FALSE, TRUE)}
  BY <1>2, <1>3, <1>4, Zenon
<1> QED BY <1>1, <1>5 DEF says

\* Unmet and without flags, every known transition fails.
LEMMA UnmetFails ==
  ASSUME NEW from, NEW to, PhaseByName(from) # UNKNOWN, PhaseByName(to) # UNKNOWN
  PROVE  EvaluateTransition(from, to, FALSE, FALSE, FALSE).verdict = "FAIL"
BY DEF EvaluateTransition, Result

\* What is left on a receipt, and how its verdict is explained by its exit code.
Genuine(r) ==
  LET V == ConsistentVerdicts(r)
  IN /\ DOMAIN r = {"kind", "source", "from", "to", "verdict", "gate_version", "mandated",
                    "pinned", "matched", "observed", "exit", "error"}
     /\ DOMAIN r.observed \subseteq Files
     /\ r.observed \in [DOMAIN r.observed -> Contents]
     /\ r.verdict \in Verdicts
     /\ r.error # NONE => r.verdict = "ERROR"
     /\ r.error = NONE => r.verdict # "ERROR"
     /\ r.error # NONE \/ r.kind = "asserted" => KnownPhases(r)
     /\ r.kind = "asserted" => r.error = NONE
     /\ r.error = NONE /\ r.kind # "asserted" /\ KnownPhases(r) =>
          /\ r.verdict \in V
          /\ r.verdict = "FAIL" => r.exit # 0
          /\ r.verdict = "PASS" => V = {"PASS", "CONDITIONAL", "SKIP"}

\* The flags and exit code of a receipt that was written after a measurement.
LEMMA DecidedGenuine ==
  ASSUME NEW e, e.call \in Calls, Decided(e)
  PROVE  Genuine(e.receipt)
<1> DEFINE r == e.receipt
           k == e.call
<1>1. k.conditional \in BOOLEAN /\ k.skipped \in BOOLEAN
  BY DEF CallType
<1>2. k.from = "SCW" /\ k.to = "MetaReview" /\ k.kind # "asserted"
  BY DEF Decided, IsMeasurable
<1>3. PICK x \in Evidence :
        LET result == EvaluateTransition(k.from, k.to, x.exit = 0, k.conditional, k.skipped)
        IN /\ result.verdict \notin Raised
           /\ r = BuildGateReceipt(k, result, e.required, x, NONE)
  BY DEF Decided
<1> DEFINE green == x.exit = 0
           result == EvaluateTransition("SCW", "MetaReview", green, k.conditional, k.skipped)
<1>4. green \in BOOLEAN
  OBVIOUS
<1>5. result.verdict \notin Raised /\ r = BuildGateReceipt(k, result, e.required, x, NONE)
  BY <1>2, <1>3
<1> HIDE DEF green
<1>6. \A c, s \in BOOLEAN :
        EvaluateTransition("SCW", "MetaReview", green, c, s) =
           IF c /\ s THEN Result("SCW", "MetaReview", "ValueError", UNKNOWN)
           ELSE IF s THEN Result("SCW", "MetaReview", "SKIP", UNKNOWN)
           ELSE IF ~green THEN Result("SCW", "MetaReview", "FAIL", 5)
           ELSE IF c THEN Result("SCW", "MetaReview", "CONDITIONAL", UNKNOWN)
           ELSE Result("SCW", "MetaReview", "PASS", UNKNOWN)
  BY <1>4, MeasurableVerdict
<1>7. /\ result.from = "SCW" /\ result.to = "MetaReview"
      /\ result.verdict \in IF green THEN {"PASS", "CONDITIONAL", "SKIP"} ELSE {"FAIL", "SKIP"}
      /\ result.verdict = "PASS" => green
  BY <1>1, <1>5, <1>6 DEF Result, Raised
<1> HIDE DEF result
<1>8. /\ DOMAIN r = {"kind", "source", "from", "to", "verdict", "gate_version", "mandated",
                     "pinned", "matched", "observed", "exit", "error"}
      /\ r.kind = k.kind /\ r.from = "SCW" /\ r.to = "MetaReview" /\ r.verdict = result.verdict
      /\ r.observed = x.observed /\ r.exit = x.exit /\ r.error = NONE
  BY <1>5, <1>7 DEF BuildGateReceipt
<1> HIDE DEF r
<1>9. ConsistentVerdicts(r) = IF green THEN {"PASS", "CONDITIONAL", "SKIP"} ELSE {"FAIL", "SKIP"}
  <2> DEFINE says(c, s) == EvaluateTransition(r.from, r.to, r.exit = 0, c, s).verdict
  <2>1. ConsistentVerdicts(r) = {says(FALSE, FALSE), says(TRUE, FALSE), says(FALSE, TRUE)} \ Raised
    BY <1>2, <1>8, Tried
  <2>2. (r.exit = 0) = green
    BY <1>8 DEF green
  <2> DEFINE gives(c, s) == EvaluateTransition("SCW", "MetaReview", green, c, s).verdict
  <2>3. /\ says(FALSE, FALSE) = gives(FALSE, FALSE)
        /\ says(TRUE, FALSE) = gives(TRUE, FALSE)
        /\ says(FALSE, TRUE) = gives(FALSE, TRUE)
    BY <1>8, <2>2, Zenon
  <2>4. /\ gives(FALSE, TRUE) = "SKIP"
        /\ gives(FALSE, FALSE) = IF green THEN "PASS" ELSE "FAIL"
        /\ gives(TRUE, FALSE) = IF green THEN "CONDITIONAL" ELSE "FAIL"
    BY <1>4, MeasurableVerdicts
  <2> HIDE DEF says, gives
  <2> QED BY <2>1, <2>3, <2>4 DEF Raised
<1>10. x.observed \in [DOMAIN x.observed -> Contents] /\ DOMAIN x.observed \subseteq Files
  BY DEF Evidence
<1>11. r.exit = 0 <=> green
  BY <1>8 DEF green
<1>12. KnownPhases(r)
  BY <1>8 DEF KnownPhases, PhaseByName, UNKNOWN
<1> QED BY <1>2, <1>7, <1>8, <1>9, <1>10, <1>11, <1>12 DEF Genuine, Verdicts, r

\* The receipts of the other three manners of ending a call are genuine too.
LEMMA RefusedGenuine ==
  ASSUME NEW e, e.call \in Calls, Refused(e)
  PROVE  Genuine(e.receipt)
<1> DEFINE r == e.receipt
           k == e.call
<1>1. r = BuildGateReceipt(k, Result(k.from, k.to, "FAIL", UNKNOWN), <<>>, NoEvidence, NONE)
      /\ k.kind # "asserted"
  BY DEF Refused
<1>2. /\ DOMAIN r = {"kind", "source", "from", "to", "verdict", "gate_version", "mandated",
                     "pinned", "matched", "observed", "exit", "error"}
      /\ r.kind = k.kind /\ r.verdict = "FAIL"
      /\ r.observed = EmptyDict /\ r.exit = NONE /\ r.error = NONE
  BY <1>1 DEF BuildGateReceipt, Result, NoEvidence
<1> HIDE DEF r
<1>3. EmptyDict \in [{} -> Contents] /\ DOMAIN EmptyDict = {}
  BY DEF EmptyDict
<1>4. ASSUME KnownPhases(r) PROVE "FAIL" \in ConsistentVerdicts(r)
  <2> DEFINE says(c, s) == EvaluateTransition(r.from, r.to, r.exit = 0, c, s).verdict
  <2>1. ConsistentVerdicts(r) = {says(FALSE, FALSE), says(TRUE, FALSE), says(FALSE, TRUE)} \ Raised
    BY <1>1, <1>2, Tried
  <2>2. (r.exit = 0) = FALSE
    BY <1>2
  <2>3. EvaluateTransition(r.from, r.to, FALSE, FALSE, FALSE).verdict = "FAIL"
    BY <1>4, UnmetFails DEF KnownPhases
  <2>4. says(FALSE, FALSE) = "FAIL"
    BY <2>2, <2>3, Zenon
  <2> HIDE DEF says
  <2> QED BY <2>1, <2>4 DEF Raised
<1>5. r.exit # 0
  BY <1>2
<1> QED BY <1>1, <1>2, <1>3, <1>4, <1>5 DEF Genuine, Verdicts, r

LEMMA AssertedGenuine ==
  ASSUME NEW e, e.call \in Calls, Asserted(e)
  PROVE  Genuine(e.receipt)
<1> DEFINE r == e.receipt
           k == e.call
           result == EvaluateTransition(k.from, k.to, k.met, k.conditional, k.skipped)
<1>1. /\ k.kind = "asserted" /\ result.verdict \notin Raised
      /\ r = BuildGateReceipt(k, result, <<>>, NoEvidence, NONE)
  BY DEF Asserted
<1>2. k \in CallType
  OBVIOUS
<1>3. k.met \in BOOLEAN /\ k.conditional \in BOOLEAN /\ k.skipped \in BOOLEAN
  BY <1>2 DEF CallType
<1>4. result.verdict \in (Verdicts \ {"ERROR"}) \cup Raised
  BY <1>3, EvaluateVerdict
<1>5. PhaseByName(result.from) # UNKNOWN /\ PhaseByName(result.to) # UNKNOWN
  BY <1>1, KnownIfEvaluated
<1> HIDE DEF result
<1>6. /\ DOMAIN r = {"kind", "source", "from", "to", "verdict", "gate_version", "mandated",
                     "pinned", "matched", "observed", "exit", "error"}
      /\ r.kind = "asserted" /\ r.verdict = result.verdict
      /\ r.from = result.from /\ r.to = result.to
      /\ r.observed = EmptyDict /\ r.error = NONE
  BY <1>1 DEF BuildGateReceipt, NoEvidence
<1> HIDE DEF r
<1>7. EmptyDict \in [{} -> Contents] /\ DOMAIN EmptyDict = {}
  BY DEF EmptyDict
<1> QED BY <1>1, <1>4, <1>5, <1>6, <1>7 DEF Genuine, KnownPhases, r

LEMMA UnevaluatedGenuine ==
  ASSUME NEW e, e.call \in Calls, Unevaluated(e)
  PROVE  Genuine(e.receipt)
<1> DEFINE r == e.receipt
           k == e.call
<1>1. PICK error \in {"source", "measurement"} :
        r = BuildGateReceipt(k, Result(k.from, k.to, "ERROR", UNKNOWN), <<>>, NoEvidence, error)
  BY DEF Unevaluated
<1>2. k.kind # "asserted" /\ k.from = "SCW" /\ k.to = "MetaReview"
  BY DEF Unevaluated, IsMeasurable
<1>3. /\ DOMAIN r = {"kind", "source", "from", "to", "verdict", "gate_version", "mandated",
                     "pinned", "matched", "observed", "exit", "error"}
      /\ r.kind = k.kind /\ r.verdict = "ERROR" /\ r.from = "SCW" /\ r.to = "MetaReview"
      /\ r.observed = EmptyDict /\ r.error = error /\ error # NONE
  BY <1>1, <1>2 DEF BuildGateReceipt, Result, NoEvidence
<1> HIDE DEF r
<1>4. EmptyDict \in [{} -> Contents] /\ DOMAIN EmptyDict = {}
  BY DEF EmptyDict
<1>5. KnownPhases(r)
  BY <1>3 DEF KnownPhases, PhaseByName, UNKNOWN
<1> QED BY <1>2, <1>3, <1>4, <1>5 DEF Genuine, Verdicts, r

\* A receipt that a call left is genuine, whichever way the call ended.
LEMMA ReceiptsAreGenuine ==
  ASSUME NEW e, FromACall(e)
  PROVE  Genuine(e.receipt)
BY RefusedGenuine, AssertedGenuine, UnevaluatedGenuine, DecidedGenuine DEF FromACall

\* What _consistent_verdicts may answer about a measured receipt without an error.
LEMMA ExplainedVerdicts ==
  ASSUME NEW r, r.error = NONE, r.kind # "asserted"
  PROVE  LET V == ConsistentVerdicts(r)
             baseline == EvaluateTransition(r.from, r.to, r.exit = 0, FALSE, FALSE).verdict
         IN /\ V \subseteq Verdicts \ {"ERROR"}
            /\ r.exit # 0 => "PASS" \notin V
            /\ IF KnownPhases(r) THEN baseline \in V ELSE V = {}
<1> DEFINE green == r.exit = 0
           says(c, s) == EvaluateTransition(r.from, r.to, green, c, s).verdict
           V == ConsistentVerdicts(r)
<1>1. V = {says(FALSE, FALSE), says(TRUE, FALSE), says(FALSE, TRUE)} \ Raised
  BY Tried
<1>2. green \in BOOLEAN
  OBVIOUS
<1> HIDE DEF green
<1>3. \A c, s \in BOOLEAN :
        /\ says(c, s) \in (Verdicts \ {"ERROR"}) \cup Raised
        /\ says(c, s) = "PASS" => green
  BY <1>2, EvaluateVerdict
<1>4. \A c, s \in BOOLEAN : ~(c /\ s) => (says(c, s) \in Raised <=> ~KnownPhases(r))
  BY <1>2, RaisedIffUnknown DEF KnownPhases
<1> HIDE DEF V
<1>5. /\ says(FALSE, FALSE) \in (Verdicts \ {"ERROR"}) \cup Raised
      /\ says(TRUE, FALSE) \in (Verdicts \ {"ERROR"}) \cup Raised
      /\ says(FALSE, TRUE) \in (Verdicts \ {"ERROR"}) \cup Raised
      /\ says(FALSE, FALSE) = "PASS" => green
      /\ says(TRUE, FALSE) = "PASS" => green
      /\ says(FALSE, TRUE) = "PASS" => green
  <2> HIDE DEF says
  <2> QED BY <1>3, Zenon
<1>6. /\ says(FALSE, FALSE) \in Raised <=> ~KnownPhases(r)
      /\ says(TRUE, FALSE) \in Raised <=> ~KnownPhases(r)
      /\ says(FALSE, TRUE) \in Raised <=> ~KnownPhases(r)
  <2> HIDE DEF says
  <2> QED BY <1>4, Zenon
<1>7. /\ V \subseteq Verdicts \ {"ERROR"}
      /\ ~green => "PASS" \notin V
      /\ IF KnownPhases(r) THEN says(FALSE, FALSE) \in V ELSE V = {}
  <2> HIDE DEF says
  <2> QED BY <1>1, <1>5, <1>6
<1> QED BY <1>7 DEF green, V

\* What a fingerprint compares, as far as a replay can change it.
LEMMA KeyParts ==
  ASSUME NEW r, NEW t,
         DOMAIN r = {"kind", "source", "from", "to", "verdict", "gate_version", "mandated",
                     "pinned", "matched", "observed", "exit", "error"}
  PROVE  AuditKey(Rebuild(r, t)) = AuditKey(r) <=>
           RepresentativeVerdict(r) = r.verdict /\ ReObserved(r, t) = r.observed
<1> DEFINE s == Rebuild(r, t)
<1>1. /\ s.from = r.from /\ s.to = r.to /\ s.kind = r.kind /\ s.source = r.source
      /\ s.mandated = r.mandated /\ s.pinned = r.pinned /\ s.exit = r.exit /\ s.error = r.error
      /\ s.verdict = RepresentativeVerdict(r) /\ s.observed = ReObserved(r, t)
  BY DEF Rebuild
<1> HIDE DEF s
<1>2. AuditKey(s) = AuditKey(r) <=> s.verdict = r.verdict /\ s.observed = r.observed
  BY <1>1 DEF AuditKey
<1> QED BY <1>1, <1>2 DEF s

\* _recheck_shas finds nothing exactly if it re-observes what was recorded.
LEMMA ShasAgree ==
  ASSUME NEW r, NEW t,
         DOMAIN r.observed \subseteq Files, r.observed \in [DOMAIN r.observed -> Contents]
  PROVE  /\ ShaMismatches(r, t) = {} <=> \A f \in DOMAIN r.observed : t[f] = r.observed[f]
         /\ ShaMismatches(r, t) = {} <=> ReObserved(r, t) = r.observed
<1>1. \A f \in DOMAIN r.observed : r.observed[f] # ABSENT
  <2>1. ABSENT \notin Contents
    BY DEF Contents
  <2> QED BY <2>1
<1>2. ASSUME ShaMismatches(r, t) = {} PROVE \A f \in DOMAIN r.observed : t[f] = r.observed[f]
  <2>1. "missing_test_file" \notin ShaMismatches(r, t) /\ "sha256_drift" \notin ShaMismatches(r, t)
    BY <1>2
  <2> QED BY <2>1 DEF ShaMismatches
<1>3. ASSUME \A f \in DOMAIN r.observed : t[f] = r.observed[f] PROVE ShaMismatches(r, t) = {}
  BY <1>1, <1>3 DEF ShaMismatches
<1>4. ASSUME \A f \in DOMAIN r.observed : t[f] = r.observed[f] PROVE ReObserved(r, t) = r.observed
  <2>1. {f \in DOMAIN r.observed : t[f] # ABSENT} = DOMAIN r.observed
    BY <1>1, <1>4
  <2> QED BY <1>4, <2>1 DEF ReObserved
<1>5. ASSUME ReObserved(r, t) = r.observed
      PROVE  \A f \in DOMAIN r.observed : t[f] = r.observed[f]
  BY <1>5 DEF ReObserved
<1> QED BY <1>2, <1>3, <1>4, <1>5

\* Whether a genuine receipt replays against the checkout t, and what drift does to it.
LEMMA ReplayOfGenuine ==
  ASSUME NEW r, Genuine(r), NEW t
  PROVE  /\ VerifyReplay(r, t) = {} <=>
              KnownPhases(r) /\ \A f \in DOMAIN r.observed : t[f] = r.observed[f]
         /\ ShaMismatches(r, t) # {} => "audit_key_mismatch" \in VerifyReplay(r, t)
<1> DEFINE V == ConsistentVerdicts(r)
           unexplained == V # NONE /\ r.verdict \notin V
           diverges == AuditKey(Rebuild(r, t)) # AuditKey(r)
<1>1. VerifyReplay(r, t) = {} <=> ShaMismatches(r, t) = {} /\ ~unexplained /\ ~diverges
  BY DEF VerifyReplay
<1>2. diverges => "audit_key_mismatch" \in VerifyReplay(r, t)
  BY DEF VerifyReplay
<1>3. ShaMismatches(r, t) = {} <=> \A f \in DOMAIN r.observed : t[f] = r.observed[f]
  BY ShasAgree DEF Genuine
<1>4. ShaMismatches(r, t) = {} <=> ReObserved(r, t) = r.observed
  BY ShasAgree DEF Genuine
<1>5. ~diverges <=> RepresentativeVerdict(r) = r.verdict /\ ReObserved(r, t) = r.observed
  BY KeyParts DEF Genuine
<1>6. KnownPhases(r) => ~unexplained /\ RepresentativeVerdict(r) = r.verdict
  <2>1. CASE r.error # NONE
    BY <2>1 DEF Genuine, ConsistentVerdicts, RepresentativeVerdict
  <2>2. CASE r.error = NONE /\ r.kind = "asserted"
    BY <2>2 DEF ConsistentVerdicts, RepresentativeVerdict
  <2>3. CASE r.error = NONE /\ r.kind # "asserted"
    BY <2>3 DEF Genuine, RepresentativeVerdict
  <2> QED BY <2>1, <2>2, <2>3
<1>7. ~KnownPhases(r) => unexplained
  <2> SUFFICES ASSUME ~KnownPhases(r) PROVE unexplained
    OBVIOUS
  <2>1. r.error = NONE /\ r.kind # "asserted"
    BY DEF Genuine
  <2>2. V = {}
    BY <2>1, ExplainedVerdicts
  <2>3. {} # NONE
    BY NoneIsNoSet
  <2> QED BY <2>2, <2>3
<1> HIDE DEF unexplained, diverges
<1> QED BY <1>1, <1>2, <1>3, <1>4, <1>5, <1>6, <1>7

\* Both checks of the verdict notice that a genuine receipt now contradicts itself.
LEMMA ChangedGenuine ==
  ASSUME NEW r, Genuine(r), r.kind # "asserted", KnownPhases(r),
         NEW v \in Verdicts, Contradicts(r.verdict, v), NEW t
  PROVE  {"verdict_inconsistent", "audit_key_mismatch"}
           \subseteq VerifyReplay([r EXCEPT !.verdict = v], t)
<1> DEFINE s == [r EXCEPT !.verdict = v]
           V == ConsistentVerdicts(s)
<1>1. /\ DOMAIN s = DOMAIN r /\ s.verdict = v
      /\ s.from = r.from /\ s.to = r.to /\ s.exit = r.exit /\ s.kind = r.kind /\ s.error = r.error
  BY DEF Genuine
<1> HIDE DEF s
<1>2. V = ConsistentVerdicts(r) /\ KnownPhases(s)
  BY <1>1 DEF ConsistentVerdicts, KnownPhases
<1>3. V # NONE /\ v \notin V /\ RepresentativeVerdict(s) # v
  <2>1. CASE r.error # NONE
    <3>1. V = {"ERROR"} /\ RepresentativeVerdict(s) = "ERROR" /\ r.verdict = "ERROR"
      BY <1>1, <2>1 DEF Genuine, ConsistentVerdicts, RepresentativeVerdict
    <3>2. v # "ERROR"
      BY <3>1 DEF Contradicts
    <3>3. {"ERROR"} # NONE
      BY NoneIsNoSet DEF Verdicts
    <3> QED BY <3>1, <3>2, <3>3
  <2>2. CASE r.error = NONE
    <3> DEFINE baseline == EvaluateTransition(s.from, s.to, s.exit = 0, FALSE, FALSE).verdict
    <3>1. /\ V \subseteq Verdicts \ {"ERROR"} /\ baseline \in V
          /\ s.exit # 0 => "PASS" \notin V
      BY <1>1, <1>2, <2>2, ExplainedVerdicts
    <3>2. V # NONE
      BY <3>1, NoneIsNoSet
    <3>3. r.verdict \in V /\ (r.verdict = "FAIL" => r.exit # 0)
          /\ (r.verdict = "PASS" => V = {"PASS", "CONDITIONAL", "SKIP"})
      BY <1>2, <2>2 DEF Genuine
    <3>4. v \notin V
      BY <1>1, <3>1, <3>3 DEF Contradicts
    <3>5. RepresentativeVerdict(s) \in V \cup {"ERROR"} /\ (RepresentativeVerdict(s) = baseline)
      <4>1. baseline \notin Raised
        BY <3>1 DEF Verdicts, Raised
      <4> QED BY <1>1, <2>2, <3>1, <3>4, <4>1 DEF RepresentativeVerdict
    <3> QED BY <3>1, <3>2, <3>4, <3>5
  <2> QED BY <2>1, <2>2
<1>4. AuditKey(Rebuild(s, t)) # AuditKey(s)
  BY <1>1, <1>3, KeyParts DEF Genuine
<1> QED BY <1>1, <1>3, <1>4 DEF VerifyReplay, s

\* verify_replay accepts what the gate wrote as long as the hashed files have not changed,
\* and no longer: no genuine verdict is called inconsistent.
THEOREM ReplaysExactlyIfUnchanged == Spec => []ReplaysIffUnchanged
<1>1. IInv => ReplaysIffUnchanged
  <2> SUFFICES ASSUME IInv, NEW r \in Receipts
               PROVE  VerifyReplay(r, tree) = {} <=>
                        KnownPhases(r) /\ \A f \in DOMAIN r.observed : tree[f] = r.observed[f]
    BY DEF ReplaysIffUnchanged
  <2>1. Genuine(r)
    BY ReceiptsAreGenuine DEF IInv, Entries, Receipts
  <2> QED BY <2>1, ReplayOfGenuine
<1> QED BY <1>1, IInvHolds, PTL

\* A verdict turned from FAIL to PASS or back, or to or from ERROR, is always refused.
THEOREM ChangedVerdictsAreRefused == Spec => []ChangedVerdictRefused
<1>1. IInv => ChangedVerdictRefused
  <2> SUFFICES ASSUME IInv, NEW r \in Receipts, NEW v \in Verdicts,
                      r.kind # "asserted", KnownPhases(r), Contradicts(r.verdict, v)
               PROVE  {"verdict_inconsistent", "audit_key_mismatch"}
                        \subseteq VerifyReplay([r EXCEPT !.verdict = v], tree)
    BY DEF ChangedVerdictRefused
  <2>1. Genuine(r)
    BY ReceiptsAreGenuine DEF IInv, Entries, Receipts
  <2> QED BY <2>1, ChangedGenuine
<1> QED BY <1>1, IInvHolds, PTL

\* A drifted or missing file never leaves the recomputed audit_key as it was.
THEOREM DriftAlwaysChangesFingerprint == Spec => []DriftChangesFingerprint
<1>1. IInv => DriftChangesFingerprint
  <2> SUFFICES ASSUME IInv, NEW r \in Receipts, ShaMismatches(r, tree) # {}
               PROVE  "audit_key_mismatch" \in VerifyReplay(r, tree)
    BY DEF DriftChangesFingerprint
  <2>1. Genuine(r)
    BY ReceiptsAreGenuine DEF IInv, Entries, Receipts
  <2> QED BY <2>1, ReplayOfGenuine
<1> QED BY <1>1, IInvHolds, PTL
===============================================================================
