----------------------------- MODULE DetectProofs -----------------------------
(***************************************************************************)
(* Theorems of Detect: what an answer of detect_phase may be relied on     *)
(* for, whichever lines are written and however the files come and go      *)
(* between the looks of a call.                                            *)
(***************************************************************************)
EXTENDS Detect, TLAPS

Marked == DetectMarkers(text)

\* What a call under way holds.
Call ==
  /\ pc # "idle" =>
       /\ report = NO_REPORT
       /\ 1 .. furthest \subseteq before
       /\ hidden \/ (Legible /\ "progress" \in has)
  /\ pc = "read_spans" =>
       /\ detected \subseteq Marked
       /\ hidden \/ before \subseteq detected
       /\ detected = {} \/ (before \subseteq detected /\ "progress" \in sources)
  /\ pc # "read_spans" => detected = {} /\ sources = {}

\* The text never loses what was seen in it, and the last answer is the furthest.
Past ==
  /\ before \subseteq Marked
  /\ 1 .. furthest \subseteq Marked
  /\ Answered => report.current_phase \in {UNKNOWN, furthest}

IInv == TypeOK /\ Call /\ Past /\ NamesThePhase /\ ConfidentMeansLinear
-------------------------------------------------------------------------------
\* The chain has six phases.
LEMMA SixPhases == Positions = 1 .. 6 /\ Len(CHAIN) = 6
BY DEF Positions, CHAIN

\* Only phases are marked, and a further line marks no fewer.
LEMMA MarkersType ==
  ASSUME NEW lines, lines \subseteq Lines
  PROVE  DetectMarkers(lines) \subseteq Positions
<1>1. \A l \in Line : l.subject \in Positions \cup {NOBODY}
  BY DEF Line
<1> QED BY <1>1, DetectConstants DEF DetectMarkers

LEMMA MarkersGrow ==
  ASSUME NEW lines, NEW more, lines \subseteq more
  PROVE  DetectMarkers(lines) \subseteq DetectMarkers(more)
BY DEF DetectMarkers

\* _contiguous_prefix finds a phase.
LEMMA ContiguousPrefix ==
  ASSUME NEW marks, marks \subseteq Positions
  PROVE  LET n == FurthestContiguous(marks)
         IN n \in 0 .. 6 /\ 1 .. n \subseteq marks /\ n + 1 \notin marks
<1> DEFINE last(n) == 1 .. n \subseteq marks /\ n + 1 \notin marks
<1>1. \E n \in 0 .. 6 : last(n)
  <2>1. CASE 1 \notin marks
    <3>1. last(0) BY <2>1
    <3> QED BY <3>1
  <2>2. CASE 1 \in marks /\ 2 \notin marks
    <3>1. last(1) BY <2>2
    <3> QED BY <3>1
  <2>3. CASE 1 \in marks /\ 2 \in marks /\ 3 \notin marks
    <3>1. last(2) BY <2>3
    <3> QED BY <3>1
  <2>4. CASE 1 \in marks /\ 2 \in marks /\ 3 \in marks /\ 4 \notin marks
    <3>1. last(3) BY <2>4
    <3> QED BY <3>1
  <2>5. CASE 1 \in marks /\ 2 \in marks /\ 3 \in marks /\ 4 \in marks /\ 5 \notin marks
    <3>1. last(4) BY <2>5
    <3> QED BY <3>1
  <2>6. CASE /\ 1 \in marks /\ 2 \in marks /\ 3 \in marks /\ 4 \in marks /\ 5 \in marks
             /\ 6 \notin marks
    <3>1. last(5) BY <2>6
    <3> QED BY <3>1
  <2>7. CASE /\ 1 \in marks /\ 2 \in marks /\ 3 \in marks /\ 4 \in marks /\ 5 \in marks
             /\ 6 \in marks
    <3>1. last(6) BY <2>7, SixPhases
    <3> QED BY <3>1
  <2> QED BY <2>1, <2>2, <2>3, <2>4, <2>5, <2>6, <2>7
<1>2. FurthestContiguous(marks) = CHOOSE n \in 0 .. 6 : last(n)
  BY SixPhases DEF FurthestContiguous
<1> QED BY <1>1, <1>2

\* _current_phase is the furthest phase that is marked.
LEMMA CurrentIsFurthest ==
  ASSUME NEW marks, marks \subseteq Positions, marks # {}
  PROVE  CurrentPhase(marks) \in marks /\ \A q \in marks : q <= CurrentPhase(marks)
<1> DEFINE top(p) == \A q \in marks : q <= p
<1>1. marks \subseteq 1 .. 6
  BY SixPhases
<1>2. \E p \in marks : top(p)
  <2>1. CASE 6 \in marks BY <1>1, <2>1
  <2>2. CASE 5 \in marks /\ 6 \notin marks BY <1>1, <2>2
  <2>3. CASE 4 \in marks /\ 5 \notin marks /\ 6 \notin marks BY <1>1, <2>3
  <2>4. CASE 3 \in marks /\ 4 \notin marks /\ 5 \notin marks /\ 6 \notin marks BY <1>1, <2>4
  <2>5. CASE marks \subseteq {1, 2}
    <3>1. CASE 2 \in marks BY <2>5, <3>1
    <3>2. CASE 2 \notin marks
      <4>1. marks = {1} BY <2>5, <3>2
      <4>2. top(1) BY <4>1
      <4> QED BY <4>1, <4>2
    <3> QED BY <3>1, <3>2
  <2>6. CASE 3 \notin marks /\ 4 \notin marks /\ 5 \notin marks /\ 6 \notin marks
    BY <1>1, <2>5, <2>6
  <2> QED BY <2>1, <2>2, <2>3, <2>4, <2>6
<1>3. CurrentPhase(marks) = CHOOSE p \in marks : top(p)
  BY DEF CurrentPhase
<1> QED BY <1>2, <1>3

\* What the answer says about the phases that were found marked.
LEMMA ReportSays ==
  ASSUME NEW marks, marks \subseteq Positions,
         NEW from, from \subseteq {"progress", "spans"}
  PROVE  LET r == Report(marks, from)
             p == r.current_phase
         IN /\ r \in PhaseReport
            /\ r.sources = from
            /\ p = UNKNOWN => 1 \notin marks \/ {5, 6} \subseteq marks
            /\ p # UNKNOWN => 1 .. p \subseteq marks /\ p + 1 \notin marks
            /\ r.confidence = "EXTRACTED" => p \in 1 .. 5 /\ marks = 1 .. p
<1> DEFINE r == Report(marks, from)
           p == r.current_phase
           says(phase, confidence, note) ==
             [current_phase |-> phase, detected |-> marks, sources |-> from,
              confidence |-> confidence, note |-> note]
<1>1. UNKNOWN = 0 /\ marks \subseteq 1 .. 6
  BY SixPhases DEF UNKNOWN
<1>2. marks # {} => CurrentPhase(marks) # UNKNOWN
  <2>1. marks # {} => CurrentPhase(marks) \in 1 .. 6
    BY <1>1, CurrentIsFurthest
  <2>2. UNKNOWN \notin 1 .. 6
    BY DEF UNKNOWN
  <2> QED BY <2>1, <2>2
<1>3. CASE marks = {}
  <2>1. r = says(UNKNOWN, "AMBIGUOUS", "DETECTION")
    BY <1>3 DEF Report, CurrentPhase
  <2> HIDE DEF r
  <2>2. /\ r.current_phase = UNKNOWN /\ r.sources = from
        /\ r.confidence = "AMBIGUOUS" /\ 1 \notin marks
    BY <1>3, <2>1
  <2>3. r \in PhaseReport
    BY <2>1 DEF PhaseReport, Notes
  <2>4. /\ r.current_phase = UNKNOWN => 1 \notin marks \/ {5, 6} \subseteq marks
        /\ r.confidence # "EXTRACTED"
    BY <2>2
  <2> QED BY <2>2, <2>3, <2>4 DEF r
<1>4. CASE marks # {} /\ LooksLikeTableOfContents(marks)
  <2>1. CurrentPhase(marks) # UNKNOWN
    BY <1>4, <1>2
  <2>2. r = says(UNKNOWN, "AMBIGUOUS", "TOC")
    BY <1>4, <2>1 DEF Report
  <2>3. {5, 6} \subseteq marks
    BY <1>4, SixPhases DEF LooksLikeTableOfContents
  <2> QED BY <2>2, <2>3 DEF PhaseReport, Notes
<1>5. CASE marks # {} /\ ~LooksLikeTableOfContents(marks) /\ ~IsContiguous(marks)
  <2> DEFINE n == FurthestContiguous(marks)
  <2>1. CurrentPhase(marks) # UNKNOWN
    BY <1>5, <1>2
  <2>2. r = says(n, "AMBIGUOUS", "GAP")
    BY <1>5, <2>1 DEF Report
  <2>3. n \in 0 .. 6 /\ 1 .. n \subseteq marks /\ n + 1 \notin marks
    BY ContiguousPrefix
  <2> HIDE DEF n, r
  <2>4. r.current_phase = n /\ r.detected = marks /\ r.sources = from /\ r.confidence = "AMBIGUOUS"
    BY <2>2
  <2>5. n \in Positions \cup {UNKNOWN}
    BY <1>1, <2>3, SixPhases
  <2>6. r \in PhaseReport
    BY <2>2, <2>5 DEF PhaseReport, Notes
  <2>7. n = 0 => 1 \notin marks
    BY <2>3
  <2> QED BY <1>1, <2>3, <2>4, <2>6, <2>7 DEF r
<1>6. CASE marks # {} /\ ~LooksLikeTableOfContents(marks) /\ IsContiguous(marks)
  <2> DEFINE n == CurrentPhase(marks)
  <2>1. n \in marks /\ \A q \in marks : q <= n
    BY <1>6, CurrentIsFurthest
  <2>2. n # UNKNOWN
    BY <1>1, <2>1
  <2>3. r = says(n, "EXTRACTED", "DETECTION")
    BY <1>6, <2>2 DEF Report
  <2> HIDE DEF n, r
  <2>4. n \in 1 .. 6
    BY <1>1, <2>1
  <2>5. \A gap \in 1 .. 6 : gap < n => gap \in marks
    BY <1>6, <2>1, SixPhases DEF IsContiguous
  <2>6. 1 .. n \subseteq marks
    BY <2>1, <2>4, <2>5
  <2>7. n # 6
    BY <1>6, <2>6, SixPhases DEF LooksLikeTableOfContents
  <2>8. marks = 1 .. n
    <3>1. \A q \in 1 .. 6 : q <= n => q \in 1 .. n
      BY <2>4
    <3>2. marks \subseteq 1 .. n
      BY <1>1, <2>1, <3>1
    <3> QED BY <2>6, <3>2
  <2>9. n + 1 \notin marks
    BY <2>4, <2>8
  <2>10. r \in PhaseReport
    BY <2>3, <2>4, SixPhases DEF PhaseReport, Notes
  <2>11. r.current_phase = n /\ r.sources = from
    BY <2>3
  <2> QED BY <2>2, <2>4, <2>7, <2>8, <2>9, <2>10, <2>11 DEF r
<1> QED BY <1>3, <1>4, <1>5, <1>6
-------------------------------------------------------------------------------
\* The first call finds nothing wrong.
LEMMA InitHolds == Init => IInv
<1> SUFFICES ASSUME Init PROVE IInv
  OBVIOUS
<1>1. TypeOK
  BY DEF Init, TypeOK
<1>2. 1 .. furthest = {}
  BY DEF Init, UNKNOWN
<1>3. ~Answered
  BY DEF Init, Answered
<1> QED BY <1>1, <1>2, <1>3 DEF Init, IInv, Call, Past, NamesThePhase, ConfidentMeansLinear

\* Nothing that was marked is unmarked, nothing that was answered is taken back.
LEMMA WriteLineKeeps ==
  ASSUME IInv, WriteLine
  PROVE  IInv'
<1>1. text' \subseteq Lines /\ text \subseteq text'
  BY DEF IInv, TypeOK, WriteLine
<1>2. Marked \subseteq Marked'
  BY <1>1, MarkersGrow DEF Marked
<1>3. TypeOK'
  BY <1>1 DEF IInv, TypeOK, WriteLine, call_vars
<1>4. Call'
  BY <1>2 DEF IInv, Call, WriteLine, call_vars, Legible
<1>5. Past'
  BY <1>2 DEF IInv, Past, Answered, WriteLine, call_vars
<1>6. NamesThePhase'
  BY <1>2 DEF IInv, NamesThePhase, Answered, Marked, WriteLine, call_vars
<1>7. ConfidentMeansLinear'
  BY DEF IInv, ConfidentMeansLinear, Answered, WriteLine, call_vars
<1> QED BY <1>3, <1>4, <1>5, <1>6, <1>7 DEF IInv

\* What is out of sight stays where it is, and is remembered as having been out of sight.
LEMMA DiskChangesKeeps ==
  ASSUME IInv, DiskChanges
  PROVE  IInv'
<1>1. TypeOK'
  BY DEF IInv, TypeOK, DiskChanges
<1>2. Call'
  BY DEF IInv, Call, DiskChanges, Marked, Legible
<1>3. Past'
  BY DEF IInv, Past, Answered, DiskChanges, Marked
<1>4. NamesThePhase'
  BY DEF IInv, NamesThePhase, Answered, DiskChanges
<1>5. ConfidentMeansLinear'
  BY DEF IInv, ConfidentMeansLinear, Answered, DiskChanges
<1> QED BY <1>1, <1>2, <1>3, <1>4, <1>5 DEF IInv

\* One lemma for each look of the detector.
LEMMA RejectPathKeeps ==
  ASSUME IInv, RejectPath
  PROVE  IInv'
<1>1. ~Answered'
  BY DEF RejectPath, Answered
<1>2. TypeOK'
  BY DEF IInv, TypeOK, RejectPath
<1>3. Call'
  BY DEF IInv, Call, RejectPath
<1>4. Past'
  BY <1>1 DEF IInv, Past, RejectPath, Marked
<1> QED BY <1>1, <1>2, <1>3, <1>4 DEF IInv, NamesThePhase, ConfidentMeansLinear

LEMMA StatProgressKeeps ==
  ASSUME IInv, StatProgress
  PROVE  IInv'
<1>1. ~Answered'
  BY DEF StatProgress, Answered
<1>2. before' = Marked /\ Marked' = Marked /\ Marked \subseteq Positions
  BY MarkersType DEF IInv, TypeOK, StatProgress, Marked
<1>3. TypeOK'
  BY <1>2 DEF IInv, TypeOK, Call, StatProgress
<1>4. Legible => "progress" \in has'
  BY DEF StatProgress, Legible, IsFile
<1>5. Call'
  BY <1>2, <1>4 DEF IInv, Call, Past, StatProgress, Legible
<1>6. Past'
  BY <1>1, <1>2 DEF IInv, Past, StatProgress
<1> QED BY <1>1, <1>3, <1>5, <1>6 DEF IInv, NamesThePhase, ConfidentMeansLinear

LEMMA StatSpansKeeps ==
  ASSUME IInv, StatSpans
  PROVE  IInv'
<1>1. ~Answered'
  BY DEF IInv, Call, StatSpans, Answered
<1>2. TypeOK'
  BY DEF IInv, TypeOK, StatSpans
<1>3. Call'
  BY DEF IInv, Call, StatSpans, Legible, Marked
<1>4. Past'
  BY <1>1 DEF IInv, Past, StatSpans, Marked
<1> QED BY <1>1, <1>2, <1>3, <1>4 DEF IInv, NamesThePhase, ConfidentMeansLinear

LEMMA ReadProgressKeeps ==
  ASSUME IInv, ReadProgress
  PROVE  IInv'
<1> DEFINE read == "progress" \in has /\ Legible
<1>1. ~Answered'
  BY DEF IInv, Call, ReadProgress, Answered
<1>2. /\ detected' = IF read THEN Marked ELSE {}
      /\ sources' = {f \in {"progress"} : read}
      /\ Marked' = Marked /\ Marked \subseteq Positions
  BY MarkersType DEF IInv, TypeOK, ReadProgress, Marked
<1>3. TypeOK'
  BY <1>2 DEF IInv, TypeOK, ReadProgress
<1>4. Call'
  BY <1>2 DEF IInv, Call, Past, ReadProgress, Legible
<1>5. Past'
  BY <1>1, <1>2 DEF IInv, Past, ReadProgress
<1> QED BY <1>1, <1>3, <1>4, <1>5 DEF IInv, NamesThePhase, ConfidentMeansLinear

\* An answer that bears out the marks of its call leaves the invariant in place, and
\* names no earlier phase.
LEMMA AnswerKeeps ==
  ASSUME IInv, pc # "idle", NEW r \in PhaseReport, Answer(r),
         r.current_phase = UNKNOWN =>
           1 \notin before \/ {5, 6} \subseteq Marked \/ hidden,
         r.current_phase # UNKNOWN =>
           1 .. r.current_phase \subseteq Marked /\ r.current_phase + 1 \notin before,
         r.confidence = "EXTRACTED" =>
           /\ r.current_phase \in 1 .. 5
           /\ before \subseteq 1 .. r.current_phase
           /\ "progress" \in r.sources
  PROVE  /\ IInv'
         /\ r.current_phase # UNKNOWN => r.current_phase >= furthest
<1> DEFINE p == r.current_phase
<1>0. UNKNOWN = 0 /\ Positions = 1 .. 6
  BY SixPhases DEF UNKNOWN
<1>1. p \in 0 .. 6 /\ furthest \in 0 .. 6
  BY <1>0 DEF IInv, TypeOK, PhaseReport
<1>2. 1 .. furthest \subseteq before
  BY DEF IInv, Call
<1> HIDE DEF p
<1>3. ASSUME p # UNKNOWN PROVE p >= furthest
  <2>1. p + 1 \notin 1 .. furthest
    BY <1>2, <1>3 DEF p
  <2> QED BY <1>1, <2>1
<1>4. /\ p # UNKNOWN => furthest' = p
      /\ p = UNKNOWN => furthest' = furthest
  <2>1. furthest' = IF p > furthest THEN p ELSE furthest
    BY DEF Answer, p
  <2> QED BY <1>0, <1>1, <1>3, <2>1
<1>5. Marked' = Marked /\ report' = r /\ pc' = "idle" /\ before' = before /\ hidden' = hidden
  BY DEF Answer, Marked
<1>6. TypeOK'
  <2>1. furthest' \in Positions \cup {UNKNOWN}
    BY <1>0, <1>1, <1>4
  <2> QED BY <2>1, <1>5 DEF IInv, TypeOK, Answer
<1>7. Call'
  BY <1>5 DEF Call, Answer
<1>8. Past'
  <2>1. 1 .. furthest' \subseteq Marked
    BY <1>4 DEF IInv, Past, p
  <2>2. p \in {UNKNOWN, furthest'}
    BY <1>4
  <2> QED BY <1>5, <2>1, <2>2 DEF IInv, Past, p
<1>9. NamesThePhase'
  BY <1>5 DEF NamesThePhase, Marked
<1>10. ConfidentMeansLinear'
  BY <1>5 DEF ConfidentMeansLinear
<1> QED BY <1>3, <1>6, <1>7, <1>8, <1>9, <1>10 DEF IInv, p

\* Without a file the answer is unknown, and the text was not in sight all the time.
LEMMA NoArtifactsKeeps ==
  ASSUME IInv, NoArtifacts
  PROVE  IInv' /\ report'.current_phase = UNKNOWN
<1>1. hidden
  BY DEF IInv, Call, NoArtifacts
<1>2. EmptyReport \in PhaseReport /\ EmptyReport.current_phase = UNKNOWN
      /\ EmptyReport.confidence = "AMBIGUOUS"
  BY DEF EmptyReport, PhaseReport, Notes
<1>3. report' = EmptyReport
  BY DEF NoArtifacts, Answer
<1> HIDE DEF EmptyReport
<1> QED BY <1>1, <1>2, <1>3, AnswerKeeps DEF NoArtifacts

\* The answer rests on what was read of the text, which is no less than was marked before.
LEMMA ReadSpansKeeps ==
  ASSUME IInv, ReadSpans
  PROVE  /\ IInv'
         /\ report'.current_phase # UNKNOWN => report'.current_phase >= furthest
<1> DEFINE listed == "spans" \in has /\ disk.spans = "listed"
           from == sources \cup {f \in {"spans"} : listed}
           r == Report(detected, from)
<1>1. Answer(r) /\ pc = "read_spans" /\ report' = r
  BY DEF ReadSpans, Answer
<1>2. detected \subseteq Positions /\ from \subseteq {"progress", "spans"}
  BY DEF IInv, TypeOK
<1>3. /\ detected \subseteq Marked
      /\ hidden \/ before \subseteq detected
      /\ detected = {} \/ (before \subseteq detected /\ "progress" \in from)
  BY <1>1 DEF IInv, Call
<1> HIDE DEF from, r
<1>4. /\ r \in PhaseReport
      /\ r.sources = from
      /\ r.current_phase = UNKNOWN => 1 \notin detected \/ {5, 6} \subseteq detected
      /\ r.current_phase # UNKNOWN =>
           1 .. r.current_phase \subseteq detected /\ r.current_phase + 1 \notin detected
      /\ r.confidence = "EXTRACTED" =>
           r.current_phase \in 1 .. 5 /\ detected = 1 .. r.current_phase
  BY <1>2, ReportSays DEF r
<1>5. r.current_phase = UNKNOWN => 1 \notin before \/ {5, 6} \subseteq Marked \/ hidden
  BY <1>3, <1>4
<1>6. r.current_phase # UNKNOWN => 1 \in detected
  <2>1. r.current_phase \in Positions \cup {UNKNOWN}
    BY <1>4 DEF PhaseReport
  <2> QED BY <1>4, <2>1, SixPhases DEF UNKNOWN
<1>7. r.current_phase # UNKNOWN =>
        1 .. r.current_phase \subseteq Marked /\ r.current_phase + 1 \notin before
  BY <1>3, <1>4, <1>6
<1>8. r.confidence = "EXTRACTED" =>
        /\ r.current_phase \in 1 .. 5
        /\ before \subseteq 1 .. r.current_phase
        /\ "progress" \in r.sources
  <2>1. r.confidence = "EXTRACTED" => detected # {}
    BY <1>4
  <2> QED BY <1>3, <1>4, <2>1
<1> QED BY <1>1, <1>4, <1>5, <1>7, <1>8, AnswerKeeps

\* Every step keeps the invariant.
LEMMA NextKeeps == IInv /\ [Next]_vars => IInv'
<1> SUFFICES ASSUME IInv, [Next]_vars PROVE IInv'
  OBVIOUS
<1>1. CASE UNCHANGED vars
  BY <1>1 DEF vars, call_vars, IInv, TypeOK, Call, Past, NamesThePhase, ConfidentMeansLinear,
              Answered, Marked, Legible
<1> QED BY <1>1, RejectPathKeeps, StatProgressKeeps, StatSpansKeeps, NoArtifactsKeeps,
           ReadProgressKeeps, ReadSpansKeeps, WriteLineKeeps, DiskChangesKeeps
        DEF Next, Detector

\* The invariant holds throughout.
THEOREM IInvHolds == Spec => []IInv
BY InitHolds, NextKeeps, PTL DEF Spec

\* Every answer is a phase or unknown, with sources that were there.
THEOREM TypeCorrect == Spec => []TypeOK
<1>1. IInv => TypeOK
  BY DEF IInv
<1> QED BY <1>1, IInvHolds, PTL

\* A named phase has every phase up to it marked by now, and the one after it was not
\* marked when the call began; unknown is said only for the reasons NamesThePhase lists.
THEOREM PhasesAreNamed == Spec => []NamesThePhase
<1>1. IInv => NamesThePhase
  BY DEF IInv
<1> QED BY <1>1, IInvHolds, PTL

\* Only a coherent run of markers is reported with confidence.
THEOREM ConfidenceIsLinear == Spec => []ConfidentMeansLinear
<1>1. IInv => ConfidentMeansLinear
  BY DEF IInv
<1> QED BY <1>1, IInvHolds, PTL

\* No answer names an earlier phase than an answer before it did.
THEOREM AnswersNeverGoBack == Spec => ReportsNeverGoBack
<1> DEFINE Forward ==
      Answered' /\ report'.current_phase # UNKNOWN => report'.current_phase >= furthest
<1>1. IInv /\ [Next]_vars => [Forward]_vars
  <2> SUFFICES ASSUME IInv, Next PROVE Forward
    OBVIOUS
  <2>1. CASE UNCHANGED <<report, furthest>>
    <3>1. Answered' = Answered /\ report' = report
      BY <2>1 DEF Answered
    <3>2. furthest \in 0 .. 6
      BY SixPhases DEF IInv, TypeOK, UNKNOWN
    <3> QED BY <3>1, <3>2 DEF IInv, Past
  <2>2. CASE RejectPath \/ StatProgress
    BY <2>2 DEF RejectPath, StatProgress, Answered
  <2>3. CASE NoArtifacts
    BY <2>3, NoArtifactsKeeps
  <2>4. CASE ReadSpans
    BY <2>4, ReadSpansKeeps
  <2>5. CASE StatSpans \/ ReadProgress \/ WriteLine \/ DiskChanges
    BY <2>1, <2>5 DEF StatSpans, ReadProgress, WriteLine, DiskChanges, call_vars
  <2> QED BY <2>2, <2>3, <2>4, <2>5 DEF Next, Detector
<1> QED BY <1>1, IInvHolds, PTL DEF Spec, ReportsNeverGoBack
===============================================================================
