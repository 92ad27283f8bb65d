-------------------------------- MODULE Detect --------------------------------
(***************************************************************************)
(* detect.py: one detector that is asked, again and again, which phase a   *)
(* repository is in, and answers from two files that belong to somebody    *)
(* else.  Lines are added to apt-progress.md, and either file may appear,  *)
(* vanish or become unreadable, between any two looks of the detector.     *)
(*                                                                         *)
(* A phase is its position in CHAIN; a map of phases is the set of those   *)
(* that are TRUE.  Of a line only what the three regular expressions see   *)
(* in it is kept; of feature-spans.json, whether it yields a span.         *)
(***************************************************************************)
EXTENDS PhaseGate, FiniteSets

CONSTANTS
  Lines,      \* the lines apt-progress.md may contain
  NO_REPORT,  \* no call has returned, or one is under way
  NotADirectory   \* FileNotFoundError or NotADirectoryError was raised

NOBODY == 0   \* the subject of a line that does not begin with a phase name

Line == [subject : Positions \cup {NOBODY}, status : BOOLEAN,
         negation : {"none", "before status", "after status"}]

ASSUME DetectConstants == Lines \subseteq Line

VARIABLES
  text,       \* the lines of apt-progress.md
  disk,       \* is root a directory, and the condition of the two files in it
  pc,         \* what detect_phase does next
  has,        \* has_progress, has_spans: the files that is_file() found
  detected,   \* the phase map of this call
  sources,    \* the files this call has evidence from
  report,     \* the report of the last call
  before,     \* history: the phases marked in the text when the call began
  hidden,     \* history: the text was out of sight at some time since then
  furthest    \* history: the furthest phase reported so far

call_vars == <<pc, has, detected, sources, report, before, hidden, furthest>>
vars == <<text, disk, call_vars>>

\* The conditions the disk may be in.  Useless spans are unreadable, malformed,
\* or none.
Disk ==
  {d \in [root : BOOLEAN, progress : {"absent", "unreadable", "readable"},
           spans : {"absent", "useless", "listed"}] :
     ~d.root => d.progress = "absent" /\ d.spans = "absent"}

Notes == {"DETECTION", "NO_ARTIFACTS", "TOC", "GAP"}

PhaseReport == [current_phase : Positions \cup {UNKNOWN}, detected : SUBSET Positions,
                sources : SUBSET {"progress", "spans"},
                confidence : {"EXTRACTED", "AMBIGUOUS"}, note : Notes]

TypeOK ==
  /\ text \subseteq Lines
  /\ disk \in Disk
  /\ pc \in {"idle", "stat_spans", "read_progress", "read_spans"}
  /\ has \subseteq {"progress", "spans"}
  /\ detected \subseteq Positions
  /\ sources \subseteq has
  /\ report \in PhaseReport \cup {NotADirectory, NO_REPORT}
  /\ before \subseteq Positions
  /\ hidden \in BOOLEAN
  /\ furthest \in Positions \cup {UNKNOWN}

-------------------------------------------------------------------------------
\* From the text to the phase map, and from the map to the answer.

\* _detect_markers: the phases that are the subject of a line with a status
\* word which no negation precedes.
DetectMarkers(lines) ==
  {l.subject : l \in {m \in lines : m.status /\ m.negation # "before status"}} \ {NOBODY}

\* _current_phase
CurrentPhase(marks) ==
  IF marks = {} THEN UNKNOWN ELSE CHOOSE p \in marks : \A q \in marks : q <= p

FaultyLooksLikeTableOfContents(marks) ==   \* fault: any of the terminal phases
  marks \cap {5, 6} # {}

\* _looks_like_table_of_contents, with _TERMINAL_PHASES
LooksLikeTableOfContents(marks) == Positions \subseteq marks \/ {5, 6} \subseteq marks

\* _contiguous_prefix: its two loops.
FurthestContiguous(marks) ==
  CHOOSE n \in 0 .. Len(CHAIN) : 1 .. n \subseteq marks /\ n + 1 \notin marks

FaultyIsContiguous(marks) ==   \* fault: the phase after a gap may be the next one
  \A p \in marks : p = 1 \/ p - 1 \in marks \/ p - 2 \in marks

FaultyIsContiguousTerminal(marks) ==   \* fault: only terminal phases can be leaps
  \A p \in marks \cap {5, 6} : 1 .. p \subseteq marks

IsContiguous(marks) == ~ \E gap \in Positions \ marks, hit \in marks : gap < hit

FaultyReport(marks, from) ==   \* fault: a leap costs the confidence, not the phase
  [current_phase |-> IF LooksLikeTableOfContents(marks) THEN UNKNOWN ELSE CurrentPhase(marks),
   detected |-> marks, sources |-> from,
   confidence |-> IF IsContiguous(marks) THEN "EXTRACTED" ELSE "AMBIGUOUS",
   note |-> "DETECTION"]

\* The tail of detect_phase: answer and confidence, by what the map looks like.
Report(marks, from) ==
  LET says(phase, confidence, note) ==
        [current_phase |-> phase, detected |-> marks, sources |-> from,
         confidence |-> confidence, note |-> note]
  IN IF CurrentPhase(marks) = UNKNOWN THEN says(UNKNOWN, "AMBIGUOUS", "DETECTION")
     ELSE IF LooksLikeTableOfContents(marks) THEN says(UNKNOWN, "AMBIGUOUS", "TOC")
     ELSE IF ~IsContiguous(marks)
          THEN says(FurthestContiguous(marks), "AMBIGUOUS", "GAP")
     ELSE says(CurrentPhase(marks), "EXTRACTED", "DETECTION")

EmptyReport == [current_phase |-> UNKNOWN, detected |-> {}, sources |-> {},
                confidence |-> "AMBIGUOUS", note |-> "NO_ARTIFACTS"]

-------------------------------------------------------------------------------
\* The files.

IsFile(f) == disk[f] # "absent"
Legible == disk.progress = "readable"

\* Whoever works in the repository writes a line, ...
WriteLine ==
  /\ \E l \in Lines \ text : text' = text \cup {l}
  /\ UNCHANGED <<disk, call_vars>>

\* ... or changes what can be found there, other than the text.
DiskChanges ==
  /\ disk' \in Disk \ {disk}
  /\ hidden' = (hidden \/ ~Legible')
  /\ UNCHANGED <<text, pc, has, detected, sources, report, before, furthest>>

-------------------------------------------------------------------------------
\* detect_phase, one action for each look at the disk.

Init ==
  /\ text = {}
  /\ disk \in Disk
  /\ pc = "idle"
  /\ has = {}
  /\ detected = {}
  /\ sources = {}
  /\ report = NO_REPORT
  /\ before = {}
  /\ hidden = FALSE
  /\ furthest = UNKNOWN

\* _validate_repo_path raises: there is no such directory.
RejectPath ==
  /\ pc = "idle"
  /\ ~disk.root
  /\ report' = NotADirectory
  /\ UNCHANGED <<text, disk, pc, has, detected, sources, before, hidden, furthest>>

\* progress.is_file(), in a directory that was there
StatProgress ==
  /\ pc = "idle"
  /\ disk.root
  /\ has' = {f \in {"progress"} : IsFile(f)}
  /\ report' = NO_REPORT
  /\ before' = DetectMarkers(text)
  /\ hidden' = ~Legible
  /\ pc' = "stat_spans"
  /\ UNCHANGED <<text, disk, detected, sources, furthest>>

Answer(r) ==
  /\ report' = r
  /\ furthest' = IF r.current_phase > furthest THEN r.current_phase ELSE furthest
  /\ pc' = "idle"
  /\ has' = {}
  /\ detected' = {}
  /\ sources' = {}
  /\ UNCHANGED <<text, disk, before, hidden>>

\* spans_file.is_file(); with neither file the answer is _empty_report.
StatSpans ==
  /\ pc = "stat_spans"
  /\ has' = has \cup {f \in {"spans"} : IsFile(f)}
  /\ has' # {}
  /\ pc' = "read_progress"
  /\ UNCHANGED <<text, disk, detected, sources, report, before, hidden, furthest>>

NoArtifacts ==
  /\ pc = "stat_spans"
  /\ has = {}
  /\ ~IsFile("spans")
  /\ Answer(EmptyReport)

FaultyReadProgress ==   \* fault: the text is read without asking has_progress
  /\ pc = "read_progress"
  /\ detected' = IF Legible THEN DetectMarkers(text) ELSE {}
  /\ sources' = {f \in {"progress"} : Legible}
  /\ pc' = "read_spans"
  /\ UNCHANGED <<text, disk, has, report, before, hidden, furthest>>

\* progress.read_text(), if there was such a file; an OSError is no evidence.
ReadProgress ==
  /\ pc = "read_progress"
  /\ LET read == "progress" \in has /\ Legible
     IN /\ detected' = IF read THEN DetectMarkers(text) ELSE {}
        /\ sources' = {f \in {"progress"} : read}
  /\ pc' = "read_spans"
  /\ UNCHANGED <<text, disk, has, report, before, hidden, furthest>>

\* _read_spans_file, whatever goes wrong in it, and the rest of detect_phase.
ReadSpans ==
  /\ pc = "read_spans"
  /\ LET listed == "spans" \in has /\ disk.spans = "listed"
     IN Answer(Report(detected, sources \cup {f \in {"spans"} : listed}))

Detector == RejectPath \/ StatProgress \/ StatSpans \/ NoArtifacts \/ ReadProgress \/ ReadSpans
Next == Detector \/ WriteLine \/ DiskChanges
Spec == Init /\ [][Next]_vars

\* The detector is a program that is run again and again.
FairSpec == Spec /\ WF_vars(Detector)

-------------------------------------------------------------------------------
(***************************************************************************)
(* Properties.                                                             *)
(***************************************************************************)

Answered == report \notin {NotADirectory, NO_REPORT}

\* "The C(S) contiguity invariant", across the races of a call: a phase that is
\* named is not ahead of the text as it is now - every phase up to it is marked -
\* nor behind the text as it was when the call began.  And unknown is no way
\* out: it is said only if SA was not marked then, or both terminal phases are
\* marked by now, or the text was out of sight at some time in between.
NamesThePhase ==
  Answered =>
    LET p == report.current_phase
        marked == DetectMarkers(text)
    IN IF p = UNKNOWN
       THEN 1 \notin before \/ {5, 6} \subseteq marked \/ hidden
       ELSE 1 .. p \subseteq marked /\ p + 1 \notin before

\* Confidence EXTRACTED is for a coherent run of markers only: the phases marked
\* when the call began are among those up to the phase it names, and the text is
\* not that of a project with nothing left to do.
ConfidentMeansLinear ==
  Answered /\ report.confidence = "EXTRACTED" =>
    /\ report.current_phase \in 1 .. 5
    /\ before \subseteq 1 .. report.current_phase
    /\ "progress" \in report.sources

\* Lines are only added, so a later call never names an earlier phase, whatever
\* leaps and gaps the text goes through and whatever is out of sight meanwhile.
ReportsNeverGoBack ==
  [][Answered' /\ report'.current_phase # UNKNOWN =>
       report'.current_phase >= furthest]_vars

\* Once the text stays in sight (and there are finitely many lines to write),
\* the answers settle: the furthest phase without a gap, unless the project
\* looks finished.
AnswersSettle ==
  <>[]Legible =>
    <>[](Answered =>
           report.current_phase =
             (IF {5, 6} \subseteq DetectMarkers(text) THEN UNKNOWN
              ELSE Cardinality({p \in Positions : 1 .. p \subseteq DetectMarkers(text)})))
===============================================================================
