------------------------------ MODULE GateSession ------------------------------
(***************************************************************************)
(* cli.py (and the gate tools of frontends/mcp_server.py): the processes   *)
(* around the gate.  `apt-engine gate`, again and again, evaluates a call, *)
(* prints its verdict, writes its receipt to the one file that             *)
(* --receipt-out names, and exits; it may be killed at any point, and the  *)
(* disk may fail it.  `apt-engine verify` runs beside it: it reads that    *)
(* file, or a copy of it in which a field was lost or mistyped, and then   *)
(* one test file after the other, while the tree is being edited.          *)
(*                                                                         *)
(* The evaluation is MeasuredGate's, step by step; what a verification     *)
(* concludes is Replay's.                                                  *)
(***************************************************************************)
EXTENDS Replay

CONSTANTS
  Defects,   \* <<field, type>>: what a copy of the receipt may suffer
  TORN       \* a file cut short: empty, or no JSON to the end

\* GateReceipt: the JSON types its fields have as to_json writes them, as far as
\* the verifier looks at them.
WrittenTypes ==
  [schema_version |-> {"str"}, from_phase |-> {"str"}, to_phase |-> {"str"},
   verdict |-> {"str"}, gate_kind |-> {"str"}, target |-> {"str", "null"},
   mandated_node_ids |-> {"list"}, matched_node_ids |-> {"list"},
   sha256_pinned |-> {"dict"}, sha256_observed |-> {"dict"},
   pytest_exit_code |-> {"int", "null"}, error |-> {"str", "null"}]

\* A field that is lost ("absent") or mistyped does not have a type it is written
\* with; a schema_version may also be that of another version, of which nothing
\* more is said.
ASSUME SessionConstants ==
  /\ NONE \notin DOMAIN WrittenTypes \cup {"crash"}
  /\ Defects \subseteq STRING \X STRING
  /\ \A d \in Defects :
       d[1] \in DOMAIN WrittenTypes \ {"schema_version"} => d[2] \notin WrittenTypes[d[1]]

VARIABLES
  stage,     \* where the gate process is; "idle" when there is none
  way,       \* how it was called: "receipt" with --receipt-out, "plain", or "mcp"
  printed,   \* the verdict it has printed (or answered), or NONE
  exit,      \* exit code of the last gate process, NONE while there is none
  file,      \* the receipt file: ABSENT, TORN or a receipt
  doc,       \* the document being verified, or NONE
  looked,    \* test files re-hashed for it so far, with what they contained
  begun,     \* history: edits when that document was read
  conclusion \* of the last verification: verified, refused, or how it broke off

verify_vars == <<doc, looked, begun, conclusion>>
process_vars == <<stage, way, printed, exit>>
session_vars == <<process_vars, file, verify_vars>>
all_vars == <<vars, session_vars>>

Last == log[Len(log)].receipt

InitSession ==
  /\ Init
  /\ stage = "idle"
  /\ way = "plain"
  /\ printed = NONE
  /\ exit = NONE
  /\ file = ABSENT
  /\ doc = NONE
  /\ looked = EmptyDict
  /\ begun = 0
  /\ conclusion = NONE

-------------------------------------------------------------------------------
\* The gate process.

\* The process ends.
Ends(code_) ==
  /\ stage' = "idle"
  /\ exit' = code_

FaultySettle(w) ==   \* fault: an exception of the gate is swallowed and nothing ends
  IF pc' # "idle" \/ log' = log THEN stage' = "evaluating" /\ exit' = NONE
  ELSE stage' = "evaluated" /\ exit' = NONE

\* After a step of the evaluation: still at it, done, or left by an exception,
\* which ends a command with exit code 1 and a tool call with an error.
Settle(w) ==
  IF pc' # "idle" THEN stage' = "evaluating" /\ exit' = NONE
  ELSE IF log' # log THEN stage' = "evaluated" /\ exit' = NONE
  ELSE Ends(IF w = "mcp" THEN NONE ELSE 1)

Called(w) ==
  /\ stage = "idle"
  /\ Ready
  /\ way' = w
  /\ printed' = NONE
  /\ UNCHANGED <<file, verify_vars>>

\* --conditional and --skip exclude each other for the argument parser only.
UsageError(k, w) ==
  /\ Called(w)
  /\ w # "mcp" /\ k.conditional /\ k.skipped
  /\ Ends(2)
  /\ UNCHANGED vars

Launch(k, w) ==
  /\ Called(w)
  /\ w = "mcp" \/ ~(k.conditional /\ k.skipped)
  /\ RefuseUnmeasurable(k) \/ EvaluateAsserted(k) \/ BeginMeasured(k)
  /\ Settle(w)

\* evaluate_transition of an asserted call raises (a phase it does not know).
AssertedRaises(k, w) ==
  /\ Called(w)
  /\ w = "mcp" \/ ~(k.conditional /\ k.skipped)
  /\ k.kind = "asserted"
  /\ EvaluateTransition(k.from, k.to, k.met, k.conditional, k.skipped).verdict \in Raised
  /\ Ends(IF w = "mcp" THEN NONE ELSE 1)
  /\ UNCHANGED vars

Evaluate ==
  /\ stage = "evaluating"
  /\ GateStep
  /\ Settle(way)
  /\ UNCHANGED <<way, printed, file, verify_vars>>

\* The verdict goes out first.  A tool call answers with the receipt in it.
PrintVerdict ==
  /\ stage = "evaluated"
  /\ printed' = Last.verdict
  /\ stage' = CASE way = "receipt" -> "open" [] way = "plain" -> "exit" [] OTHER -> "idle"
  /\ UNCHANGED <<vars, way, exit, file, verify_vars>>

\* write_text: open truncates the file, then the receipt is written.
Open ==
  /\ stage = "open"
  /\ file' = TORN
  /\ stage' = "write"
  /\ UNCHANGED <<vars, way, printed, exit, verify_vars>>

Write ==
  /\ stage = "write"
  /\ file' = Last
  /\ stage' = "exit"
  /\ UNCHANGED <<vars, way, printed, exit, verify_vars>>

FaultyWriteFails ==   \* fault: a receipt that cannot be written is passed over
  /\ stage \in {"open", "write"}
  /\ stage' = "exit"
  /\ UNCHANGED <<vars, way, printed, exit, file, verify_vars>>

\* Either may raise an OSError, which nobody catches.
WriteFails ==
  /\ stage \in {"open", "write"}
  /\ Ends(1)
  /\ UNCHANGED <<vars, way, printed, file, verify_vars>>

Exit ==
  /\ stage = "exit"
  /\ Ends(IF Last.verdict = "PASS" THEN 0 ELSE 1)
  /\ UNCHANGED <<vars, way, printed, file, verify_vars>>

\* The process is killed; files stay as they are.
Kill ==
  /\ stage # "idle"
  /\ Raise
  /\ Ends(137)
  /\ UNCHANGED <<tree, edits, way, printed, file, verify_vars>>

-------------------------------------------------------------------------------
\* verify_replay_file, in a process of its own.

Concludes(answer) ==
  /\ conclusion' = answer
  /\ doc' = NONE
  /\ looked' = EmptyDict
  /\ begun' = 0

\* A document that parses is validated; the test files are next.
Validate(d) ==
  IF StructuralMismatches(d) # {} THEN Concludes("refused")
  ELSE IF ~Operable(d) THEN Concludes("crash")
  ELSE doc' = d /\ begun' = edits /\ conclusion' = NONE /\ UNCHANGED looked

\* What the file holds now is read once.
ReadReceipt ==
  /\ doc = NONE
  /\ IF file \in {ABSENT, TORN}
     THEN Concludes("refused")
     ELSE Validate(Document(file, NONE, NONE))
  /\ UNCHANGED <<vars, process_vars, file>>

\* So it is with a copy that has suffered.
ReadCopy(defect) ==
  /\ doc = NONE
  /\ file \notin {ABSENT, TORN}
  /\ Validate(Document(file, defect[1], defect[2]))
  /\ UNCHANGED <<vars, process_vars, file>>

\* UnicodeDecodeError is a ValueError, and only OSError is caught.
ReadUndecodable ==
  /\ doc = NONE
  /\ Concludes("undecodable")
  /\ UNCHANGED <<vars, process_vars, file>>

FaultyRecheck(f) ==   \* fault: a file that cannot be read keeps its recorded sha
  /\ doc # NONE
  /\ f \in DOMAIN doc.body.observed \ DOMAIN looked
  /\ looked' = Put(looked, f, IF tree[f] = ABSENT THEN doc.body.observed[f] ELSE tree[f])
  /\ UNCHANGED <<vars, process_vars, file, doc, begun, conclusion>>

\* _recheck_shas opens the recorded files one after the other.
Recheck(f) ==
  /\ doc # NONE
  /\ f \in DOMAIN doc.body.observed \ DOMAIN looked
  /\ looked' = Put(looked, f, tree[f])
  /\ UNCHANGED <<vars, process_vars, file, doc, begun, conclusion>>

\* The rest needs no more looks at the disk.
Seen == [f \in Files |-> IF f \in DOMAIN looked THEN looked[f] ELSE ABSENT]

Conclude ==
  /\ doc # NONE
  /\ DOMAIN looked = DOMAIN doc.body.observed
  /\ Concludes(IF VerifyReplay(doc.body, Seen) = {} THEN "verified" ELSE "refused")
  /\ UNCHANGED <<vars, process_vars, file>>

-------------------------------------------------------------------------------
EditTree(p, x) == Edit(p, x) /\ UNCHANGED session_vars

Ways == {"receipt", "plain", "mcp"}

NextSession ==
  \/ \E k \in Calls, w \in Ways : UsageError(k, w) \/ Launch(k, w) \/ AssertedRaises(k, w)
  \/ Evaluate
  \/ PrintVerdict
  \/ Open \/ Write \/ WriteFails
  \/ Exit
  \/ Kill
  \/ ReadReceipt \/ ReadUndecodable \/ \E d \in Defects : ReadCopy(d)
  \/ \E f \in Files : Recheck(f)
  \/ Conclude
  \/ \E p \in Paths : \E x \in CanHold[p] : EditTree(p, x)

SessionSpec == InitSession /\ [][NextSession]_all_vars
-------------------------------------------------------------------------------
(***************************************************************************)
(* Properties.                                                             *)
(***************************************************************************)

SessionTypeOK ==
  /\ stage \in {"idle", "evaluating", "evaluated", "open", "write", "exit"}
  /\ stage = "evaluating" <=> pc # "idle"
  /\ way \in Ways
  /\ printed \in Verdicts \cup {NONE}
  /\ exit \in IF stage = "idle" THEN {0, 1, 2, 137, NONE} ELSE {NONE}
  /\ file \in Receipts \cup {ABSENT, TORN}
  /\ doc = NONE \/ doc.body \in Receipts
  /\ conclusion \in {NONE, "verified", "refused", "crash", "undecodable"}

\* "exit 0 iff PASS", so that `&&`, `set -e` and CI block: a gate command that
\* exits 0 has printed the PASS of the call it was given, and if it was to leave
\* a receipt, the file holds the receipt of that call to the last byte - whatever
\* the file held before, and wherever earlier commands were killed or failed.
ExitZeroIsBacked ==
  exit = 0 =>
    /\ printed = "PASS"
    /\ Last.verdict = "PASS"
    /\ way = "receipt" => file = Last

\* What the code after the validation rests on is there, with its type.  A target
\* may be missing: then the checkout is the directory that the caller names.
Sound(d) ==
  \/ d.field \notin DOMAIN RequiredFields \cup DOMAIN OptionalTypedFields
  \/ d.field = "target" /\ d.type = "absent"

\* A verification that no edit disturbs says yes exactly if the phases of the
\* receipt are known and every test file it records is as recorded - although
\* the file it was read from may have been truncated, overwritten by the next
\* gate or left torn by one that was killed, before or while it is verified.
VerifiesIffAsRecorded ==
  [][doc # NONE /\ doc' = NONE /\ begun = edits =>
       LET r == doc.body
       IN conclusion' = "verified" <=>
            /\ KnownPhases(r)
            /\ \A f \in DOMAIN r.observed : tree[f] = r.observed[f]]_all_vars

\* "a missing OR mistyped field (including a non-string `target`) ... never an
\* exception out of the public entry points": whatever field of a receipt is
\* lost or mistyped, nothing the verifier does with it raises, and it is only
\* gone on with when what the verifier reasons with is unaffected.
DamagedIsRefused ==
  /\ conclusion # "crash"
  /\ doc # NONE => Sound(doc)
===============================================================================
