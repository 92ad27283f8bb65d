--------------------------- MODULE GateSessionProofs ---------------------------
(***************************************************************************)
(* Theorems of GateSession: what the exit code of a gate command and the   *)
(* answer of a verification are worth, for any number of commands, kills,  *)
(* failing writes and edits, and for every field of a receipt that a copy  *)
(* may lose or mistype.                                                    *)
(*                                                                         *)
(* The invariant has three parts: the gate's own (MeasuredGateProofs),     *)
(* which a killed process leaves as an exception does; the process's, what *)
(* it has printed and written by the stage it is at; and the               *)
(* verification's, what the files re-hashed so far say of the tree.        *)
(***************************************************************************)
EXTENDS GateSession, ReplayProofs

\* The gate process: from the evaluation on there is a receipt; what was printed
\* and what was written is that receipt's.
Process ==
  /\ stage \in {"idle", "evaluating", "evaluated", "open", "write", "exit"}
  /\ stage = "evaluating" <=> pc # "idle"
  /\ way \in Ways
  /\ printed \in Verdicts \cup {NONE}
  /\ exit \in IF stage = "idle" THEN {0, 1, 2, 137, NONE} ELSE {NONE}
  /\ file \in Receipts \cup {ABSENT, TORN}
  /\ stage \in {"evaluated", "open", "write", "exit"} => log # <<>>
  /\ stage \in {"open", "write", "exit"} => printed = Last.verdict
  /\ stage \in {"open", "write"} => way = "receipt"
  /\ stage = "exit" /\ way = "receipt" => file = Last
  /\ ExitZeroIsBacked

\* The verification: while nobody edits, the hashes taken are those of the tree.
Verification ==
  /\ doc = NONE \/ doc.body \in Receipts
  /\ doc = NONE => DOMAIN looked = {}
  /\ doc # NONE => DOMAIN looked \subseteq DOMAIN doc.body.observed
  /\ begun \in 0 .. edits
  /\ doc # NONE /\ begun = edits => \A f \in DOMAIN looked : looked[f] = tree[f]
  /\ conclusion \in {NONE, "verified", "refused", "crash", "undecodable"}
  /\ DamagedIsRefused

SInv == IInv /\ Process /\ Verification
-------------------------------------------------------------------------------
\* What the validation lets through is a document that suffered nothing the
\* verifier reasons with: the two tables of replay.py against the types of receipt.py.
LEMMA ValidatedIsSound ==
  ASSUME NEW r, NEW field, NEW type, field = NONE \/ <<field, type>> \in Defects,
         StructuralMismatches(Document(r, field, type)) = {}
  PROVE  Operable(Document(r, field, type)) /\ Sound(Document(r, field, type))
<1> DEFINE d == Document(r, field, type)
<1>1. d.field = field /\ d.type = type
  BY DEF Document
<1> HIDE DEF d
<1>2. ~Malformed(d) /\ field # "schema_version"
  <2>1. "malformed_receipt" \notin StructuralMismatches(d)
        /\ "unsupported_schema_version" \notin StructuralMismatches(d)
    BY DEF d
  <2> QED BY <1>1, <2>1 DEF StructuralMismatches
<1>3. field \in DOMAIN WrittenTypes => type \notin WrittenTypes[field]
  <2>1. ASSUME <<field, type>> \in Defects, field \in DOMAIN WrittenTypes
        PROVE  type \notin WrittenTypes[field]
    <3> DEFINE x == <<field, type>>
    <3>1. x[1] = field /\ x[2] = type
      OBVIOUS
    <3> HIDE DEF x
    <3>2. x \in Defects
      BY <2>1 DEF x
    <3> QED BY <1>2, <2>1, <3>1, <3>2, SessionConstants
  <2> QED BY <2>1, SessionConstants
<1>4. field \notin DOMAIN RequiredFields
  <2> SUFFICES ASSUME field \in DOMAIN RequiredFields PROVE FALSE
    OBVIOUS
  <2>1. /\ type \in RequiredFields[field]
        /\ ~(field = "pytest_exit_code" /\ type = "bool")
    BY <1>1, <1>2 DEF Malformed
  <2> QED BY <1>2, <1>3, <2>1 DEF RequiredFields, WrittenTypes
<1>5. field \in DOMAIN OptionalTypedFields => field = "target" /\ type = "absent"
  BY <1>1, <1>2, <1>3 DEF Malformed, OptionalTypedFields, WrittenTypes
<1>6. Sound(d)
  BY <1>1, <1>4, <1>5 DEF Sound
<1>7. /\ field \notin {"schema_version", "from_phase", "to_phase", "verdict", "gate_kind",
                       "mandated_node_ids", "matched_node_ids", "sha256_pinned",
                       "sha256_observed", "pytest_exit_code"}
      /\ field = "target" => type = "absent"
  BY <1>4, <1>5 DEF RequiredFields, OptionalTypedFields
<1>8. Operable(d)
  BY <1>1, <1>7 DEF Operable
<1> QED BY <1>6, <1>8 DEF d

\* A receipt, once written to the log, stays in it.
LogStep == log' = log \/ \E e : log' = Append(log, e)

LEMMA ReceiptsGrow ==
  ASSUME IInv, LogStep
  PROVE  /\ Receipts \subseteq Receipts'
         /\ log # <<>> => log' # <<>>
         /\ log' # log => log' # <<>>
<1>1. log \in Seq(Finished)
  BY DEF IInv, Entries
<1>2. CASE log' = log
  BY <1>2 DEF Receipts, Finished
<1>3. ASSUME NEW e, log' = Append(log, e)
      PROVE  Receipts \subseteq Receipts' /\ log' # <<>>
  <2>1. /\ DOMAIN log' = 1 .. Len(log) + 1 /\ DOMAIN log = 1 .. Len(log) /\ Len(log) \in Nat
        /\ \A n \in DOMAIN log : log'[n] = log[n]
    BY <1>1, <1>3
  <2>2. Finished \subseteq Finished'
    BY <2>1 DEF Finished
  <2>3. log' # <<>>
    BY <1>1, <1>3
  <2> QED BY <2>2, <2>3 DEF Receipts
<1> QED BY <1>2, <1>3 DEF LogStep

\* The last receipt is one, with a verdict.
LEMMA LastIsReceipt ==
  ASSUME IInv, log # <<>>
  PROVE  Last \in Receipts /\ Last.verdict \in Verdicts
<1>1. log \in Seq(Finished)
  BY DEF IInv, Entries
<1>2. Len(log) \in DOMAIN log
  BY <1>1
<1>3. log[Len(log)] \in Finished
  BY <1>2 DEF Finished
<1>4. Last \in Receipts
  BY <1>3 DEF Last, Receipts
<1>5. Genuine(Last)
  BY <1>3, ReceiptsAreGenuine DEF Last, IInv, Entries
<1> QED BY <1>4, <1>5 DEF Genuine

\* The steps of a call leave the tree alone and add at most one receipt.
LEMMA CallStep ==
  ASSUME NEW k, RefuseUnmeasurable(k) \/ EvaluateAsserted(k) \/ BeginMeasured(k)
  PROVE  LogStep /\ UNCHANGED <<tree, edits>>
BY DEF RefuseUnmeasurable, EvaluateAsserted, BeginMeasured, Return, LogStep

\* ... and so does every step of the evaluation.
LEMMA EvaluationStep ==
  ASSUME GateStep
  PROVE  LogStep /\ UNCHANGED <<tree, edits>>
<1>1. CASE SourceFails \/ MeasurementFails
  BY <1>1 DEF SourceFails, MeasurementFails, Unevaluable, Return, LogStep
<1>2. CASE \E m \in Manifests : LoadSpecs(m)
  BY <1>2 DEF LoadSpecs, LogStep
<1>3. CASE Collect \/ VerifyUnbound \/ RunBare
  BY <1>3 DEF Collect, VerifyUnbound, RunBare, LogStep
<1>4. CASE \E f \in Files : VerifyBound(f)
  BY <1>4 DEF VerifyBound, LogStep
<1>5. CASE \E once \in BOOLEAN : RunMandated(once)
  BY <1>5 DEF RunMandated, LogStep
<1>6. CASE BareFails
  BY <1>6 DEF BareFails, Raise, LogStep
<1>7. CASE Decide
  BY <1>7 DEF Decide, Return, Raise, LogStep
<1> QED BY <1>1, <1>2, <1>3, <1>4, <1>5, <1>6, <1>7 DEF GateStep

-------------------------------------------------------------------------------
\* Every step of a session is one of the gate's, or leaves it as an exception does.
LEMMA SessionStep ==
  ASSUME IInv, Repeatable, [NextSession]_all_vars
  PROVE  /\ [Next]_vars \/ (Raise /\ UNCHANGED <<tree, edits>>)
         /\ IInv' /\ Repeatable'
<1>1. CASE Kill
  <2>1. Raise /\ UNCHANGED <<tree, edits>>
    BY <1>1 DEF Kill
  <2> QED BY <2>1, RaiseKeeps, RaiseRepeatable
<1>2. CASE [Next]_vars
  BY <1>2, NextKeeps, NextRepeatable
<1>3. ASSUME NEW k \in Calls, NEW w \in Ways,
             UsageError(k, w) \/ Launch(k, w) \/ AssertedRaises(k, w)
      PROVE  [Next]_vars
  BY <1>3 DEF UsageError, Launch, AssertedRaises, Next
<1>4. ASSUME Evaluate \/ PrintVerdict \/ Open \/ Write \/ WriteFails \/ Exit PROVE [Next]_vars
  BY <1>4 DEF Evaluate, PrintVerdict, Open, Write, WriteFails, Exit, Next
<1>5. ASSUME \/ ReadReceipt \/ ReadUndecodable \/ \E d \in Defects : ReadCopy(d)
             \/ \E f \in Files : Recheck(f)
             \/ Conclude
      PROVE  [Next]_vars
  BY <1>5 DEF ReadReceipt, ReadUndecodable, ReadCopy, Recheck, Conclude
<1>6. ASSUME NEW p \in Paths, NEW x \in CanHold[p], EditTree(p, x)
      PROVE  [Next]_vars
  BY <1>6 DEF EditTree, Next
<1>7. CASE UNCHANGED all_vars
  BY <1>2, <1>7 DEF all_vars
<1>8. [Next]_vars \/ Kill
  BY <1>3, <1>4, <1>5, <1>6, <1>7 DEF NextSession, all_vars
<1> QED BY <1>1, <1>2, <1>8 DEF Kill

\* What a step of the evaluation means for the process.
LEMMA SettleSays ==
  ASSUME IInv, LogStep, NEW w, Settle(w)
  PROVE  /\ stage' \in {"idle", "evaluating", "evaluated"}
         /\ stage' = "evaluating" <=> pc' # "idle"
         /\ stage' = "evaluated" => log' # <<>>
         /\ exit' \in IF stage' = "idle" THEN {1, NONE} ELSE {NONE}
BY ReceiptsGrow DEF Settle, Ends

\* The process, when only the evaluation has moved.
LEMMA SettleKeeps ==
  ASSUME IInv, Process, LogStep, NEW w, Settle(w), way' \in Ways, printed' \in Verdicts \cup {NONE},
         UNCHANGED file
  PROVE  Process'
<1>1. /\ stage' \in {"idle", "evaluating", "evaluated"}
      /\ stage' = "evaluating" <=> pc' # "idle"
      /\ stage' = "evaluated" => log' # <<>>
      /\ exit' \in IF stage' = "idle" THEN {1, NONE} ELSE {NONE}
  BY SettleSays
<1>2. file' \in Receipts' \cup {ABSENT, TORN}
  BY ReceiptsGrow DEF Process
<1>3. exit' # 0
  BY <1>1, GateConstants
<1> QED BY <1>1, <1>2, <1>3 DEF Process, ExitZeroIsBacked

\* The verification, when the process moves.
LEMMA VerificationKept ==
  ASSUME IInv, Verification, LogStep, UNCHANGED <<tree, edits, verify_vars>>
  PROVE  Verification'
<1>1. Receipts \subseteq Receipts'
  BY ReceiptsGrow
<1> QED BY <1>1 DEF verify_vars, Verification, DamagedIsRefused

\* A command or tool call starts, or is turned away with exit code 2 or 1.
LEMMA LaunchKeeps ==
  ASSUME SInv, NEW k \in Calls, NEW w \in Ways,
         UsageError(k, w) \/ Launch(k, w) \/ AssertedRaises(k, w)
  PROVE  Process' /\ Verification'
<1>1. /\ stage = "idle" /\ pc = "idle" /\ way' = w /\ printed' = NONE
      /\ UNCHANGED <<file, verify_vars>>
  BY DEF UsageError, Launch, AssertedRaises, Called, Ready
<1>2. CASE Launch(k, w)
  <2>1. LogStep /\ UNCHANGED <<tree, edits>> /\ Settle(w)
    BY <1>2, CallStep DEF Launch
  <2> QED BY <1>1, <2>1, SettleKeeps, VerificationKept DEF SInv
<1>3. CASE UsageError(k, w) \/ AssertedRaises(k, w)
  <2>1. UNCHANGED vars /\ \E c \in {1, 2, NONE} : Ends(c)
    BY <1>3 DEF UsageError, AssertedRaises
  <2>2. UNCHANGED <<log, pc, tree, edits>> /\ LogStep
    BY <2>1 DEF vars, LogStep
  <2>3. stage' = "idle" /\ exit' \in {1, 2, NONE} /\ exit' # 0
    BY <2>1, GateConstants DEF Ends
  <2>4. Process'
    BY <1>1, <2>2, <2>3, ReceiptsGrow DEF SInv, Process, ExitZeroIsBacked
  <2> QED BY <1>1, <2>2, <2>4, VerificationKept DEF SInv
<1> QED BY <1>2, <1>3

\* One step of the evaluation in a running process.
LEMMA EvaluateKeeps ==
  ASSUME SInv, Evaluate
  PROVE  Process' /\ Verification'
<1>1. LogStep /\ UNCHANGED <<tree, edits>> /\ Settle(way)
  BY EvaluationStep DEF Evaluate
<1> QED BY <1>1, SettleKeeps, VerificationKept DEF SInv, Evaluate, Process

\* From the verdict to the exit code there is one receipt, the last.
LEMMA OutputKeeps ==
  ASSUME SInv, PrintVerdict \/ Open \/ Write \/ WriteFails \/ Exit
  PROVE  Process' /\ Verification'
<1>1. UNCHANGED <<vars, way, verify_vars>>
  BY DEF PrintVerdict, Open, Write, WriteFails, Exit
<1>2. UNCHANGED <<tree, edits, pc, log>> /\ LogStep
  BY <1>1 DEF vars, LogStep
<1>3. Receipts' = Receipts /\ Last' = Last
  BY <1>2 DEF Receipts, Finished, Last
<1>4. log # <<>> /\ Last \in Receipts /\ Last.verdict \in Verdicts
  BY LastIsReceipt DEF SInv, Process, PrintVerdict, Open, Write, WriteFails, Exit
<1>5. /\ way \in Ways /\ printed \in Verdicts \cup {NONE} /\ file \in Receipts \cup {ABSENT, TORN}
      /\ stage # "evaluating" /\ pc = "idle" /\ exit = NONE
      /\ stage \in {"open", "write", "exit"} => printed = Last.verdict
      /\ stage \in {"open", "write"} => way = "receipt"
      /\ stage = "exit" /\ way = "receipt" => file = Last
  BY DEF SInv, Process, PrintVerdict, Open, Write, WriteFails, Exit
<1>6. /\ printed' \in Verdicts \cup {NONE}
      /\ file' \in Receipts \cup {ABSENT, TORN}
      /\ stage' \in {"idle", "open", "write", "exit"}
      /\ exit' \in IF stage' = "idle" THEN {0, 1, NONE} ELSE {NONE}
  BY <1>4, <1>5 DEF PrintVerdict, Open, Write, WriteFails, Exit, Ends
<1>7. /\ stage' \in {"open", "write", "exit"} => printed' = Last.verdict
      /\ stage' \in {"open", "write"} => way = "receipt"
      /\ stage' = "exit" /\ way = "receipt" => file' = Last
  BY <1>5 DEF PrintVerdict, Open, Write, WriteFails, Exit, Ends, Ways
<1>8. exit' = 0 => printed' = "PASS" /\ Last.verdict = "PASS" /\ (way = "receipt" => file' = Last)
  BY <1>5, GateConstants DEF PrintVerdict, Open, Write, WriteFails, Exit, Ends
<1>9. Process'
  <2>1. way' = way
    BY <1>1
  <2>2. ExitZeroIsBacked'
    BY <1>3, <1>8, <2>1 DEF ExitZeroIsBacked
  <2> QED BY <1>2, <1>3, <1>4, <1>5, <1>6, <1>7, <2>1, <2>2 DEF Process
<1>10. Verification'
  BY <1>1, <1>2, VerificationKept DEF SInv
<1> QED BY <1>9, <1>10

\* A killed process leaves what it has printed and the file as they are.
LEMMA KillKeeps ==
  ASSUME SInv, Kill
  PROVE  Process' /\ Verification'
<1>1. /\ UNCHANGED <<tree, edits, log, way, printed, file, verify_vars>> /\ LogStep
      /\ stage' = "idle" /\ pc' = "idle" /\ exit' = 137
  BY DEF Kill, Raise, Leave, Ends, LogStep
<1>2. Receipts' = Receipts
  BY <1>1 DEF Receipts, Finished
<1>3. Process'
  BY <1>1, <1>2 DEF SInv, Process, ExitZeroIsBacked
<1> QED BY <1>1, <1>3, VerificationKept DEF SInv

\* The process, when the verification moves.
LEMMA ProcessKept ==
  ASSUME Process, UNCHANGED <<pc, log, process_vars, file>>
  PROVE  Process'
<1>1. Receipts' = Receipts /\ Last' = Last
  BY DEF Receipts, Finished, Last
<1> QED BY <1>1 DEF process_vars, Process, ExitZeroIsBacked

\* A verification that ends leaves nothing behind.
LEMMA ConcludesKeeps ==
  ASSUME SInv, NEW answer \in {"verified", "refused", "undecodable"}, Concludes(answer),
         UNCHANGED edits
  PROVE  Verification'
<1>1. edits \in Nat
  BY DEF SInv, IInv, TypeOK, GateConstants
<1>2. DOMAIN looked' = {}
  BY DEF Concludes, EmptyDict
<1> QED BY <1>1, <1>2 DEF Concludes, Verification, DamagedIsRefused

\* Reading the receipt, or a copy: it is refused, or it is sound.
LEMMA ValidateKeeps ==
  ASSUME SInv, doc = NONE, file \in Receipts,
         NEW field, NEW type, field = NONE \/ <<field, type>> \in Defects,
         Validate(Document(file, field, type)), UNCHANGED <<tree, edits, log>>
  PROVE  Verification'
<1> DEFINE d == Document(file, field, type)
<1>1. CASE StructuralMismatches(d) # {}
  BY <1>1, ConcludesKeeps DEF Validate
<1>2. CASE StructuralMismatches(d) = {}
  <2>1. Operable(d) /\ Sound(d)
    BY <1>2, ValidatedIsSound
  <2>2. d.body = file
    BY DEF Document
  <2>3. doc' = d /\ begun' = edits /\ conclusion' = NONE /\ UNCHANGED looked
    BY <1>2, <2>1 DEF Validate
  <2>4. Receipts' = Receipts
    BY DEF Receipts, Finished
  <2>5. DOMAIN looked = {} /\ edits \in Nat
    BY DEF SInv, Verification, IInv, TypeOK, GateConstants
  <2> HIDE DEF d
  <2> QED BY <2>1, <2>2, <2>3, <2>4, <2>5, SessionConstants DEF Verification, DamagedIsRefused
<1> QED BY <1>1, <1>2

\* One more file is re-hashed.
LEMMA RecheckKeeps ==
  ASSUME SInv, NEW f \in Files, Recheck(f)
  PROVE  Verification'
<1>1. /\ doc # NONE /\ f \in DOMAIN doc.body.observed /\ f \notin DOMAIN looked
      /\ looked' = Put(looked, f, tree[f])
      /\ UNCHANGED <<tree, edits, log, doc, begun, conclusion>>
  BY DEF Recheck, vars
<1>2. /\ DOMAIN looked' = DOMAIN looked \cup {f}
      /\ \A g \in DOMAIN looked' : looked'[g] = IF g = f THEN tree[f] ELSE looked[g]
  BY <1>1 DEF Put
<1>3. Receipts' = Receipts
  BY <1>1 DEF Receipts, Finished
<1> QED BY <1>1, <1>2, <1>3 DEF SInv, Verification, DamagedIsRefused

\* An edit ends the time during which the hashes speak for the tree.
LEMMA EditTreeKeeps ==
  ASSUME SInv, NEW p \in Paths, NEW x \in CanHold[p], EditTree(p, x)
  PROVE  Process' /\ Verification'
<1>1. edits \in Nat /\ edits' = edits + 1 /\ begun \in 0 .. edits
  BY DEF SInv, IInv, TypeOK, GateConstants, EditTree, Edit, Verification
<1>2. UNCHANGED <<pc, log, process_vars, file, doc, looked, begun, conclusion>>
  BY DEF EditTree, Edit, session_vars, verify_vars
<1>3. Receipts' = Receipts
  BY <1>2 DEF Receipts, Finished
<1>4. Process'
  BY <1>2, ProcessKept DEF SInv
<1>5. begun' \in 0 .. edits' /\ begun' # edits'
  BY <1>1, <1>2
<1>6. Verification'
  BY <1>2, <1>3, <1>5 DEF SInv, Verification, DamagedIsRefused
<1> QED BY <1>4, <1>6

\* Every step of a verification.
LEMMA VerifyKeeps ==
  ASSUME SInv, \/ ReadReceipt \/ ReadUndecodable \/ \E d \in Defects : ReadCopy(d)
               \/ \E f \in Files : Recheck(f)
               \/ Conclude
  PROVE  Process' /\ Verification'
<1>1. UNCHANGED <<vars, process_vars, file>>
  BY DEF ReadReceipt, ReadUndecodable, ReadCopy, Recheck, Conclude
<1>2. UNCHANGED <<tree, edits, pc, log>>
  BY <1>1 DEF vars
<1>3. file \in Receipts \cup {ABSENT, TORN}
  BY DEF SInv, Process
<1>4. ASSUME ReadReceipt PROVE Verification'
  <2>1. CASE file \in {ABSENT, TORN}
    BY <1>2, <1>4, <2>1, ConcludesKeeps DEF ReadReceipt
  <2>2. CASE file \notin {ABSENT, TORN}
    BY <1>2, <1>3, <1>4, <2>2, ValidateKeeps DEF ReadReceipt
  <2> QED BY <2>1, <2>2
<1>5. ASSUME ReadUndecodable PROVE Verification'
  BY <1>2, <1>5, ConcludesKeeps DEF ReadUndecodable
<1>6. ASSUME NEW d \in Defects, ReadCopy(d) PROVE Verification'
  <2>1. <<d[1], d[2]>> \in Defects
    BY SessionConstants
  <2>2. doc = NONE /\ file \notin {ABSENT, TORN} /\ Validate(Document(file, d[1], d[2]))
    BY <1>6 DEF ReadCopy
  <2> QED BY <1>2, <1>3, <2>1, <2>2, ValidateKeeps
<1>7. ASSUME NEW f \in Files, Recheck(f) PROVE Verification'
  BY <1>7, RecheckKeeps
<1>8. ASSUME Conclude PROVE Verification'
  BY <1>2, <1>8, ConcludesKeeps DEF Conclude
<1>9. Process'
  BY <1>1, <1>2, ProcessKept DEF SInv
<1> QED BY <1>4, <1>5, <1>6, <1>7, <1>8, <1>9

\* The invariant is inductive.
LEMMA SInvStep == SInv /\ Repeatable /\ [NextSession]_all_vars => SInv' /\ Repeatable'
<1> SUFFICES ASSUME SInv, Repeatable, [NextSession]_all_vars
             PROVE  SInv' /\ Repeatable'
  OBVIOUS
<1>1. IInv' /\ Repeatable'
  BY SessionStep DEF SInv
<1>2. ASSUME NEW k \in Calls, NEW w \in Ways,
             UsageError(k, w) \/ Launch(k, w) \/ AssertedRaises(k, w)
      PROVE  Process' /\ Verification'
  BY <1>2, LaunchKeeps
<1>3. ASSUME Evaluate PROVE Process' /\ Verification'
  BY <1>3, EvaluateKeeps
<1>4. ASSUME PrintVerdict \/ Open \/ Write \/ WriteFails \/ Exit
      PROVE  Process' /\ Verification'
  BY <1>4, OutputKeeps
<1>5. ASSUME Kill PROVE Process' /\ Verification'
  BY <1>5, KillKeeps
<1>6. ASSUME \/ ReadReceipt \/ ReadUndecodable \/ \E d \in Defects : ReadCopy(d)
             \/ \E f \in Files : Recheck(f)
             \/ Conclude
      PROVE  Process' /\ Verification'
  BY <1>6, VerifyKeeps
<1>7. ASSUME NEW p \in Paths, NEW x \in CanHold[p], EditTree(p, x)
      PROVE  Process' /\ Verification'
  BY <1>7, EditTreeKeeps
<1>8. ASSUME UNCHANGED all_vars PROVE Process' /\ Verification'
  <2>1. UNCHANGED <<pc, log, tree, edits, process_vars, file, verify_vars>> /\ LogStep
    BY <1>8 DEF all_vars, session_vars, vars, LogStep
  <2> QED BY <2>1, ProcessKept, VerificationKept DEF SInv
<1>9. Process' /\ Verification'
  BY <1>2, <1>3, <1>4, <1>5, <1>6, <1>7, <1>8 DEF NextSession
<1> QED BY <1>1, <1>9 DEF SInv

\* Nothing is running, printed, written or read at first.
LEMMA InitSInv == InitSession => SInv /\ Repeatable
<1> SUFFICES ASSUME InitSession PROVE SInv /\ Repeatable
  OBVIOUS
<1>1. IInv /\ Repeatable
  BY InitHolds, InitRepeatable DEF InitSession
<1>2. Process
  BY GateConstants DEF InitSession, Init, Process, ExitZeroIsBacked, Ways
<1>3. Verification
  BY SessionConstants DEF InitSession, Init, Verification, DamagedIsRefused, EmptyDict
<1> QED BY <1>1, <1>2, <1>3 DEF SInv

\* The invariant holds along every session.
THEOREM SInvHolds == SessionSpec => [](SInv /\ Repeatable)
BY InitSInv, SInvStep, PTL DEF SessionSpec

\* The process, the file and the verification have the types the code gives them.
THEOREM SessionTypeCorrect == SessionSpec => []SessionTypeOK
<1>1. SInv => SessionTypeOK
  BY DEF SInv, Process, Verification, SessionTypeOK
<1> QED BY <1>1, SInvHolds, PTL

\* cli.py: whatever was killed, failed to write or was edited before, a gate command that
\* exits 0 has printed PASS, and its --receipt-out holds the receipt of that PASS.
THEOREM ExitZeroIsAlwaysBacked == SessionSpec => []ExitZeroIsBacked
<1>1. SInv => ExitZeroIsBacked
  BY DEF SInv, Process
<1> QED BY <1>1, SInvHolds, PTL

\* replay.py: no lost or mistyped field makes the verifier raise, and none that it reasons
\* with gets past the validation.
THEOREM DamageIsAlwaysRefused == SessionSpec => []DamagedIsRefused
<1>1. SInv => DamagedIsRefused
  BY DEF SInv, Verification
<1> QED BY <1>1, SInvHolds, PTL

\* Processes that are killed at any point take nothing from what MeasuredGate promises.
THEOREM SessionsKeepTheGate ==
  SessionSpec => [](/\ PassIsEarned /\ UndisturbedPassRanPins
                    /\ ErrorXorEvidence /\ UndisturbedIsExact)
<1>1. IInv => PassIsEarned /\ UndisturbedPassRanPins /\ ErrorXorEvidence
  BY ReceiptsExplain DEF IInv, Entries, PassIsEarned, UndisturbedPassRanPins, ErrorXorEvidence
<1>2. Repeatable => UndisturbedIsExact
  BY RepeatableIsExact
<1>3. SInv => IInv
  BY DEF SInv
<1> QED BY <1>1, <1>2, <1>3, SInvHolds, PTL

\* The step at which a verification answers.
LEMMA AnswerStep ==
  ASSUME [NextSession]_all_vars, doc # NONE, doc' = NONE
  PROVE  Conclude
<1>1. CASE UNCHANGED doc
  BY <1>1
<1>2. ASSUME NEW k \in Calls, NEW w \in Ways,
             UsageError(k, w) \/ Launch(k, w) \/ AssertedRaises(k, w)
      PROVE  UNCHANGED doc
  BY <1>2 DEF UsageError, Launch, AssertedRaises, Called, verify_vars
<1>3. ASSUME Evaluate \/ PrintVerdict \/ Open \/ Write \/ WriteFails \/ Exit \/ Kill
      PROVE  UNCHANGED doc
  BY <1>3 DEF Evaluate, PrintVerdict, Open, Write, WriteFails, Exit, Kill, verify_vars
<1>4. ASSUME NEW p, NEW x, Recheck(p) \/ EditTree(p, x)
      PROVE  UNCHANGED doc
  BY <1>4 DEF Recheck, EditTree, session_vars, verify_vars
<1>5. ~(ReadReceipt \/ ReadUndecodable \/ \E d \in Defects : ReadCopy(d))
  BY DEF ReadReceipt, ReadUndecodable, ReadCopy
<1>6. CASE UNCHANGED all_vars
  BY <1>6 DEF all_vars, session_vars, verify_vars
<1> QED BY <1>1, <1>2, <1>3, <1>4, <1>5, <1>6 DEF NextSession

\* replay.py, file by file: without an edit in between, "verified" means that every hash on
\* the receipt is that of the file now, and is the answer whenever that is so.
THEOREM VerificationsAreExact == SessionSpec => VerifiesIffAsRecorded
<1> DEFINE
      answer ==
        doc # NONE /\ doc' = NONE /\ begun = edits =>
          (conclusion' = "verified" <=>
             /\ KnownPhases(doc.body)
             /\ \A f \in DOMAIN doc.body.observed : tree[f] = doc.body.observed[f])
<1>1. SInv /\ [NextSession]_all_vars => answer
  <2> SUFFICES ASSUME SInv, [NextSession]_all_vars, doc # NONE, doc' = NONE, begun = edits
               PROVE  conclusion' = "verified" <=>
                        /\ KnownPhases(doc.body)
                        /\ \A f \in DOMAIN doc.body.observed : tree[f] = doc.body.observed[f]
    OBVIOUS
  <2> DEFINE r == doc.body
  <2>1. /\ DOMAIN looked = DOMAIN r.observed
        /\ conclusion' = "verified" <=> VerifyReplay(r, Seen) = {}
    BY AnswerStep DEF Conclude, Concludes
  <2>2. r \in Receipts /\ \A f \in DOMAIN looked : looked[f] = tree[f]
    BY DEF SInv, Verification
  <2>3. Genuine(r)
    BY <2>2, ReceiptsAreGenuine DEF SInv, IInv, Entries, Receipts
  <2>4. DOMAIN r.observed \subseteq Files
    BY <2>3 DEF Genuine
  <2> HIDE DEF r
  <2>5. \A f \in DOMAIN r.observed : Seen[f] = tree[f]
    BY <2>1, <2>2, <2>4 DEF Seen
  <2>6. VerifyReplay(r, Seen) = {} <=>
          KnownPhases(r) /\ \A f \in DOMAIN r.observed : Seen[f] = r.observed[f]
    BY <2>3, ReplayOfGenuine
  <2> QED BY <2>1, <2>5, <2>6 DEF r
<1>2. SessionSpec => [][answer]_all_vars
  BY <1>1, SInvHolds, PTL DEF SessionSpec
<1> QED BY <1>2 DEF VerifiesIffAsRecorded
===============================================================================
