----------------------------- MODULE MeasuredGate -----------------------------
(***************************************************************************)
(* precondition.py and receipt.py: gate calls that earn their precondition *)
(* from pytest instead of taking the caller's word, and the receipt each   *)
(* one leaves.  One process evaluates a call at a time; the working tree   *)
(* it reads belongs to somebody else, who may edit it between any two      *)
(* reads: the collection, each hash, and the run of the tests are separate *)
(* steps.                                                                  *)
(*                                                                         *)
(* A test file is its path relative to the target, and holds one mandated  *)
(* test; a node id is written as the path it declares.  A content stands   *)
(* for its own sha256.  What else a run executes - a conftest.py, helper   *)
(* modules, the code under test - is one more path, SUPPORT, which no      *)
(* manifest declares and no hash covers.  pytest and the manifest source   *)
(* are external: they are modelled by the results the code distinguishes.  *)
(***************************************************************************)
EXTENDS PhaseGate, FiniteSets

CONSTANTS
  Files,       \* paths of test files
  SUPPORT,     \* everything else that pytest executes, taken as one path
  CanHold,     \* CanHold[p]: what may be found at path p
  Outcome,     \* Outcome[x, s]: what pytest makes of content x beside support s
  SuffixOf,    \* SuffixOf[f]: the files whose path is f or ends in "/" + f
  Manifests,   \* the `required` lists a manifest may give the transition
  Calls,       \* the gate calls, records in CallType
  ABSENT,      \* no such file
  MALFORMED,   \* a manifest entry whose node id is no node id (has no "::")
  NAMELESS,    \* a manifest entry without a node id
  BLANK,       \* a sha256 pin of the empty string
  NONE,        \* Python's None
  MaxCalls,    \* bound on gate calls in a behaviour
  MaxEdits     \* bound on edits of the tree in a behaviour

(***************************************************************************)
(* What pytest reports of the test in a file: whether it is collected      *)
(* under its node id ("id") or only as the variants of a parametrized one, *)
(* of which each has an id of its own; how many passes a run of the node   *)
(* id counts; and whether anything fails.  A test that is skipped, or has  *)
(* no variant left, does neither.  "error" is a file that cannot be        *)
(* collected, be it its own fault or that of its conftest.py.              *)
(***************************************************************************)
Reports == [collected : {"id", "variants", "nothing", "error", "absent"},
            passes : Nat, failed : BOOLEAN]

Paths == Files \cup {SUPPORT}
Contents == (UNION {CanHold[f] : f \in Files}) \ {ABSENT}

Kinds == {"measured-mandated", "measured-bare", "asserted"}
Sources == {"FileManifestSource", "KgManifestSource", ""}

\* An ImpactReq: a declared node id, and the sha256 it pins (or not); and what
\* a manifest may say in its place.
ImpactReq == [file : Files, pin : Contents \cup {NONE, BLANK}]
Entry == ImpactReq \cup {MALFORMED, NAMELESS}

CallType == [kind : Kinds, source : Sources, from : STRING, to : STRING,
             met : BOOLEAN, conditional : BOOLEAN, skipped : BOOLEAN]

ASSUME GateConstants ==
  /\ SUPPORT \notin Files
  /\ DOMAIN CanHold = Paths
  /\ Outcome \in [Contents \X CanHold[SUPPORT] -> Reports]
  /\ \A o \in Contents \X CanHold[SUPPORT] :
       /\ Outcome[o].collected # "absent"
       /\ Outcome[o].collected = "id" => Outcome[o].passes <= 1
  /\ SuffixOf \in [Files -> SUBSET Files]
  /\ Manifests \subseteq Seq(Entry)
  /\ Calls \subseteq CallType
  /\ {NONE, BLANK} \cap Contents = {} /\ NONE # BLANK
  /\ NONE \notin Nat \cup {"source", "measurement"}
  /\ {MALFORMED, NAMELESS} \cap ImpactReq = {} /\ MALFORMED # NAMELESS
  /\ MaxCalls \in Nat
  /\ MaxEdits \in Nat

VARIABLES
  tree,       \* what is at each path under the target
  edits,      \* how often the tree has been edited
  pc,         \* what the gate does next
  call,       \* the call being evaluated
  started,    \* edits when that call began
  required,   \* spec.required, as it came from the manifest source
  collected,  \* files whose mandated test the collector reported
  matched,    \* the file found for each requirement so far, in order
  observed,   \* declared node id -> sha256 hashed for it
  code,       \* exit code of the measurement
  ran,        \* matched files and SUPPORT -> content when the tests ran
  log         \* finished calls: the receipt, and what really happened

call_vars == <<call, started, required, collected, matched, observed, code, ran>>
vars == <<tree, edits, pc, call_vars, log>>

-------------------------------------------------------------------------------
\* Dictionaries.

EmptyDict == [x \in {} |-> NONE]

Put(dict, key, value) ==
  [x \in DOMAIN dict \cup {key} |-> IF x = key THEN value ELSE dict[x]]

\* [e for e in s if e in S]: the n-th kept element is the one with n kept ones up
\* to it.  (SelectSeq, which does the same, is recursive.)
Sift(s, S) ==
  LET kept == {i \in DOMAIN s : s[i] \in S}
      nth(n) == CHOOSE i \in kept : Cardinality({k \in kept : k <= i}) = n
  IN [n \in 1 .. Cardinality(kept) |-> s[nth(n)]]

\* measure_mandated leaves out what is no node id, without a word.
Exact(entries) == Sift(entries, ImpactReq)

\* load_impact_manifest and _parse_req: so does the manifest file when it is
\* parsed, and a blank pin there is no pin.
FileSpecs(entries) ==
  LET reqs == Exact(entries)
  IN [j \in DOMAIN reqs |-> IF reqs[j].pin = BLANK THEN [reqs[j] EXCEPT !.pin = NONE]
                            ELSE reqs[j]]

\* KgManifestSource.specs: rows without a node id are dropped, all others are
\* taken as they are, and a blank pin is one that no file satisfies.
KgSpecs(rows) == Sift(rows, Entry \ {NAMELESS})

Specs(source, entries) ==
  IF source = "KgManifestSource" THEN KgSpecs(entries) ELSE FileSpecs(entries)

\* {r.node_id: r.sha256 for r in required if r.sha256 is not None}: of two
\* entries for one node id the later one stays.
PinnedAt(reqs, f) ==
  {j \in DOMAIN reqs : reqs[j] # MALFORMED /\ reqs[j].file = f /\ reqs[j].pin # NONE}

Pinned(reqs) ==
  [f \in {g \in Files : PinnedAt(reqs, g) # {}} |->
     reqs[CHOOSE j \in PinnedAt(reqs, f) : \A k \in PinnedAt(reqs, f) : k <= j].pin]

-------------------------------------------------------------------------------
\* The tree.

Trees == {t \in [Paths -> UNION {CanHold[p] : p \in Paths}] :
            \A p \in Paths : t[p] \in CanHold[p]}

Missing == [collected |-> "absent", passes |-> 0, failed |-> FALSE]

\* What pytest reports of file f in tree t.
Report(t, f) == IF t[f] = ABSENT THEN Missing ELSE Outcome[<<t[f], t[SUPPORT]>>]

-------------------------------------------------------------------------------
\* pytest, by its exit code.  Whether it ends with 2 or with 4 over an error
\* that keeps a file from being collected is not told apart.

Declared(reqs) == {reqs[j].file : j \in DOMAIN reqs}

FaultyCollectable(t, reqs) ==   \* fault: collects the whole tree, not rel_files
  IF \E f \in Files : Report(t, f).collected = "error"
  THEN {}
  ELSE {f \in Files : Report(t, f).collected = "id"}

\* pytest_collector: a declared path that is missing, or one that cannot be
\* collected, fails the whole collection.  A parametrized test is not listed
\* under the node id that a manifest gives it.
Collectable(t, reqs) ==
  LET fs == Declared(reqs)
  IN IF \E f \in fs : Report(t, f).collected \in {"absent", "error"}
     THEN {}
     ELSE {f \in fs : Report(t, f).collected = "id"}

\* The passes that pytest counts when it is given ids: so many of each file, or
\* of each occurrence.
PassesOfFiles(t, ids) ==
  UNION {{f} \X (1 .. Report(t, f).passes) : f \in {ids[j] : j \in DOMAIN ids}}
PassesOfIds(t, ids) ==
  UNION {{j} \X (1 .. Report(t, ids[j]).passes) : j \in DOMAIN ids}
Passed(t, ids, once) ==
  Cardinality(IF once THEN PassesOfFiles(t, ids) ELSE PassesOfIds(t, ids))

FaultyIdRunnerCode(t, ids, once) ==   \* fault: pytest's own exit code is believed
  LET report(j) == Report(t, ids[j])
  IN IF ids = <<>> THEN 5
     ELSE IF \E j \in DOMAIN ids : report(j).collected \in {"absent", "nothing"} THEN 4
     ELSE IF \E j \in DOMAIN ids : report(j).collected = "error" THEN 2
     ELSE IF \E j \in DOMAIN ids : report(j).failed THEN 1
     ELSE 0

\* pytest_id_runner on exactly the matched node ids: 0 only if pytest exits 0
\* and counts at least as many passes as there are ids - in total, so that a test
\* which has become parametrized may make up for one that is skipped.  Whether an
\* id named twice runs twice depends on the pytest release; `once` is that choice.
IdRunnerCode(t, ids, once) ==
  LET report(j) == Report(t, ids[j])
  IN IF ids = <<>> THEN 5
     ELSE IF \E j \in DOMAIN ids : report(j).collected \in {"absent", "nothing"} THEN 4
     ELSE IF \E j \in DOMAIN ids : report(j).collected = "error" THEN 2
     ELSE IF \E j \in DOMAIN ids : report(j).failed THEN 1
     ELSE IF Passed(t, ids, once) < Len(ids) THEN 1
     ELSE 0

\* pytest_runner on whatever is under the target: a skipped test does no harm.
BareCode(t) ==
  IF \E f \in Files : Report(t, f).collected = "error" THEN 2
  ELSE IF \E f \in Files : Report(t, f).failed THEN 1
  ELSE IF \E f \in Files : Report(t, f).collected \in {"id", "variants"} THEN 0
  ELSE 5

-------------------------------------------------------------------------------
\* Receipts.

\* build_gate_receipt.  The run context (target, runner, timestamps, versions)
\* and the reason are left out.
BuildGateReceipt(k, result, reqs, evidence, error) ==
  [kind |-> k.kind, source |-> k.source,
   from |-> result.from, to |-> result.to, verdict |-> result.verdict,
   gate_version |-> result.gate_version,
   mandated |-> [j \in DOMAIN reqs |->
                   IF reqs[j] = MALFORMED THEN MALFORMED ELSE reqs[j].file],
   pinned |-> Pinned(reqs),
   matched |-> evidence.matched,
   observed |-> evidence.observed,
   exit |-> evidence.exit,
   error |-> error]

NoEvidence == [matched |-> <<>>, observed |-> EmptyDict, exit |-> NONE]

\* GateReceipt.audit_key: what a replay compares.
AuditKey(r) ==
  <<r.from, r.to, r.verdict, r.kind, r.source, r.mandated, r.pinned, r.observed, r.exit, r.error>>

-------------------------------------------------------------------------------
\* The gate process.

Init ==
  /\ tree \in Trees
  /\ edits = 0
  /\ pc = "idle"
  /\ call = NONE
  /\ started = 0
  /\ required = <<>>
  /\ collected = {}
  /\ matched = <<>>
  /\ observed = EmptyDict
  /\ code = NONE
  /\ ran = EmptyDict
  /\ log = <<>>

\* The locals of a call are gone when it ends.
Leave ==
  /\ pc' = "idle"
  /\ call' = NONE
  /\ started' = 0
  /\ required' = <<>>
  /\ collected' = {}
  /\ matched' = <<>>
  /\ observed' = EmptyDict
  /\ code' = NONE
  /\ ran' = EmptyDict

\* A call returns: the log keeps its receipt, with the history that the receipt
\* does not show.
Return(receipt, k, begun, reqs, contents) ==
  /\ Leave
  /\ log' = Append(log, [receipt |-> receipt, call |-> k, required |-> reqs,
                         start |-> begun, end |-> edits, tree |-> tree,
                         ran |-> contents])

\* An exception leaves the gate: no result, no receipt.
Raise ==
  /\ Leave
  /\ UNCHANGED log

Ready == pc = "idle" /\ Len(log) < MaxCalls

\* A transition outside MEASURABLE_TRANSITIONS, compared as spelled, FAILs
\* before the source or pytest is asked.
RefuseUnmeasurable(k) ==
  /\ Ready
  /\ k.kind # "asserted"
  /\ ~IsMeasurable(k.from, k.to)
  /\ Return(BuildGateReceipt(k, Result(k.from, k.to, "FAIL", UNKNOWN),
                             <<>>, NoEvidence, NONE),
            k, edits, <<>>, EmptyDict)
  /\ UNCHANGED <<tree, edits>>

\* The unmeasured gate of the CLI: the caller's word for the precondition.
EvaluateAsserted(k) ==
  LET result == EvaluateTransition(k.from, k.to, k.met, k.conditional, k.skipped)
  IN /\ Ready
     /\ k.kind = "asserted"
     /\ result.verdict \notin Raised
     /\ Return(BuildGateReceipt(k, result, <<>>, NoEvidence, NONE),
               k, edits, <<>>, EmptyDict)
     /\ UNCHANGED <<tree, edits>>

BeginMeasured(k) ==
  /\ Ready
  /\ k.kind # "asserted"
  /\ IsMeasurable(k.from, k.to)
  /\ pc' = IF k.kind = "measured-bare" THEN "bare" ELSE "specs"
  /\ call' = k
  /\ started' = edits
  /\ UNCHANGED <<tree, edits, required, collected, matched, observed, code, ran, log>>

FaultyUnevaluable(error) ==   \* fault: the half-finished evidence goes on the receipt
  /\ Return(BuildGateReceipt(call, Result(call.from, call.to, "ERROR", UNKNOWN),
                             required, [matched |-> matched, observed |-> observed,
                                        exit |-> code], error),
            call, started, required, EmptyDict)
  /\ UNCHANGED <<tree, edits>>

\* source.specs() or the measurement raised: ERROR, and a receipt that says
\* so and nothing else.
Unevaluable(error) ==
  /\ Return(BuildGateReceipt(call, Result(call.from, call.to, "ERROR", UNKNOWN),
                             <<>>, NoEvidence, error),
            call, started, required, EmptyDict)
  /\ UNCHANGED <<tree, edits>>

SourceFails == pc = "specs" /\ Unevaluable("source")
MeasurementFails == pc \in {"collect", "run"} /\ Unevaluable("measurement")

FaultyLoadSpecs(m) ==   \* fault: nothing mandated, and no exit code to say so
  /\ pc = "specs"
  /\ required' = Specs(call.source, m)
  /\ pc' = IF Exact(required') = <<>> THEN "decide" ELSE "collect"
  /\ UNCHANGED <<tree, edits, call, started, collected, matched, observed, code, ran, log>>

\* measure_mandated stops at once when nothing is mandated.
LoadSpecs(m) ==
  /\ pc = "specs"
  /\ required' = Specs(call.source, m)
  /\ IF Exact(required') = <<>>
     THEN pc' = "decide" /\ code' = 4
     ELSE pc' = "collect" /\ UNCHANGED code
  /\ UNCHANGED <<tree, edits, call, started, collected, matched, observed, ran, log>>

Collect ==
  /\ pc = "collect"
  /\ collected' = Collectable(tree, Exact(required))
  /\ pc' = "verify"
  /\ UNCHANGED <<tree, edits, call, started, required, matched, observed, code, ran, log>>

\* The next requirement of measure_mandated's loop, and its candidates.
Req == Exact(required)[Len(matched) + 1]
Hits == SuffixOf[Req.file] \cap collected

\* measure_mandated returns early with exit code c.
Stop(c) ==
  /\ pc' = "decide"
  /\ code' = c
  /\ UNCHANGED matched

Match(f) ==
  /\ matched' = Append(matched, f)
  /\ pc' = IF Len(matched) + 1 = Len(Exact(required)) THEN "run" ELSE "verify"
  /\ UNCHANGED code

\* More than one candidate is ambiguous (7), none is missing (5).
VerifyUnbound ==
  /\ pc = "verify"
  /\ \/ Cardinality(Hits) > 1 /\ Stop(7)
     \/ Hits = {} /\ Stop(5)
  /\ UNCHANGED <<tree, edits, call, started, required, collected, observed, ran, log>>

FaultyVerifyBound(f) ==   \* fault: a mismatch is recorded and the loop goes on
  /\ pc = "verify"
  /\ Hits = {f}
  /\ IF Req.pin = NONE
     THEN Match(f) /\ UNCHANGED observed
     ELSE IF tree[f] = ABSENT
     THEN Stop(6) /\ UNCHANGED observed
     ELSE Match(f) /\ observed' = Put(observed, Req.file, tree[f])
  /\ UNCHANGED <<tree, edits, call, started, required, collected, ran, log>>

\* A single candidate matches if it carries no pin, or hashes to its pin now.
VerifyBound(f) ==
  /\ pc = "verify"
  /\ Hits = {f}
  /\ IF Req.pin = NONE
     THEN Match(f) /\ UNCHANGED observed
     ELSE IF tree[f] = ABSENT
     THEN Stop(6) /\ UNCHANGED observed
     ELSE /\ observed' = Put(observed, Req.file, tree[f])
          /\ IF tree[f] = Req.pin THEN Match(f) ELSE Stop(6)
  /\ UNCHANGED <<tree, edits, call, started, required, collected, ran, log>>

RunMandated(once) ==
  /\ pc = "run"
  /\ code' = IdRunnerCode(tree, matched, once)
  /\ ran' = [p \in {matched[j] : j \in DOMAIN matched} \cup {SUPPORT} |-> tree[p]]
  /\ pc' = "decide"
  /\ UNCHANGED <<tree, edits, call, started, required, collected, matched, observed, log>>

RunBare ==
  /\ pc = "bare"
  /\ code' = BareCode(tree)
  /\ pc' = "decide"
  /\ UNCHANGED <<tree, edits, call, started, required, collected, matched, observed, ran, log>>

\* The bare path has no try: whatever pytest_runner raises comes out.
BareFails ==
  /\ pc = "bare"
  /\ Raise
  /\ UNCHANGED <<tree, edits>>

\* evaluate_transition runs after the measurement, outside its try.
Decide ==
  LET result == EvaluateTransition(call.from, call.to, code = 0,
                                   call.conditional, call.skipped)
      evidence == [matched |-> matched, observed |-> observed, exit |-> code]
  IN /\ pc = "decide"
     /\ IF result.verdict \in Raised
        THEN Raise
        ELSE Return(BuildGateReceipt(call, result, required, evidence, NONE),
                    call, started, required, ran)
     /\ UNCHANGED <<tree, edits>>

\* Somebody saves or removes a test file, or changes what the tests rest on.
Edit(p, x) ==
  /\ edits < MaxEdits
  /\ tree[p] # x
  /\ tree' = [tree EXCEPT ![p] = x]
  /\ edits' = edits + 1
  /\ UNCHANGED <<pc, call_vars, log>>

GateStep ==
  \/ SourceFails
  \/ MeasurementFails
  \/ \E m \in Manifests : LoadSpecs(m)
  \/ Collect
  \/ VerifyUnbound
  \/ \E f \in Files : VerifyBound(f)
  \/ \E once \in BOOLEAN : RunMandated(once)
  \/ RunBare
  \/ BareFails
  \/ Decide

Next ==
  \/ \E k \in Calls : RefuseUnmeasurable(k) \/ EvaluateAsserted(k) \/ BeginMeasured(k)
  \/ GateStep
  \/ \E p \in Paths : \E x \in CanHold[p] : Edit(p, x)

Spec == Init /\ [][Next]_vars
-------------------------------------------------------------------------------
(***************************************************************************)
(* Properties.  Each is about every finished call of the log.              *)
(***************************************************************************)

Finished == {log[n] : n \in DOMAIN log}

TypeOK ==
  /\ tree \in Trees
  /\ edits \in 0 .. MaxEdits
  /\ pc \in {"idle", "specs", "collect", "verify", "run", "bare", "decide"}
  /\ call \in Calls \cup {NONE}
  /\ started \in 0 .. edits
  /\ required \in Seq(Entry \ {NAMELESS})
  /\ collected \subseteq Files
  /\ matched \in Seq(Files)
  /\ DOMAIN observed \subseteq Files
  /\ code \in IF pc = "decide" THEN Nat ELSE {NONE}

MandatedPass(e) ==
  e.receipt.kind = "measured-mandated" /\ CanAdvance(e.receipt.verdict)

Earned(e) ==
  LET r == e.receipt
      reqs == Exact(e.required)
      report(j) == Report(e.ran, r.matched[j])
  IN /\ reqs # <<>>
     /\ DOMAIN r.matched = DOMAIN reqs
     /\ \A j \in DOMAIN reqs :
          /\ r.matched[j] \in SuffixOf[reqs[j].file]
          /\ reqs[j].pin # NONE => reqs[j].file \in DOMAIN r.observed
          /\ report(j).collected \in {"id", "variants"} /\ ~report(j).failed
     /\ \/ \A j \in DOMAIN reqs : report(j).passes = 1
        \/ \E j \in DOMAIN reqs : report(j).passes > 1
     /\ \A f \in DOMAIN r.observed :
          \E j \in DOMAIN reqs : reqs[j] = [file |-> f, pin |-> r.observed[f]]

\* A PASS of the mandated gate is earned: something was mandated, every node id
\* was bound to a file that satisfies it, every pin was compared with a hash and
\* agreed, no bound test was gone or failed when it was run, and each of them
\* passed, unless one had become parametrized after the collection and passed
\* more than once - although the bindings, the hashes and the run are read from
\* the tree at different times.
PassIsEarned == \A e \in Finished : MandatedPass(e) => Earned(e)

\* Every pinned requirement ran with the content it pins.
RanPins(e) ==
  \A j \in DOMAIN Exact(e.required) :
    LET req == Exact(e.required)[j]
    IN req.pin # NONE => e.ran[e.receipt.matched[j]] = req.pin

\* When nobody touched the tree during the call, what ran is what was pinned:
\* the hash taken before the run speaks for the run.
UndisturbedPassRanPins ==
  \A e \in Finished : MandatedPass(e) /\ e.start = e.end => RanPins(e)

\* The same without the proviso, as ImpactSpec words it: "met only if EVERY
\* required test is collected under the target, its sha256 matches (when
\* pinned), and the set runs green".
PassRanPins ==
  \A e \in Finished : MandatedPass(e) => RanPins(e)

\* "EVERY required test": as many files were bound and run as the receipt says
\* were mandated.
PassRanAllMandated ==
  \A e \in Finished :
    MandatedPass(e) => Len(e.receipt.matched) = Len(e.receipt.mandated)

ErrorOrEvidence(e) ==
  LET r == e.receipt
      unmeasured == r.kind = "asserted" \/ ~IsMeasurable(e.call.from, e.call.to)
  IN /\ r.verdict = "ERROR" <=> r.error # NONE
     /\ r.verdict = "ERROR" \/ unmeasured <=> r.exit = NONE
     /\ r.exit = NONE => r.matched = <<>> /\ DOMAIN r.observed = {}
     /\ r.exit # NONE /\ r.verdict \in {"PASS", "CONDITIONAL"} => r.exit = 0

\* ERROR and an evaluated verdict never mix: an ERROR receipt names its error
\* and carries no evidence, every other measured receipt carries an exit code
\* (unless the transition was refused unmeasured) that explains its verdict.
ErrorXorEvidence == \A e \in Finished : ErrorOrEvidence(e)

\* The measurement as one look at a tree: something is required, what is declared
\* can be collected, and each requirement has one candidate among it, which is
\* as pinned and passes.
AllGreen(t, reqs) ==
  LET importable == {f \in Declared(reqs) : Report(t, f).collected \notin {"absent", "error"}}
      candidates(j) ==
        {f \in importable \cap SuffixOf[reqs[j].file] : Report(t, f).collected = "id"}
  IN /\ reqs # <<>>
     /\ importable = Declared(reqs)
     /\ \A j \in DOMAIN reqs : \E f \in Files :
          /\ candidates(j) = {f}
          /\ reqs[j].pin \in {NONE, t[f]}
          /\ Report(t, f).passes = 1 /\ ~Report(t, f).failed

\* "An unrelated broken/WIP file elsewhere in the tree must not poison the gate",
\* nor a skip, a sibling or a drifted file slip through it: if nobody touched the
\* tree during a mandated measurement, its exit code is 0 exactly if the declared
\* files, with what they are run beside, are all green.  (A file to which two
\* requirements are bound may count as one pass: see IdRunnerCode.)
Exactly(e) ==
  LET green == AllGreen(e.tree, Exact(e.required))
      bound == e.receipt.matched
      distinct == \A i, j \in DOMAIN bound : i # j => bound[i] # bound[j]
  IN /\ e.receipt.exit = 0 => green
     /\ green /\ distinct => e.receipt.exit = 0

UndisturbedIsExact ==
  \A e \in Finished :
    e.call.kind = "measured-mandated" /\ e.receipt.exit # NONE /\ e.start = e.end
      => Exactly(e)
===============================================================================
