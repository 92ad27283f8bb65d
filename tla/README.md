# TLA+ models of apt-engine

apt-engine decides whether a project may advance from one phase of the APT
lifecycle to the next. The decision is a small pure function; what makes the
engine hard is around it: a precondition that is *measured* by running tests
from a tree that somebody else is editing, a receipt that is to be verified
later on another tree, the processes that print verdicts and leave receipts
while they may be killed, and a circuit breaker that several threads or machines
share through a key-value store. These models are about that part.

Paths below are relative to `src/apt_engine/` in the repository.

## 1. Inventory

| Part (source) | State it keeps | Operations | Talks to | What is hard |
|---|---|---|---|---|
| Phase chain (`phases.py`), algebra (`gate.py`) | none | `phase_by_name`, `next_phase`, `is_self_application`, `evaluate_transition`, `can_advance` | called by every gate | order of precedence; two exceptions |
| Measured gate (`precondition.py`) | none of its own; reads a manifest, the tree under `target`, and pytest's exit codes | bare and mandated measurement, with and without receipt | `gate`, a `ManifestSource`, pytest subprocesses, `receipt` | collection, hashes and the run read the tree at different times; each step may raise; no timeout |
| Receipt (`receipt.py`) | one immutable record | `build_gate_receipt`, `audit_key` | written by the CLI, read by `replay` | the fingerprint must not depend on what does not matter |
| Replay (`replay.py`) | none; reads a receipt and a later tree | `verify_replay_file`, `verify_replay` | `gate.evaluate_transition`, `receipt` | caller flags are not recorded; tree drift; receipts that are torn, damaged or being overwritten |
| Circuit breaker (`contrib/circuit_breaker.py`) | three keys in a `KVStore`: state, fail_count, opened_at | `check`, `record_success`, `record_failure` | the store (redis, or an `InMemoryStore` shared by threads), a clock | no lock, several writes per method, crashes between them, late outcomes, clocks of several machines or of one that was rebooted |
| Guarded gate (`contrib/breaker_gate.py`) | none | `guarded_measured_gate` | breaker, measured gate | which verdict counts as an outage; exceptions; outcomes out of order |
| KG manifest source (`contrib/kg_manifest.py`) | a connection | `specs` | the KG; raises `ValueError` on any failure | hands over rows unparsed, and so treats blank pins and odd node ids otherwise than the file source |
| Detector (`detect.py`) | none; reads two files | `detect_phase` | CLI, MCP | files vanish between test and read; confidently wrong answers |
| Overrides (`contrib/gate_override.py`) | one immutable record | `make_override`, `override_allows` | the caller | expiry |
| Enforcement (`contrib/gate_policy.py`) | none | `enforce` | the caller | combination with an open circuit |
| Config resolver (`contrib/resolver/`) | a TTL cache | `fetch`, `check_drift`, `render` | neo4j | overlapping fetches, slow or failing queries |
| CLI (`cli.py`), MCP (`frontends/mcp_server.py`) | a receipt file | one command per gate | all of the above | verdict printed before the receipt is written |
| Legion, phase map, OPA client, ooptdd adapter | none | lookups; one HTTP request | | nothing changes state |

What makes the parts correct:

- **Breaker**: it is the three-state machine of its docstring; its keys agree;
  it never refuses for ever, and it heals when the source does.
- **Guarded gate**: trips on repeated ERRORs and on nothing else.
- **Measured gate**: a PASS is earned - what was mandated was bound, hashed to its
  pins and run without a failure; left alone, the measurement is exact; a failure
  to evaluate is never mistaken for a verdict.
- **Receipt and replay**: a receipt replays exactly while the files it hashed are
  unchanged, and a damaged one is answered with a no.
- **Command line**: exit code 0 means a PASS, and a whole receipt where one was
  asked for, whatever happened before.
- **Config resolver**: what is served is not older than the cache may keep it.

The hazards, each at its source line, are listed in `PROJECT.json`.

## 2. Modules

```
BreakerFSM            the machine of the docstring (abstract)
   ^ refinement
CircuitBreaker        one action per method, many callers
   ^ refinement (one caller)          ^ its actions are used by
BreakerStore          one action       BreakerGate  ---- EXTENDS ----> PhaseGate
                      per KVStore      guarded_measured_gate              ^ EXTENDS
                      access                                           MeasuredGate
                                                                          ^ EXTENDS
Detect  ---- EXTENDS ---->  PhaseGate                                  Replay
                                                                          ^ EXTENDS
ConfigResolver                                                         GateSession
```

The eight `...Proofs` modules extend the modules of those names with theorems:
all but `BreakerFSM` and `PhaseGate`, which are definitions the others use. They
are stacked where the models are: `GateSessionProofs` extends `ReplayProofs`,
which extends `MeasuredGateProofs`; `BreakerStoreProofs` takes an instance of
`CircuitBreakerProofs`.

`MCBreakerGate`, `MCMeasuredGate`, `MCReplay`, `MCGateSession` and `MCDetect`
give the constants their values.
Operators named `Faulty...` are plausible mistakes in the definition they
precede; no specification uses them. They show that each property notices one.

**BreakerFSM** is a requirement, not a translation: the three arrows of the
docstring with the time since the circuit opened. `LateOutcomes` adds what the
docstring does not speak of, the outcome of a request that was allowed before
the circuit opened and ends after.

**CircuitBreaker** has the three keys as variables and, for each caller, whether
a request it was allowed is running. `CheckAllows`, `CheckOpen` and
`CheckRefuses` are the branches of `check()`; `RecordSuccess` and
`RecordFailure` are the two methods; `Abandon` is a request that raised or whose
process died. `fail_count` and the elapsed time saturate at the values the code
compares them with, so the unbounded counters are exact as far as the code can
tell.

**BreakerStore** splits the methods at their store accesses, with a local
variable `seen` for the `opened_at` that `check()` has read, and a source whose
availability decides the outcome of a request. `store` is chosen at the start.
Over "redis" an increment and a deletion of keys are one step, callers are
processes on machines whose clocks differ (`lead`), a crash loses the caller's
place, and a reboot may set its clock back. Over "memory" callers are threads of
one process with one clock: `Incr` reads and `IncrWrite` writes, `delete` pops
one key after the other, and a crash empties the store.

**BreakerGate** is `guarded_measured_gate`: `Admit` or `Refuse` (`check()`),
`Evaluate` or `GateRaises` (the measured gate comes back or raises), `Record`.
The breaker's actions are those of CircuitBreaker. `PassThrough` is
`breaker=None`. `Lose` is a caller whose evaluation hangs for ever (pytest has no
timeout) or whose process dies. Measurement is reduced to reachable or not, met
or not.

**PhaseGate** holds the pure definitions. Exceptions are results in `Raised`.

**MeasuredGate** is one gate process. A mandated call goes through
`LoadSpecs` (the source; the manifest entries), `Collect` (`pytest --co`),
`VerifyUnbound`/`VerifyBound` (one requirement of the loop each, with its hash),
`RunMandated` and `Decide` (`evaluate_transition`, outside the try);
`SourceFails` and `MeasurementFails` are the exceptions the code turns into
ERROR. `FileSpecs` and `KgSpecs` are the two manifest sources: the first drops
what is no exact node id and takes a blank pin for none, the second drops only
rows without a node id. `Edit` changes the tree between any two of them. `log` keeps each receipt
with history variables that the receipt does not have (when the call began and
ended, what really ran). A test file is a path and a content; a content is its
own sha256; `SuffixOf` is `_node_id_matches`. What else a run executes - the
`conftest.py` of the target, helper modules, the code under test - is one more path
of the tree, `SUPPORT`, that no manifest declares and no hash covers, as the
comment at `precondition.py:466` warns. `Outcome` says what pytest reports of a
content beside a support: collected under its node id, or as the variants of a
parametrized test, or not at all, or an error; how many passes it counts; and
whether anything fails. `IdRunnerCode` adds the passes up as `pytest_id_runner`
does, over all ids together. Two things are assumed of pytest: its reports
depend on nothing but the file and the support (no flaky tests), and the count it
prints is believed, as the code believes it. Which of its two exit codes for an
error of collection it uses is not told apart.

**Replay** defines `verify_replay` as operators over a receipt and a tree, and
states its properties over every receipt of the log and the current tree. It looks
at the paths that the requirements declare: a pin that was met by a sibling
(`SuffixOf`) does not replay even on the tree it was measured in. One tree stands
for the checkout, so the choice of the directory (`_base_dir`) is left out: a copy
that has lost its `target` is resolved against the working directory unless
`--checkout` is given, and the model takes that to be the same tree. A
`Document` is a receipt of which one field may be missing or have another type;
`Malformed` and `StructuralMismatches` are the validation, and `Operable` is what
the operations behind it can take without raising.

**GateSession** puts processes around MeasuredGate. A gate command (`way`
"receipt" or "plain") or tool call ("mcp") is launched, evaluated with
MeasuredGate's own steps, prints (`PrintVerdict`), opens the receipt file, which
truncates it (`Open`), writes it (`Write`) and exits. `UsageError`,
`AssertedRaises`, `WriteFails` and `Kill` are the ways it may end early; the next
command finds the file as the last one left it. A verification runs beside it:
`ReadReceipt` takes what the file holds, `ReadCopy` a copy with a defect,
`ReadUndecodable` one that is no UTF-8; `Recheck` hashes one test file, and
`Conclude` answers. `TORN` is a file that is empty or cut short.

**ConfigResolver** is `CypherConfigSource.fetch` for threads that share one
source: `Begin` (the clock), `Look` (the cache is fresh or not), `ReturnCached`
(the cache again), `Query` or `QueryFindsNothing` or `DriverRaises`, `Store`.
The properties of the node are numbered by the edit that made them; `until` and
`begun` are history.

**Detect** is `detect_phase`, one action per look at the disk: `RejectPath` or
`StatProgress` (the path, `is_file()`), `StatSpans` or `NoArtifacts`,
`ReadProgress`, and `ReadSpans` with the rest of the function, which is pure.
Between them `WriteLine` adds to apt-progress.md, and `DiskChanges` makes either
file, or the directory, appear, vanish or become unreadable. A line is what the
regular expressions see in it: its subject, whether it has a status word, and
where a negation stands. `before`, `hidden` and `furthest` are history; the code
has nothing like them.

## 3. Runs

| Run | Checks | Instance | Shows |
|---|---|---|---|
| `breaker` | types, `StoreConsistent`, `FailedTrialReopens`, `ImplementsMachine`, `OpenEnds` | 3 callers, 3 failures, 30 units | the breaker with atomic methods is the documented machine plus late outcomes |
| `breaker_store_sequential` | `ImplementsAtomic`, `ImplementsDocstring` | 1 caller, either store | store accesses in sequence amount to atomic methods |
| `breaker_store_races` | types, `OpenEnds`, `SelfHeals`, `OutageTrips` | 2 callers, either store, 3 failures, 2 units, clocks 1 unit apart, 1 crash | whatever races, clocks and a crash leave behind is recovered from, and a lasting outage still trips |
| `breaker_store_trial` (violation) | `TrialFailureReopens` | 2 callers | a failed trial need not reopen the circuit |
| `guarded` | types, `TrippedIffRepeatedErrors`, `OutageTrips`, `RecoveryCloses` | 2 callers, one of which may be lost, 4 kinds of call | the breaker hears what it should |
| `guarded_reach` (violation) | `EvaluatedMeansReachable` | same | a refusal of an unmeasurable transition counts as a healthy source |
| `measured` | types, `PassIsEarned`, `UndisturbedPassRanPins`, `UndisturbedIsExact`, `ErrorXorEvidence`, `ReplaysIffUnchanged`, `ChangedVerdictRefused`, `DriftChangesFingerprint` | 1 call of 10 kinds, 7 manifests, 3 files, 6 contents, 3 supports, 2 edits | what a PASS and a receipt guarantee, when the exit code is exact, and on which trees the receipt replays |
| `measured_toctou` (violation) | `PassRanPins` | same | an edit between hash and run goes unnoticed |
| `measured_loose` (violation) | `PassRanAllMandated` | same | KG entries without `::` are dropped |
| `session` | types, `ExitZeroIsBacked`, `DamagedIsRefused`, `VerifiesIffAsRecorded` | 2 commands or tool calls of 4 kinds, 2 manifests, 2 files that are green, without the test or gone, 1 edit, 25 defects | what exit code 0, a receipt file and a verification are worth among kills, disk errors, overwritten files and damage |
| `config_cache` | types, `BoundedStaleness` | 2 threads, TTL of 2 in 5 units, 2 edits | how old a returned configuration can be |
| `detect` | types, `NamesThePhase`, `ConfidentMeansLinear`, `ReportsNeverGoBack`, `AnswersSettle` | 7 lines, any order | what is reported fits the text, in spite of leaps, gaps and files that come and go |

**Bounds.** In the breaker nothing but the number of callers is bounded: the
interesting races need one caller inside `check()` and one that records, and a
third to have more outcomes in flight than are needed. `MaxCrashes` bounds the
process deaths of `BreakerStore`; one is enough to leave any half-written state
behind, and the healing starts from there. `MaxLead` bounds how far the clocks of
the machines are apart; one unit out of an open duration of two makes elapsed
times negative, short and long. The threshold of 3 leaves room for a lost count
that does not hide the next one; `guarded` does with 2, the smallest for which a lower
count exists that does not trip. `MaxLost` bounds the lost callers of
`BreakerGate`; if all were lost nobody would ask any more, and one of two is the
case that matters. In `MeasuredGate` the path of one file is a suffix of
another's, so requirements can be met, missed, ambiguous, or met by the wrong
file; a third file holds another test, so that a manifest can mandate two of which
one is skipped and the other counts twice. The contents are the ways pytest can
see a file: passing, failing, skipped, parametrized, without the test, broken. A
`conftest.py` does nothing, turns a failure into a pass, or raises. Every file may
be broken, declared or not. `MaxCalls` and `MaxEdits` bound the log and the edits.
One edit suffices to come between any two reads, a second one restores the file,
which is how a checker that looks twice would be misled. `GateSession` needs two
calls, so that one finds what the other left; one edit lets a verification see a
tree that is no longer the gate's, or that changes while it looks. Its calls are one of every way to end: with a verdict from
pytest, with a FAIL at once, with an exception from the algebra, with a usage
error. Every field the verifier reads is missing or mistyped in some defect; one
defect at a time, since the validation looks at each field by itself. In
`ConfigResolver` the clock is bounded, at more than twice the TTL, so an entry
can be made, expire and be replaced; two edits make a version that comes and goes
within a slow query. In `Detect` the lines are the only bound: six assert a phase
each, in whatever order, one of them with a negation behind the status word, and
the seventh denies one. Lines are added and never taken back, one at a time;
calls do not overlap; both are assumptions on the environment, and an editor that
truncates the file first is outside them.

**Deadlock** is not checked for the gate, its replays, the sessions and the
configuration cache, where the log is full, or the clock and the edits are used
up, at the end; everywhere else it is.

**Fairness.** The breaker's users are asked for three things: time passes, a
request that was allowed ends (somehow: success, failure, or nothing recorded),
and whoever uses the breaker asks again. The first is the clock; the third is the
meaning of a loop that uses a breaker; the second is not
asked of a caller that is lost, for pytest has no timeout: `guarded` shows that
the others do without it, and the theorems need no fairness at all. No fairness is
assumed of the source, of outcomes or of crashes. `OutageTrips` and
`RecoveryCloses` say in their premise what they need of the source and of the
calls. The detector is a program that is run again and again: weak
fairness of its steps, none of the files.

## 4. Proofs

`CircuitBreakerProofs` proves for every set of callers, every positive threshold
and every duration:

- `TypeCorrect`: `TypeOK`.
- `KeysAgree`: `StoreConsistent` - the circuit is tripped iff the counter stands
  at the threshold iff the time of opening is known. It is inductive together
  with the types, and is the fact that everything else rests on: `check()` keeps
  count and time when it starts a trial, so that the next failure reopens.
- `FailureReopens`: the action property of the same name as in the run.
- `BreakerIsMachine`: the step simulation of BreakerFSM with late outcomes, one
  step of the proof per action. Without `StoreConsistent` a corrupt reset would
  have to be matched, and a failed trial could not be.
- `SingleCallerIsDocstring`: with one caller nothing is in flight while the
  circuit is OPEN (`NoneLate`, inductive for one caller), so no step needs a
  late outcome and the breaker is exactly the documented machine.

The assumptions are those of `CircuitBreaker`: a positive threshold, a duration
that is a natural number, and a value for "no key" that is none of the others.

`BreakerGateProofs` proves for every set of callers and of calls, every positive
threshold and every duration:

- `TypesHold`: `TypeOK`.
- `TripsOnRepeatedErrors`: `TrippedIffRepeatedErrors`. The invariant `IInv` adds
  the agreement of the breaker's keys, and `CountsTrailingErrors`: the counter is
  the number of ERRORs at the end of the window of verdicts. The property itself
  speaks of a full window only and is not inductive: it must be known what a
  shorter run of ERRORs has counted. `FailureCounted` is the lemma for the
  verdict that pushes the oldest out of the window.

The assumptions are those of the breaker, and a natural `MaxLost`.

`ConfigResolverProofs` proves for every set of threads, every positive TTL and
every bound on the clock and the edits:

- `TypesHold`: `TypeOK`, inductive by itself.
- `StalenessBounded`: `BoundedStaleness`. It speaks of answers only, so the
  invariant `IInv` follows what is answered back to the query: `CacheSound` and
  `StoreSound` say that properties asked for were current at their stamp or
  later; `Overlap` that of two fetches in flight each knows (in `begun`) a time
  no later than the other's beginning; `HitSound` that the entry which a thread
  is about to return, having found an entry fresh, is fresh itself or was asked
  for by a fetch that overlaps. A `Store` between `Look` and `ReturnCached` keeps
  `HitSound` because of `Overlap`: this is where the bound is more than the TTL.

The assumptions are a positive TTL, natural bounds, and values for "nothing" and
"no node" that are no version, nor the former a cache entry.

`BreakerStoreProofs` proves, with the same assumptions on the constants (and
natural bounds on leads and crashes):

- `TypeCorrect`: `TypeOK`, for any callers, interleaving, crashes and clocks. What
  a caller holds depends on where it is (`Holds`): a reading of a clock before
  `clock` and `stamp`, a count before `incr_write`.
- `AloneIsAtomic` and `AloneIsDocstring`: `ImplementsAtomic` and
  `ImplementsDocstring`, under the hypothesis `Alone(only)`: one caller, one clock,
  no crash. Two callers do race (`breaker_store_trial`), so some such hypothesis
  is needed; that of the run `breaker_store_sequential` is the same. The invariant
  `Held` says which store accesses have happened by each label and what the keys
  were before, so that each step of the store maps to a step of `CircuitBreaker`
  or to none. `AloneIsDocstring` composes it with the step lemmas of
  `CircuitBreakerProofs`, taken at the mapped state.

`MeasuredGateProofs` proves for all files, contents, suffixes, manifests, calls
and bounds:

- `TypeCorrect`, `PassesAreEarned`, `UndisturbedPassesRanPins`,
  `ErrorsCarryNoEvidence`: `TypeOK` and three properties of the log. They
  speak of finished calls; the invariant `IInv` says what a call holds on the
  way. `Progress`: which part of the evidence exists at which label. `Bound`: the
  matched prefix satisfies its requirements. `Hashed`: what has been hashed is
  pinned so. `Undisturbed`: if no edit has happened since the call began, the
  tree still has the pinned contents - the link between hash and run that an edit
  breaks (`measured_toctou`). `Green`: what exit code 0 means. `Entries`: each
  receipt is one of the four that the code can build.

  What a total of passes tells is the lemma `TooFewPasses`: if no bound test
  passes more than once and one does not pass, the total falls short of the
  number of ids, whether pytest runs an id named twice once or twice. Hence
  `PassIsEarned` ends in an alternative: each passed, *or* some test passed more
  than once. The second case is real (section 5) and only an edit after the
  collection leads to it, for a parametrized test is not collected under the id
  that a manifest gives it.
- `UndisturbedCallsAreExact`: `UndisturbedIsExact`. A second layer, `Repeatable`,
  says how an undisturbed call has come to its exit code (`MeasuredIn`: bound up to
  some requirement and stopped there, or all bound and run). `MeasuredIsExact`
  compares that with one look at the tree, `AllGreen`: exit code 0 means that the
  declared files can be collected, that each requirement has exactly one candidate
  among them, as pinned, and that it passes; and a tree that is so gives 0. The
  second half asks that no two requirements are bound to one file, for what pytest
  counts then depends on its release. What is not declared enters only as
  `SUPPORT`: a broken file elsewhere does no harm, a broken `conftest.py` does, and
  one that rewrites outcomes is believed - the trust boundary of
  `precondition.py:466`.

`ReplayProofs` proves the three properties of `Replay`. Everything about a receipt
that a replay looks at is collected in `Genuine` and shown for each of the four
ways to a receipt; `ReplayOfGenuine` then says on which checkouts a genuine
receipt replays, for any checkout, not only the present tree.

`GateSessionProofs` proves for any number of commands, kills, failing writes and
edits:

- `ExitZeroIsAlwaysBacked` and `SessionTypeCorrect`: the invariant `Process` says
  what has been printed and written by each stage, and that it is the last
  receipt's.
- `VerificationsAreExact`: `VerifiesIffAsRecorded`. `Verification` says that the
  hashes taken so far are the tree's if nobody has edited since the receipt was
  read; the rest is `ReplayOfGenuine`, at the files as they were seen.
- `DamageIsAlwaysRefused`: `DamagedIsRefused`, by comparing the two tables of
  `replay.py` with the types that `receipt.py` writes (`WrittenTypes`).
- `SessionsKeepTheGate`: the properties of `MeasuredGate`, for processes that may be
  killed between any two steps. A kill leaves the gate as an exception does.

`DetectProofs` proves `TypeCorrect`, `PhasesAreNamed`, `ConfidenceIsLinear` and
`AnswersNeverGoBack` for every set of lines. `Call` says how the phases marked
when the call began reach what it has read; `Past` that lines, and so markers, are
never lost, and that the last named phase is the furthest. `ReportSays` and
`AnswerKeeps` are about the pure rest of the function: what it names, given a
set of markers between those two.

Assumptions on constants are named where they are declared: Python's `None` is
none of the numbers, contents, error words or field names it is compared with,
a manifest is a finite list of entries, pytest reports something of every content
beside every support, and at most one pass of a test that it collects under its
node id (`GateConstants`); `None` is no set of verdicts (`NoneIsNoSet`); a defect takes a
field away or gives it a type that `to_json` never writes there
(`SessionConstants`); a line is made of what the regular expressions see in it
(`DetectConstants`).

Every invariant and every safety property that a passing run checks is a theorem.
Only model-checked is liveness, which needs fairness and ENABLED, out of the
prover's reach: `OpenEnds`, `SelfHeals`, `OutageTrips`, `RecoveryCloses`,
`AnswersSettle`; and of course the four disagreements, which are runs. So that
the measured gate can be proved about, `Sift` states what a Python list
comprehension with a condition keeps by the rank of an element instead of by
recursion.

## 5. Disagreements met

Listed with their lines in `PROJECT.json`: a failed trial that does not reopen
the circuit when store accesses interleave; a refusal that counts as a healthy
source; hashes taken before the run; mandated entries that are dropped; and,
without a run of their own, a total of passes in which a test that has become
parametrized covers for one that is skipped (`pytest_id_runner` promises that the
tests "RAN and passed"; `PassIsEarned` says what is left of that), an exception that leaves `verify_replay_file` for a receipt that is
not UTF-8 (`ReadUndecodable` in `GateSession`, which `DamagedIsRefused` therefore
does not speak of), and a drift detector that never sees the numbers 7, 8 and 9.

What is no disagreement but worth knowing: a red test whose `conftest.py` rewrites
outcomes PASSes, as the code says itself; a receipt whose pin was met by a sibling
of the declared path never replays; `BoundedStaleness` allows more than
the TTL when fetches overlap, because the cache has no lock and is read again
after it was found fresh; and the receipt file is truncated before it is
written, so that a verification that comes between is refused although the gate
has printed PASS.

## 6. Not modelled, and the plan

Left out for good: pytest and subprocess isolation (external), HTTP and bolt
clients, OPA, the constant tables of `legion.py` and `phase_map.py`, text
processing (drift detection, rendering, the regular expressions of the
detector), `scripts/`, the ooptdd adapter.

Overrides (`gate_override.py`) and enforcement (`gate_policy.py`) are pure
functions that nothing in the repository calls: ADR-0002 rejects a composition
root for them. A model would have to invent the caller, and its properties could
only repeat the three guards of `override_allows` and the three rows of
`enforce`. The one trap there, a permanent expiry without a time zone compared
with a `now` that has one, is a matter of argument types; it is among the hazards.

What proofs could still add: for several callers of `BreakerStore`, which of the
agreements of the keys survive which races (its disagreements are known, its
safety is only typed); for `BreakerGate`, that it implements the machine of
`BreakerFSM` with late outcomes as `CircuitBreaker` does; and the safety halves
of the liveness properties, such as that every label of `BreakerStore` and of
`Detect` leaves a caller a step to take.
