-------------------------------- MODULE Replay --------------------------------
(***************************************************************************)
(* replay.py: verify_replay on the receipts that MeasuredGate leaves.  It  *)
(* re-derives a decision from the receipt's own record and from a checkout *)
(* - here the tree, which goes on being edited after the gate has run -    *)
(* without running pytest.  The properties ask when a receipt replays, for *)
(* every receipt of the log and every tree that may follow it.             *)
(***************************************************************************)
EXTENDS MeasuredGate

ASSUME NoneIsNoSet == \A verdicts \in SUBSET Verdicts : NONE # verdicts

\* The MismatchKinds of a structurally sound receipt.
MismatchKinds ==
  {"missing_test_file", "sha256_drift", "verdict_inconsistent", "audit_key_mismatch"}

FaultyReObserved(r, t) ==   \* fault: an unreadable file keeps its recorded sha
  [f \in DOMAIN r.observed |-> IF t[f] = ABSENT THEN r.observed[f] ELSE t[f]]

\* _recheck_shas against a checkout t: only node ids with a recorded sha are
\* looked at, each at the path it declares.  t is what the base directory holds,
\* whichever _base_dir chose.
ReObserved(r, t) ==
  LET readable == {f \in DOMAIN r.observed : t[f] # ABSENT}
  IN [f \in readable |-> t[f]]

ShaMismatches(r, t) ==
  {kind \in {"missing_test_file", "sha256_drift"} :
     \E f \in DOMAIN r.observed :
       IF kind = "missing_test_file"
       THEN t[f] = ABSENT
       ELSE t[f] # ABSENT /\ t[f] # r.observed[f]}

\* _consistent_verdicts.  The caller's flags are not on the receipt, so every
\* admissible combination is tried; NONE is Python's None: nothing to check.
FlagCombos == {<<FALSE, FALSE>>, <<TRUE, FALSE>>, <<FALSE, TRUE>>}

FaultyConsistentVerdicts(r) ==   \* fault: only the call without flags is tried
  IF r.error # NONE THEN {"ERROR"}
  ELSE IF r.kind = "asserted" THEN NONE
  ELSE {EvaluateTransition(r.from, r.to, r.exit = 0, FALSE, FALSE).verdict} \ Raised

ConsistentVerdicts(r) ==
  IF r.error # NONE THEN {"ERROR"}
  ELSE IF r.kind = "asserted" THEN NONE
  ELSE {EvaluateTransition(r.from, r.to, r.exit = 0, fl[1], fl[2]).verdict :
          fl \in FlagCombos} \ Raised

FaultyRepresentativeVerdict(r) == r.verdict   \* fault: always the stored one

\* _representative_verdict: what the fingerprint is recomputed with.
RepresentativeVerdict(r) ==
  LET baseline == EvaluateTransition(r.from, r.to, r.exit = 0, FALSE, FALSE).verdict
  IN IF r.error # NONE THEN "ERROR"
     ELSE IF r.kind = "asserted" \/ r.verdict \in ConsistentVerdicts(r) THEN r.verdict
     ELSE IF baseline \in Raised THEN "ERROR"
     ELSE baseline

\* _rebuild_receipt
Rebuild(r, t) ==
  [r EXCEPT !.verdict = RepresentativeVerdict(r), !.observed = ReObserved(r, t)]

\* verify_replay: the kinds of mismatch found; replay_verified iff there are none.
VerifyReplay(r, t) ==
  LET verdicts == ConsistentVerdicts(r)
      unexplained == verdicts # NONE /\ r.verdict \notin verdicts
      diverges == AuditKey(Rebuild(r, t)) # AuditKey(r)
  IN ShaMismatches(r, t)
       \cup (IF unexplained THEN {"verdict_inconsistent"} ELSE {})
       \cup (IF diverges THEN {"audit_key_mismatch"} ELSE {})

-------------------------------------------------------------------------------
\* Structural validation, before any of the above.

(***************************************************************************)
(* The JSON document that verify_replay_file is given: a receipt as        *)
(* to_json wrote it (no field differs), or a copy in which one field is    *)
(* missing or has a value of another type.  For schema_version, "str" is   *)
(* another version.  What cannot be parsed is left to GateSession.         *)
(***************************************************************************)
Document(r, field, type) == [body |-> r, field |-> field, type |-> type]

\* _REQUIRED_FIELDS and _OPTIONAL_TYPED_FIELDS.  To isinstance a bool is an int.
RequiredFields ==
  [schema_version |-> {"str"}, from_phase |-> {"str"}, to_phase |-> {"str"},
   verdict |-> {"str"}, gate_kind |-> {"str"},
   mandated_node_ids |-> {"list"}, matched_node_ids |-> {"list"},
   sha256_pinned |-> {"dict"}, sha256_observed |-> {"dict"},
   pytest_exit_code |-> {"int", "bool", "null"}, error |-> {"str", "null"}]
OptionalTypedFields == [target |-> {"str", "null"}]

FaultyMalformedOptional(doc) ==   \* fault: what may be absent is not looked at
  /\ doc.field \in DOMAIN RequiredFields
  /\ \/ doc.type \notin RequiredFields[doc.field]
     \/ doc.field = "pytest_exit_code" /\ doc.type = "bool"

Malformed(doc) ==
  \/ /\ doc.field \in DOMAIN RequiredFields
     /\ \/ doc.type \notin RequiredFields[doc.field]
        \/ doc.field = "pytest_exit_code" /\ doc.type = "bool"
  \/ /\ doc.field \in DOMAIN OptionalTypedFields
     /\ doc.type \notin OptionalTypedFields[doc.field] \cup {"absent"}

StructuralMismatches(doc) ==
  {kind \in {"unsupported_schema_version", "malformed_receipt"} :
     IF kind = "malformed_receipt" THEN Malformed(doc) ELSE doc.field = "schema_version"}

\* What the operations after the validation can take: data[...] of a field that
\* is there, tuple(), dict(), strip() of a phase, the hash of the verdict, Path().
\* The fields that are only displayed go through str() or are passed on.
Operable(doc) ==
  CASE doc.field \in {"from_phase", "to_phase", "schema_version"} -> doc.type = "str"
    [] doc.field \in {"mandated_node_ids", "matched_node_ids"} ->
         doc.type \in {"list", "dict", "str"}
    [] doc.field \in {"sha256_pinned", "sha256_observed"} -> doc.type = "dict"
    [] doc.field = "verdict" -> doc.type \notin {"list", "dict", "absent"}
    [] doc.field \in {"gate_kind", "pytest_exit_code"} -> doc.type # "absent"
    [] doc.field = "target" -> doc.type \in {"str", "null", "absent"}
    [] OTHER -> TRUE

-------------------------------------------------------------------------------
(***************************************************************************)
(* Properties.                                                             *)
(***************************************************************************)

Receipts == {e.receipt : e \in Finished}

KnownPhases(r) == PhaseByName(r.from) # UNKNOWN /\ PhaseByName(r.to) # UNKNOWN

\* A receipt the gate wrote replays exactly as long as every file it recorded
\* a hash for still has that content at its declared path - not less often
\* (no genuine verdict is ever called inconsistent) and not more often.  A
\* phase that phase_by_name does not know never replays.
ReplaysIffUnchanged ==
  \A r \in Receipts :
    VerifyReplay(r, tree) = {} <=>
      KnownPhases(r) /\ \A f \in DOMAIN r.observed : tree[f] = r.observed[f]

\* "the reliable verdict guarantee is the FAIL<->PASS (exit-code-pinned)
\* inconsistency, plus the phase-structural and ERROR/error cross-checks":
\* a measured receipt whose verdict was changed between FAIL and PASS, or to
\* or from ERROR, is refused on two counts, whatever the checkout.
Contradicts(v, w) ==
  \/ {v, w} = {"FAIL", "PASS"}
  \/ v # w /\ "ERROR" \in {v, w}

ChangedVerdictRefused ==
  \A r \in Receipts, v \in Verdicts :
    r.kind # "asserted" /\ KnownPhases(r) /\ Contradicts(r.verdict, v) =>
      {"verdict_inconsistent", "audit_key_mismatch"}
        \subseteq VerifyReplay([r EXCEPT !.verdict = v], tree)

\* _recheck_shas: a missing or drifted file is left out of, or changed in, the
\* re-observed hashes "so the recomputed audit_key also diverges".
DriftChangesFingerprint ==
  \A r \in Receipts :
    ShaMismatches(r, tree) # {} => "audit_key_mismatch" \in VerifyReplay(r, tree)
===============================================================================
