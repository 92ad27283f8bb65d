------------------------------- MODULE PhaseGate -------------------------------
(***************************************************************************)
(* phases.py and gate.py: the canonical chain of phases, the resolution of *)
(* a phase name, and the pure transition algebra that every gate path      *)
(* ends in; and, from precondition.py, which transitions can be measured.  *)
(* There is no state here.                                                 *)
(***************************************************************************)
EXTENDS Naturals, Sequences

\* Every verdict of gate.py, and the two ways evaluate_transition raises.
Verdicts == {"PASS", "FAIL", "SKIP", "CONDITIONAL", "ERROR"}
Raised == {"ValueError", "KeyError"}

CHAIN == <<"SA", "SP", "ST", "SCW", "MetaReview", "Cleanup">>
Positions == 1 .. Len(CHAIN)
UNKNOWN == 0

\* phase_by_name: the position a spelling resolves to.  Case and surrounding
\* blanks do not matter; the lower-case spellings stand for all of them.
PhaseByName(name) ==
  CASE name \in {"SA", "sa"} -> 1
    [] name \in {"SP", "sp"} -> 2
    [] name \in {"ST", "st"} -> 3
    [] name \in {"SCW", "scw"} -> 4
    [] name \in {"MetaReview", "metareview", "Meta-Review", "Meta Review"} -> 5
    [] name \in {"Cleanup", "cleanup", "Phase 6"} -> 6
    [] OTHER -> UNKNOWN

SelfApplicationForbidden == {5}

NextPhase(p) == p + 1   \* Len(CHAIN) + 1, no phase, after the last one

IsSelfApplication(src, dst) == src = dst /\ dst \in SelfApplicationForbidden

\* A GateResult.  gate_version names the destination whose canonical version
\* string a FAIL carries; reasons are left out.
Result(from, to, verdict, gate_version) ==
  [from |-> from, to |-> to, verdict |-> verdict, gate_version |-> gate_version]

\* MEASURABLE_TRANSITIONS holds exact spellings; no alias is measurable.
IsMeasurable(from, to) == <<from, to>> \in {<<"SCW", "MetaReview">>}

CanAdvance(verdict) == verdict = "PASS"

\* evaluate_transition, in its order of precedence.
EvaluateTransition(from, to, met, conditional, skipped) ==
  LET src == PhaseByName(from)
      dst == PhaseByName(to)
      known == src # UNKNOWN /\ dst # UNKNOWN
      gives(verdict, version) == Result(CHAIN[src], CHAIN[dst], verdict, version)
  IN IF conditional /\ skipped THEN Result(from, to, "ValueError", UNKNOWN)
     ELSE IF ~known THEN Result(from, to, "KeyError", UNKNOWN)
     ELSE IF IsSelfApplication(src, dst) THEN gives("FAIL", dst)
     ELSE IF dst # NextPhase(src) THEN gives("FAIL", dst)
     ELSE IF skipped THEN gives("SKIP", UNKNOWN)
     ELSE IF ~met THEN gives("FAIL", dst)
     ELSE IF conditional THEN gives("CONDITIONAL", UNKNOWN)
     ELSE gives("PASS", UNKNOWN)

================================================================================
