----------------------------- MODULE MCBreakerGate -----------------------------
(***************************************************************************)
(* A small instance of BreakerGate: one call of each kind the guarded gate *)
(* treats differently, and one that goes round the breaker.                *)
(***************************************************************************)
EXTENDS BreakerGate

Gate(from, to, flag) ==
  [from |-> from, to |-> to, conditional |-> flag \in {"conditional", "both"},
   skipped |-> flag \in {"skip", "both"}, guarded |-> flag # "unguarded"]

CallShapes ==
  {Gate("SCW", "MetaReview", "plain"), Gate("SCW", "MetaReview", "both"),
   Gate("SCW", "MetaReview", "unguarded"), Gate("SA", "SP", "plain")}
===============================================================================
