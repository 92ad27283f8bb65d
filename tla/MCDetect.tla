------------------------------- MODULE MCDetect -------------------------------
\* Each phase may be asserted; the other lines are the near misses of the tests.
EXTENDS Detect

L(subject, status, negation) ==
  [subject |-> subject, status |-> status, negation |-> negation]

FewLines ==
  {L(p, TRUE, "none") : p \in Positions \ {3}} \cup
  {L(3, TRUE, "after status"),   \* "ST complete, no blockers"
   L(4, TRUE, "before status")}  \* "SCW not complete"
===============================================================================
