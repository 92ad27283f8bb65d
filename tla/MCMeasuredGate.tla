---------------------------- MODULE MCMeasuredGate ----------------------------
(***************************************************************************)
(* A small instance of MeasuredGate.  "top" is test_x.py and "unit" is     *)
(* tests/unit/test_x.py: the basename is a path suffix of the other, so a  *)
(* requirement on it can be ambiguous, or be met by its sibling.  "solo"   *)
(* is another test, so that a manifest can require two that differ.        *)
(***************************************************************************)
EXTENDS MeasuredGate

Suffixes == [f \in Files |-> IF f = "top" THEN {"top", "unit"} ELSE {f}]

\* Contents are named for what pytest makes of them; "twice" is parametrized.  A
\* conftest.py may be harmless ("plain"), rewrite a failure to a pass ("hook"), or
\* raise ("crash").
Holdings ==
  [p \in Paths |->
     CASE p = SUPPORT -> {"plain", "hook", "crash"}
       [] p = "unit" -> {"green", "red", "skip", "twice", "other", "syntax", ABSENT}
       [] p = "top" -> {"green", "red", "other", "syntax", ABSENT}
       [] p = "solo" -> {"green", "skip", "twice"}]

Reported(how, passes, failed) == [collected |-> how, passes |-> passes, failed |-> failed]

ContentReport ==
  [o \in Contents \X CanHold[SUPPORT] |->
     CASE o[2] = "crash" \/ o[1] = "syntax" -> Reported("error", 0, FALSE)
       [] o = <<"red", "plain">> -> Reported("id", 0, TRUE)
       [] o[1] = "green" \/ o = <<"red", "hook">> -> Reported("id", 1, FALSE)
       [] o[1] = "skip" /\ o[2] # "crash" -> Reported("id", 0, FALSE)
       [] o[1] = "twice" /\ o[2] # "crash" -> Reported("variants", 2, FALSE)
       [] o[1] = "other" /\ o[2] # "crash" -> Reported("nothing", 0, FALSE)]

Gate(kind, from, to, flag) ==
  [kind |-> kind,
   source |-> IF kind # "measured-mandated" THEN ""
              ELSE IF flag = "kg" THEN "KgManifestSource" ELSE "FileManifestSource",
   from |-> from, to |-> to, met |-> flag = "met",
   conditional |-> flag \in {"conditional", "both"},
   skipped |-> flag \in {"skip", "both"}]

Mandated(flag) == Gate("measured-mandated", "SCW", "MetaReview", flag)

\* One call of every shape the gate treats differently.
CallShapes ==
  {Mandated("plain"), Mandated("conditional"), Mandated("skip"), Mandated("both"),
   Mandated("kg"),
   Gate("measured-mandated", "scw", "MetaReview", "plain"),
   Gate("measured-bare", "SCW", "MetaReview", "plain"),
   Gate("measured-bare", "SA", "Nowhere", "plain"),
   Gate("asserted", "SP", "ST", "met"),
   Gate("asserted", "SP", "Nowhere", "met")}

Req1(f, p) == [file |-> f, pin |-> p]

\* Nothing mandated; a pin; a pin and a name; a blank pin; both siblings pinned
\* alike; one node id twice with different pins.
ManifestShapes ==
  {<<>>, <<MALFORMED>>,
   <<Req1("unit", "green")>>,
   <<Req1("solo", "green"), MALFORMED, NAMELESS, Req1("unit", NONE)>>,
   <<Req1("solo", BLANK), Req1("unit", NONE)>>,
   <<Req1("unit", "green"), Req1("top", "green")>>,
   <<Req1("unit", "green"), Req1("unit", "red")>>}
===============================================================================
