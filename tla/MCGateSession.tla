----------------------------- MODULE MCGateSession -----------------------------
(***************************************************************************)
(* A small instance of GateSession on the files of MCMeasuredGate.  A copy *)
(* of a receipt may lack or mistype any field the verifier reads.          *)
(***************************************************************************)
EXTENDS GateSession, MCMeasuredGate

FieldDefects ==
  {<<field, "absent">> : field \in DOMAIN RequiredFields}
    \cup {<<field, "dict">> : field \in {"from_phase", "to_phase", "verdict", "gate_kind",
                                        "mandated_node_ids", "pytest_exit_code"}}
    \cup {<<"schema_version", "str">>, <<"matched_node_ids", "int">>,
          <<"sha256_pinned", "list">>, <<"sha256_observed", "str">>, <<"error", "int">>,
          <<"pytest_exit_code", "bool">>,
          <<"target", "list">>, <<"target", "absent">>}

\* Flags that exclude each other are an error on the command line and an
\* exception in a tool call; the second bare call FAILs at once.
SessionCalls ==
  {Mandated("plain"),
   Gate("measured-bare", "SCW", "MetaReview", "both"),
   Gate("measured-bare", "SA", "Nowhere", "plain"),
   Gate("asserted", "SP", "Nowhere", "met")}

\* A session does not look at why a test does not pass.
SessionHoldings ==
  [p \in Paths |-> IF p = SUPPORT THEN {"plain"} ELSE {"green", "other", ABSENT}]

SessionManifests ==
  {<<Req1("top", "green")>>, <<Req1("unit", "green"), Req1("top", "green")>>}
===============================================================================
