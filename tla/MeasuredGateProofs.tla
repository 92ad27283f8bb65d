-------------------------- MODULE MeasuredGateProofs --------------------------
(***************************************************************************)
(* Theorems of MeasuredGate: what a PASS of the measured gate guarantees,  *)
(* for every set of files, every manifest and any number of edits between  *)
(* the reads of a call.                                                    *)
(*                                                                         *)
(* Two invariants are layered.  IInv follows a call from one read of the   *)
(* tree to the next: what has been bound, hashed and run so far, and what  *)
(* of it an undisturbed tree still shows.  Repeatable, which rests on      *)
(* IInv, says how a call that no edit disturbs must have come to its exit  *)
(* code; the exit code is then compared with the tree as a whole.          *)
(***************************************************************************)
EXTENDS MeasuredGate, FiniteSetTheorems, FunctionTheorems, TLAPS

Reqs == Exact(required)

\* How far the call has come, and what it holds by then.
Progress ==
  /\ pc # "idle" =>
       call \in Calls /\ call.kind # "asserted" /\ IsMeasurable(call.from, call.to)
  /\ pc \in {"specs", "collect", "verify", "run"} => call.kind = "measured-mandated"
  /\ pc = "bare" => call.kind = "measured-bare"
  /\ pc \in {"idle", "specs", "bare", "collect"} => matched = <<>> /\ DOMAIN observed = {}
  /\ pc \in {"collect", "verify", "run"} => Reqs # <<>>
  /\ pc = "verify" => Len(matched) < Len(Reqs)
  /\ pc = "run" => Len(matched) = Len(Reqs)

\* Every file matched so far satisfies its requirement, ...
Bound ==
  \A j \in DOMAIN matched :
    /\ j \in DOMAIN Reqs
    /\ matched[j] \in SuffixOf[Reqs[j].file]
    /\ Reqs[j].pin # NONE => Reqs[j].file \in DOMAIN observed

\* ... every hash recorded so far is a pin of the manifest, ...
Hashed ==
  /\ observed \in [DOMAIN observed -> Contents]
  /\ pc \in {"verify", "run"} \/ (pc = "decide" /\ code = 0) =>
       \A f \in DOMAIN observed :
         \E j \in DOMAIN Reqs : Reqs[j] = [file |-> f, pin |-> observed[f]]

\* ... and the tree still agrees with those pins if nobody has touched it.
Undisturbed ==
  pc \in {"verify", "run"} /\ edits = started =>
    \A j \in DOMAIN matched : Reqs[j].pin # NONE => tree[matched[j]] = Reqs[j].pin

\* A run of the bound files in which none is gone and none fails, and which counts
\* as many passes as there are files: each passed, unless one did more than once.
Clean(t, ids) ==
  /\ \A j \in DOMAIN ids :
       Report(t, ids[j]).collected \in {"id", "variants"} /\ ~Report(t, ids[j]).failed
  /\ \/ \A j \in DOMAIN ids : Report(t, ids[j]).passes = 1
     \/ \E j \in DOMAIN ids : Report(t, ids[j]).passes > 1

\* Exit code 0 of the mandated measurement: all of it was bound, and run cleanly.
Green ==
  pc = "decide" /\ code = 0 /\ call.kind = "measured-mandated" =>
    /\ Reqs # <<>>
    /\ DOMAIN matched = DOMAIN Reqs
    /\ Clean(ran, matched)
    /\ \A j \in DOMAIN Reqs :
         edits = started /\ Reqs[j].pin # NONE => ran[matched[j]] = Reqs[j].pin

\* PreconditionEvidence, as the receipt keeps it.
Evidence == [matched : Seq(Files), observed : UNION {[D -> Contents] : D \in SUBSET Files},
             exit : Nat]

\* The four ways a call leaves a receipt.
Refused(e) ==
  /\ e.call.kind # "asserted"
  /\ ~IsMeasurable(e.call.from, e.call.to)
  /\ e.receipt = BuildGateReceipt(e.call, Result(e.call.from, e.call.to, "FAIL", UNKNOWN),
                                  <<>>, NoEvidence, NONE)

Asserted(e) ==
  LET result == EvaluateTransition(e.call.from, e.call.to, e.call.met,
                                   e.call.conditional, e.call.skipped)
  IN /\ e.call.kind = "asserted"
     /\ result.verdict \notin Raised
     /\ e.receipt = BuildGateReceipt(e.call, result, <<>>, NoEvidence, NONE)

Unevaluated(e) ==
  /\ e.call.kind # "asserted"
  /\ IsMeasurable(e.call.from, e.call.to)
  /\ \E error \in {"source", "measurement"} :
       e.receipt = BuildGateReceipt(e.call, Result(e.call.from, e.call.to, "ERROR", UNKNOWN),
                                    <<>>, NoEvidence, error)

Decided(e) ==
  /\ e.call.kind # "asserted"
  /\ IsMeasurable(e.call.from, e.call.to)
  /\ \E evidence \in Evidence :
       LET result == EvaluateTransition(e.call.from, e.call.to, evidence.exit = 0,
                                        e.call.conditional, e.call.skipped)
       IN /\ result.verdict \notin Raised
          /\ e.receipt = BuildGateReceipt(e.call, result, e.required, evidence, NONE)

FromACall(e) ==
  /\ e.call \in Calls
  /\ Refused(e) \/ Asserted(e) \/ Unevaluated(e) \/ Decided(e)

Entries ==
  /\ log \in Seq(Finished)
  /\ \A e \in Finished :
       /\ FromACall(e)
       /\ MandatedPass(e) => Earned(e)
       /\ MandatedPass(e) /\ e.start = e.end => RanPins(e)

IInv == TypeOK /\ Progress /\ Bound /\ Hashed /\ Undisturbed /\ Green /\ Entries
-------------------------------------------------------------------------------
\* The position of i among the elements of K.
Rank(K, i) == Cardinality({k \in K : k <= i})

\* Every position in a finite set of numbers is taken.
LEMMA RankOnto ==
  ASSUME NEW K, K \subseteq Nat, IsFiniteSet(K)
  PROVE  /\ Cardinality(K) \in Nat
         /\ \A n \in 1 .. Cardinality(K) : \E i \in K : Rank(K, i) = n
<1> DEFINE upto(i) == {k \in K : k <= i}
<1> DEFINE rank == [i \in K |-> Rank(K, i)]
<1>1. Cardinality(K) \in Nat
  BY FS_CardinalityType
<1>2. \A i \in K : IsFiniteSet(upto(i)) /\ Cardinality(upto(i)) \in 1 .. Cardinality(K)
  <2> SUFFICES ASSUME NEW i \in K PROVE IsFiniteSet(upto(i)) /\ Cardinality(upto(i)) \in 1 .. Cardinality(K)
    OBVIOUS
  <2>1. IsFiniteSet(upto(i)) /\ Cardinality(upto(i)) <= Cardinality(K) /\ Cardinality(upto(i)) \in Nat
    <3>1. upto(i) \subseteq K OBVIOUS
    <3> QED BY <3>1, FS_Subset, FS_CardinalityType
  <2>2. i \in upto(i) OBVIOUS
  <2>3. Cardinality(upto(i)) # 0
    BY <2>1, <2>2, FS_EmptySet
  <2> QED BY <1>1, <2>1, <2>3
<1>3. ASSUME NEW i \in K, NEW j \in K, i < j PROVE Rank(K, i) # Rank(K, j)
  <2> i \in Nat /\ j \in Nat
    OBVIOUS
  <2>1. \A k \in Nat : k <= i => k <= j
    BY <1>3
  <2>2. j <= j /\ ~(j <= i)
    BY <1>3
  <2>3. upto(i) \subseteq upto(j) /\ j \in upto(j) /\ j \notin upto(i)
    BY <2>1, <2>2
  <2> QED
    BY <2>3, <1>2, FS_Subset DEF Rank
<1>4. rank \in Injection(K, 1 .. Cardinality(K))
  <2>1. rank \in [K -> 1 .. Cardinality(K)]
    BY <1>2 DEF Rank
  <2>2. \A i, j \in K : rank[i] = rank[j] => i = j
    BY <1>3
  <2> QED BY <2>1, <2>2, Fun_IsInj
<1>5. IsFiniteSet(1 .. Cardinality(K)) /\ Cardinality(1 .. Cardinality(K)) = Cardinality(K)
  BY <1>1, FS_Interval
<1>6. rank \in Surjection(K, 1 .. Cardinality(K))
  <2> HIDE DEF rank
  <2> QED BY <1>4, <1>5, FS_Injection
<1>7. \A n \in 1 .. Cardinality(K) : \E i \in K : rank[i] = n
  <2> HIDE DEF rank
  <2> QED BY <1>6, Fun_SurjectionProperties
<1> QED BY <1>1, <1>7

\* What a list comprehension keeps are elements of the list that pass its test.
LEMMA SiftType ==
  ASSUME NEW X, NEW s \in Seq(X), NEW S
  PROVE  Sift(s, S) \in Seq(X \cap S)
<1> DEFINE kept == {i \in DOMAIN s : s[i] \in S}
           nth(n) == CHOOSE i \in kept : Cardinality({k \in kept : k <= i}) = n
<1>1. kept \subseteq Nat /\ IsFiniteSet(kept)
  <2>1. IsFiniteSet(1 .. Len(s)) BY FS_Interval
  <2>2. kept \subseteq 1 .. Len(s) OBVIOUS
  <2> QED BY <2>1, <2>2, FS_Subset
<1>2. /\ Cardinality(kept) \in Nat
      /\ \A n \in 1 .. Cardinality(kept) : \E i \in kept : Rank(kept, i) = n
  <2> HIDE DEF kept
  <2> QED BY <1>1, RankOnto
<1>3. \A n \in 1 .. Cardinality(kept) : nth(n) \in kept
  <2> HIDE DEF kept
  <2> QED BY <1>2 DEF Rank
<1>4. \A n \in 1 .. Cardinality(kept) : s[nth(n)] \in X \cap S
  <2> HIDE DEF nth
  <2> QED BY <1>3
<1> HIDE DEF nth
<1>5. [n \in 1 .. Cardinality(kept) |-> s[nth(n)]] \in Seq(X \cap S)
  <2> HIDE DEF kept
  <2> QED BY <1>2, <1>4
<1> QED BY <1>5 DEF Sift, nth

\* One pass of each makes as many passes.
LEMMA OneOfEach ==
  ASSUME NEW S, IsFiniteSet(S)
  PROVE  IsFiniteSet(S \X {1}) /\ Cardinality(S \X {1}) = Cardinality(S)
<1>1. IsFiniteSet({1}) /\ Cardinality({1}) = 1
  BY FS_Singleton
<1>2. /\ IsFiniteSet(S \X {1})
      /\ Cardinality(S \X {1}) = Cardinality(S) * Cardinality({1})
  BY <1>1, FS_Product
<1>3. ASSUME NEW n \in Nat PROVE n * 1 = n
  OBVIOUS
<1>4. Cardinality(S) * 1 = Cardinality(S)
  BY <1>3, FS_CardinalityType
<1> QED BY <1>1, <1>2, <1>4

\* Appending to the log adds one finished call.
LEMMA FinishedGrows ==
  ASSUME NEW X, log \in Seq(X), NEW e, log' = Append(log, e)
  PROVE  Finished' = Finished \cup {e}
BY DEF Finished

USE GateConstants

\* measure_mandated is left with requirements that are node ids.
LEMMA ExactType ==
  ASSUME NEW s \in Seq(Entry)
  PROVE  Exact(s) \in Seq(ImpactReq)
<1>1. Exact(s) \in Seq(Entry \cap ImpactReq)
  BY SiftType DEF Exact
<1>2. Entry \cap ImpactReq = ImpactReq
  BY DEF Entry
<1> QED BY <1>1, <1>2

\* Whichever source the manifest has, the requirements it yields are entries with a name.
LEMMA SpecsType ==
  ASSUME NEW source, NEW m \in Manifests
  PROVE  Specs(source, m) \in Seq(Entry \ {NAMELESS})
<1>1. m \in Seq(Entry)
  OBVIOUS
<1>2. KgSpecs(m) \in Seq(Entry \ {NAMELESS})
  <2>1. KgSpecs(m) \in Seq(Entry \cap (Entry \ {NAMELESS}))
    BY <1>1, SiftType DEF KgSpecs
  <2>2. Entry \cap (Entry \ {NAMELESS}) = Entry \ {NAMELESS}
    OBVIOUS
  <2> QED BY <2>1, <2>2
<1>3. FileSpecs(m) \in Seq(Entry \ {NAMELESS})
  <2>1. Exact(m) \in Seq(ImpactReq)
    BY <1>1, ExactType
  <2>2. \A e \in ImpactReq : e \in Entry \ {NAMELESS}
    BY DEF Entry
  <2>3. \A e \in ImpactReq : [e EXCEPT !.pin = NONE] \in ImpactReq
    BY DEF ImpactReq
  <2>4. Exact(m) \in [DOMAIN Exact(m) -> ImpactReq] /\ DOMAIN Exact(m) = 1 .. Len(Exact(m))
    BY <2>1
  <2>5. \A j \in DOMAIN Exact(m) : FileSpecs(m)[j] \in Entry \ {NAMELESS}
    BY <2>2, <2>3, <2>4 DEF FileSpecs
  <2>6. DOMAIN FileSpecs(m) = DOMAIN Exact(m) /\ FileSpecs(m) = [j \in DOMAIN Exact(m) |-> FileSpecs(m)[j]]
    BY DEF FileSpecs
  <2>7. Len(Exact(m)) \in Nat
    BY <2>1
  <2> QED BY <2>4, <2>5, <2>6, <2>7
<1> QED BY <1>2, <1>3 DEF Specs

\* evaluate_transition never says ERROR, and advances only a met precondition.
LEMMA EvaluateVerdict ==
  ASSUME NEW from, NEW to, NEW met \in BOOLEAN,
         NEW conditional \in BOOLEAN, NEW skipped \in BOOLEAN
  PROVE  LET v == EvaluateTransition(from, to, met, conditional, skipped).verdict
         IN /\ v \in (Verdicts \ {"ERROR"}) \cup Raised
            /\ v \in {"PASS", "CONDITIONAL"} => met
BY DEF EvaluateTransition, Result, Verdicts, Raised

\* Trees are typed.
LEMMA TreeType ==
  ASSUME NEW t \in Trees
  PROVE  /\ \A p \in Paths : t[p] \in CanHold[p]
         /\ \A f \in Files : t[f] \in Contents \cup {ABSENT}
<1>1. \A p \in Paths : t[p] \in CanHold[p]
  BY DEF Trees
<1>2. \A f \in Files : f \in Paths /\ CanHold[f] \subseteq Contents \cup {ABSENT}
  BY DEF Paths, Contents
<1> QED BY <1>1, <1>2

\* What pytest may report of a file, and what it means that it does.
LEMMA ReportType ==
  ASSUME NEW t \in Trees, NEW f \in Files
  PROVE  /\ Report(t, f) \in Reports
         /\ Report(t, f).collected = "absent" <=> t[f] = ABSENT
         /\ Report(t, f).collected = "id" => Report(t, f).passes <= 1
<1>1. t[f] \in Contents \cup {ABSENT} /\ t[SUPPORT] \in CanHold[SUPPORT]
  BY TreeType DEF Paths
<1>2. CASE t[f] = ABSENT
  BY <1>2 DEF Report, Missing, Reports
<1>3. CASE t[f] # ABSENT
  <2> DEFINE o == <<t[f], t[SUPPORT]>>
  <2>1. o \in Contents \X CanHold[SUPPORT]
    BY <1>1, <1>3
  <2>2. Report(t, f) = Outcome[o]
    BY <1>3 DEF Report
  <2>3. /\ Outcome[o] \in Reports
        /\ Outcome[o].collected # "absent"
        /\ Outcome[o].collected = "id" => Outcome[o].passes <= 1
    <3> HIDE DEF o
    <3> QED BY <2>1
  <2> QED BY <1>3, <2>2, <2>3
<1> QED BY <1>2, <1>3

\* If no id reports more than one pass, and one of them none, then fewer passes are
\* counted than there are ids, whichever way they are counted.
LEMMA TooFewPasses ==
  ASSUME NEW t \in Trees, NEW ids \in Seq(Files), NEW once \in BOOLEAN,
         \A j \in DOMAIN ids : Report(t, ids[j]).passes <= 1,
         NEW i \in DOMAIN ids, Report(t, ids[i]).passes = 0
  PROVE  Passed(t, ids, once) < Len(ids)
<1> DEFINE D == DOMAIN ids
           fs == {ids[j] : j \in D}
<1>1. D = 1 .. Len(ids) /\ Len(ids) \in Nat /\ IsFiniteSet(D) /\ Cardinality(D) = Len(ids)
  <2>1. D = 1 .. Len(ids) /\ Len(ids) \in Nat
    OBVIOUS
  <2>2. Len(ids) > 0
    BY <2>1
  <2>3. IsFiniteSet(1 .. Len(ids)) /\ Cardinality(1 .. Len(ids)) = Len(ids)
    <3>1. 1 \in Int /\ Len(ids) \in Int /\ ~(1 > Len(ids)) /\ Len(ids) - 1 + 1 = Len(ids)
      BY <2>1, <2>2
    <3> QED BY <3>1, FS_Interval, Zenon
  <2> HIDE DEF D
  <2> QED BY <2>1, <2>3
<1>2. IsFiniteSet(fs) /\ Cardinality(fs) <= Len(ids)
  <2>1. ids \in Surjection(1 .. Len(ids), fs)
    <3>1. ids \in [1 .. Len(ids) -> fs]
      BY <1>1
    <3> QED BY <1>1, <3>1 DEF Surjection
  <2> HIDE DEF fs
  <2> QED BY <1>1, <2>1, FS_Surjection
<1>3. \A j \in D : Report(t, ids[j]).passes \in Nat /\ ids[j] \in Files
  BY ReportType DEF Reports
\* Without element x, a set of passes that is one pass of each at most is smaller.
<1>4. ASSUME NEW S, IsFiniteSet(S), Cardinality(S) <= Len(ids), NEW x \in S,
             NEW P, P \subseteq (S \ {x}) \X {1}
      PROVE  Cardinality(P) < Len(ids)
  <2>1. IsFiniteSet(S \ {x}) /\ Cardinality(S \ {x}) = Cardinality(S) - 1
    BY <1>4, FS_RemoveElement
  <2>2. Cardinality(S) \in Nat
    BY <1>4, FS_CardinalityType
  <2>3. /\ IsFiniteSet((S \ {x}) \X {1})
        /\ Cardinality((S \ {x}) \X {1}) = Cardinality(S) - 1
    BY <2>1, OneOfEach
  <2>4. Cardinality(P) <= Cardinality((S \ {x}) \X {1}) /\ Cardinality(P) \in Nat
    BY <1>4, <2>3, FS_Subset, FS_CardinalityType
  <2> QED BY <1>1, <1>4, <2>2, <2>3, <2>4
<1>5. PassesOfIds(t, ids) \subseteq (D \ {i}) \X {1}
  BY <1>3 DEF PassesOfIds
<1>6. PassesOfFiles(t, ids) \subseteq (fs \ {ids[i]}) \X {1}
  BY <1>3 DEF PassesOfFiles
<1>7. Cardinality(PassesOfIds(t, ids)) < Len(ids)
  <2>1. i \in D /\ Cardinality(D) <= Len(ids)
    BY <1>1
  <2> HIDE DEF D
  <2> QED BY <1>1, <1>4, <1>5, <2>1
<1>8. Cardinality(PassesOfFiles(t, ids)) < Len(ids)
  <2>1. ids[i] \in fs
    OBVIOUS
  <2> HIDE DEF fs
  <2> QED BY <1>2, <1>4, <1>6, <2>1
<1> QED BY <1>7, <1>8 DEF Passed

\* pytest_id_runner exits 0 only after a clean run.
LEMMA RunnerCode ==
  ASSUME NEW t \in Trees, NEW ids \in Seq(Files), NEW once \in BOOLEAN
  PROVE  /\ IdRunnerCode(t, ids, once) \in Nat
         /\ IdRunnerCode(t, ids, once) = 0 => Clean(t, ids)
<1>1. IdRunnerCode(t, ids, once) \in Nat
  BY DEF IdRunnerCode
<1>2. ASSUME IdRunnerCode(t, ids, once) = 0 PROVE Clean(t, ids)
  <2>1. /\ \A j \in DOMAIN ids : Report(t, ids[j]).collected \notin {"absent", "nothing", "error"}
        /\ \A j \in DOMAIN ids : ~Report(t, ids[j]).failed
        /\ ~(Passed(t, ids, once) < Len(ids))
    BY <1>2 DEF IdRunnerCode
  <2>2. \A j \in DOMAIN ids : Report(t, ids[j]) \in Reports
    BY ReportType
  <2>3. \A j \in DOMAIN ids : Report(t, ids[j]).collected \in {"id", "variants"}
    BY <2>1, <2>2 DEF Reports
  <2>4. ASSUME ~\E j \in DOMAIN ids : Report(t, ids[j]).passes > 1, NEW i \in DOMAIN ids
        PROVE  Report(t, ids[i]).passes = 1
    <3>1. \A j \in DOMAIN ids : Report(t, ids[j]).passes \in Nat
      BY <2>2 DEF Reports
    <3>2. \A j \in DOMAIN ids : Report(t, ids[j]).passes <= 1
      BY <2>4, <3>1
    <3>3. Report(t, ids[i]).passes # 0
      BY <2>1, <3>2, TooFewPasses
    <3> QED BY <3>1, <3>2, <3>3
  <2> QED BY <2>1, <2>3, <2>4 DEF Clean
<1> QED BY <1>1, <1>2

\* pytest_runner ends with an exit code.
LEMMA BareCodeType == ASSUME NEW t PROVE BareCode(t) \in Nat
BY DEF BareCode

\* Only declared files are collected.
LEMMA CollectableType ==
  ASSUME NEW t, NEW reqs \in Seq(ImpactReq)
  PROVE  Collectable(t, reqs) \subseteq Files
<1>1. \A req \in ImpactReq : req.file \in Files
  BY DEF ImpactReq
<1>2. Declared(reqs) \subseteq Files
  BY <1>1 DEF Declared
<1> QED BY <1>2 DEF Collectable

\* What build_gate_receipt copies.
LEMMA ReceiptFields ==
  ASSUME NEW k, NEW result, NEW reqs, NEW evidence, NEW error
  PROVE  LET r == BuildGateReceipt(k, result, reqs, evidence, error)
         IN /\ r.kind = k.kind /\ r.verdict = result.verdict
            /\ r.matched = evidence.matched /\ r.observed = evidence.observed
            /\ r.exit = evidence.exit /\ r.error = error
BY DEF BuildGateReceipt

\* A receipt that is right leaves a log that is.
LEMMA LogGrows ==
  ASSUME Entries, NEW e, log' = Append(log, e),
         FromACall(e),
         MandatedPass(e) => Earned(e),
         MandatedPass(e) /\ e.start = e.end => RanPins(e)
  PROVE  Entries'
<1>1. log \in Seq(Finished)
  BY DEF Entries
<1>2. Finished' = Finished \cup {e}
  BY <1>1, FinishedGrows
<1>3. log' \in Seq(Finished \cup {e})
  BY <1>1
<1>4. \A f \in Finished' :
        /\ FromACall(f)
        /\ MandatedPass(f) => Earned(f)
        /\ MandatedPass(f) /\ f.start = f.end => RanPins(f)
  BY <1>2 DEF Entries
<1> QED BY <1>2, <1>3, <1>4 DEF Entries

\* The invariant without the log.
Local == TypeOK /\ Progress /\ Bound /\ Hashed /\ Undisturbed /\ Green

\* The requirements of the call under way.
LEMMA ReqsType == TypeOK => Reqs \in Seq(ImpactReq)
<1> SUFFICES ASSUME TypeOK PROVE Reqs \in Seq(ImpactReq)
  OBVIOUS
<1>1. required \in Seq(Entry)
  BY DEF TypeOK
<1> QED BY <1>1, ExactType DEF Reqs

\* No receipt of the log is ever touched.
LEMMA EntriesKept == Entries /\ UNCHANGED log => Entries'
BY DEF Entries, Finished

\* Nothing of a call outlives it.
LEMMA LeaveKeepsLocal ==
  ASSUME Local, Leave, UNCHANGED <<tree, edits>>
  PROVE  Local'
<1>1. TypeOK'
  BY DEF Local, TypeOK, Leave, EmptyDict
<1>2. Progress' /\ Bound' /\ Undisturbed' /\ Green'
  BY DEF Leave, EmptyDict, Progress, Bound, Undisturbed, Green
<1>3. Hashed'
  BY DEF Leave, EmptyDict, Hashed
<1> QED BY <1>1, <1>2, <1>3 DEF Local

\* One lemma for each action of the gate, and of whoever edits the tree.
LEMMA BeginMeasuredKeeps ==
  ASSUME IInv, NEW k \in Calls, BeginMeasured(k)
  PROVE  IInv'
<1>1. TypeOK'
  BY DEF IInv, TypeOK, BeginMeasured, Ready
<1>2. Progress'
  BY DEF IInv, Progress, BeginMeasured, Ready, Reqs, CallType, Kinds
<1>3. Bound' /\ Hashed' /\ Undisturbed' /\ Green'
  BY DEF IInv, Bound, Hashed, Undisturbed, Green, BeginMeasured, Ready, Reqs
<1> QED BY <1>1, <1>2, <1>3, EntriesKept DEF IInv, BeginMeasured

LEMMA LoadSpecsKeeps ==
  ASSUME IInv, NEW m \in Manifests, LoadSpecs(m)
  PROVE  IInv'
<1>1. required' \in Seq(Entry \ {NAMELESS})
  BY SpecsType DEF LoadSpecs
<1>2. TypeOK'
  BY <1>1 DEF IInv, TypeOK, LoadSpecs
<1>3. Progress'
  BY DEF IInv, Progress, LoadSpecs, Reqs
<1>4. matched = <<>> /\ matched' = matched /\ observed' = observed /\ DOMAIN observed = {}
  BY DEF IInv, Progress, LoadSpecs
<1>5. Bound' /\ Hashed' /\ Undisturbed' /\ Green'
  BY <1>4 DEF IInv, Bound, Hashed, Undisturbed, Green, LoadSpecs
<1> QED BY <1>2, <1>3, <1>5, EntriesKept DEF IInv, LoadSpecs

LEMMA CollectKeeps ==
  ASSUME IInv, Collect
  PROVE  IInv'
<1>1. collected' \subseteq Files
  BY ReqsType, CollectableType DEF IInv, Collect, Reqs
<1>2. TypeOK'
  BY <1>1 DEF IInv, TypeOK, Collect
<1>3. Reqs \in Seq(ImpactReq) /\ Reqs # <<>> /\ matched = <<>> /\ DOMAIN observed = {}
  BY ReqsType DEF IInv, Progress, Collect
<1>4. Len(Reqs) > 0
  BY <1>3
<1>5. Progress'
  BY <1>3, <1>4 DEF IInv, Progress, Collect, Reqs
<1>6. Bound' /\ Hashed' /\ Undisturbed' /\ Green'
  BY <1>3 DEF IInv, Bound, Hashed, Undisturbed, Green, Collect, Reqs
<1> QED BY <1>2, <1>5, <1>6, EntriesKept DEF IInv, Collect

LEMMA VerifyUnboundKeeps ==
  ASSUME IInv, VerifyUnbound
  PROVE  IInv'
<1>1. code' \in {5, 7} /\ pc' = "decide" /\ matched' = matched
  BY DEF VerifyUnbound, Stop
<1>2. TypeOK'
  BY <1>1 DEF IInv, TypeOK, VerifyUnbound
<1>3. Progress'
  BY <1>1 DEF IInv, Progress, VerifyUnbound
<1>4. Bound' /\ Hashed' /\ Undisturbed' /\ Green'
  BY <1>1 DEF IInv, Bound, Hashed, Undisturbed, Green, VerifyUnbound, Reqs
<1> QED BY <1>2, <1>3, <1>4, EntriesKept DEF IInv, VerifyUnbound

LEMMA RunMandatedKeeps ==
  ASSUME IInv, NEW once \in BOOLEAN, RunMandated(once)
  PROVE  IInv'
<1>1. tree \in Trees /\ matched \in Seq(Files)
  BY DEF IInv, TypeOK
<1>2. code' \in Nat /\ (code' = 0 => Clean(tree, matched))
  BY <1>1, RunnerCode DEF RunMandated
<1>3. TypeOK'
  BY <1>2 DEF IInv, TypeOK, RunMandated
<1>4. Progress'
  BY DEF IInv, Progress, RunMandated
<1>5. Bound' /\ Hashed' /\ Undisturbed'
  BY DEF IInv, Bound, Hashed, Undisturbed, RunMandated, Reqs
<1>6. Reqs' = Reqs /\ Reqs # <<>> /\ DOMAIN matched = DOMAIN Reqs
  BY ReqsType, <1>1 DEF IInv, Progress, RunMandated, Reqs
<1>7. /\ \A j \in DOMAIN matched : ran'[matched[j]] = tree[matched[j]]
      /\ ran'[SUPPORT] = tree[SUPPORT]
  BY DEF RunMandated
<1>8. edits' = started' => \A j \in DOMAIN matched : Reqs[j].pin # NONE => tree[matched[j]] = Reqs[j].pin
  BY DEF IInv, Undisturbed, RunMandated
<1>9. Clean(tree, matched) => Clean(ran', matched)
  BY <1>7 DEF Clean, Report
<1>10. Green'
  BY <1>2, <1>6, <1>7, <1>8, <1>9 DEF Green, RunMandated
<1> QED BY <1>3, <1>4, <1>5, <1>10, EntriesKept DEF IInv, RunMandated

LEMMA RunBareKeeps ==
  ASSUME IInv, RunBare
  PROVE  IInv'
<1>1. TypeOK'
  BY BareCodeType DEF IInv, TypeOK, RunBare
<1>2. Progress'
  BY DEF IInv, Progress, RunBare
<1>3. matched = <<>> /\ DOMAIN observed = {} /\ call.kind = "measured-bare"
  BY DEF IInv, Progress, RunBare
<1>4. Bound' /\ Hashed' /\ Undisturbed' /\ Green'
  BY <1>3 DEF IInv, Bound, Hashed, Undisturbed, Green, RunBare, Reqs
<1> QED BY <1>1, <1>2, <1>4, EntriesKept DEF IInv, RunBare

LEMMA EditKeeps ==
  ASSUME IInv, NEW p \in Paths, NEW x \in CanHold[p], Edit(p, x)
  PROVE  IInv'
<1>1. started \in 0 .. edits /\ edits \in Nat /\ edits' = edits + 1 /\ started' = started
  BY DEF IInv, TypeOK, Edit, call_vars
<1>2. edits' # started'
  BY <1>1
<1>3. TypeOK'
  <2>1. tree' \in Trees
    BY DEF IInv, TypeOK, Edit, Trees
  <2> QED BY <1>1, <2>1 DEF IInv, TypeOK, Edit, call_vars
<1>4. Progress' /\ Bound' /\ Hashed'
  BY DEF IInv, Progress, Bound, Hashed, Edit, call_vars, Reqs
<1>5. Undisturbed'
  BY <1>2 DEF Undisturbed
<1>6. Green'
  BY <1>2 DEF IInv, Green, Edit, call_vars, Reqs
<1> QED BY <1>3, <1>4, <1>5, <1>6, EntriesKept DEF IInv, Edit

LEMMA VerifyBoundKeeps ==
  ASSUME IInv, NEW f \in Files, VerifyBound(f)
  PROVE  IInv'
<1> DEFINE n == Len(matched)
<1>1. /\ pc = "verify" /\ Hits = {f}
      /\ UNCHANGED <<tree, edits, call, started, required, collected, ran, log>>
      /\ Reqs' = Reqs
  BY DEF VerifyBound, Reqs
<1>2. matched \in Seq(Files) /\ Reqs \in Seq(ImpactReq) /\ n \in Nat /\ n < Len(Reqs)
  BY <1>1, ReqsType DEF IInv, TypeOK, Progress
<1>3. Req = Reqs[n + 1] /\ n + 1 \in DOMAIN Reqs /\ Req \in ImpactReq
  BY <1>2 DEF Req, Reqs
<1>4. Req.file \in Files /\ Req.pin \in Contents \cup {NONE, BLANK}
      /\ Req = [file |-> Req.file, pin |-> Req.pin]
  BY <1>3 DEF ImpactReq
<1>5. f \in SuffixOf[Req.file]
  BY <1>1 DEF Hits
<1>6. \A g \in Files : tree[g] \in Contents \cup {ABSENT}
  BY TreeType DEF IInv, TypeOK
<1>7. code = NONE /\ DOMAIN observed \subseteq Files
  BY <1>1 DEF IInv, TypeOK
<1>8. observed \in [DOMAIN observed -> Contents]
  BY DEF IInv, Hashed
<1> DEFINE put == Put(observed, Req.file, tree[f])
<1>9. tree[f] \in Contents =>
        /\ put \in [DOMAIN put -> Contents]
        /\ DOMAIN put = DOMAIN observed \cup {Req.file}
        /\ put[Req.file] = tree[f]
        /\ \A g \in DOMAIN observed : g # Req.file => put[g] = observed[g]
  BY <1>8 DEF Put
\* The tree's file does not match, or is gone: the call is decided with code 6.
<1>10. ASSUME Stop(6), observed' \in {observed, put}, tree[f] # ABSENT \/ observed' = observed
       PROVE  IInv'
  <2>1. pc' = "decide" /\ code' = 6 /\ matched' = matched
    BY <1>10 DEF Stop
  <2>2. /\ observed' \in [DOMAIN observed' -> Contents]
        /\ DOMAIN observed \subseteq DOMAIN observed' /\ DOMAIN observed' \subseteq Files
    BY <1>4, <1>6, <1>7, <1>8, <1>9, <1>10
  <2>3. TypeOK'
    BY <1>1, <2>1, <2>2 DEF IInv, TypeOK
  <2>4. Progress' /\ Undisturbed' /\ Green'
    BY <1>1, <2>1 DEF IInv, Progress, Undisturbed, Green
  <2>5. Bound'
    BY <1>1, <2>1, <2>2 DEF IInv, Bound
  <2>6. Hashed'
    BY <1>1, <2>1, <2>2 DEF Hashed
  <2> QED BY <1>1, <2>3, <2>4, <2>5, <2>6, EntriesKept DEF IInv
\* The file is bound to its requirement.
<1>11. ASSUME Match(f),
              \/ Req.pin = NONE /\ observed' = observed
              \/ tree[f] \in Contents /\ tree[f] = Req.pin /\ observed' = put
       PROVE  IInv'
  <2>1. /\ matched' = Append(matched, f) /\ code' = code
        /\ pc' = IF n + 1 = Len(Reqs) THEN "run" ELSE "verify"
    BY <1>11 DEF Match, Reqs
  <2>2. /\ matched' \in Seq(Files) /\ Len(matched') = n + 1
        /\ DOMAIN matched' = DOMAIN matched \cup {n + 1}
        /\ matched'[n + 1] = f
        /\ \A j \in DOMAIN matched : matched'[j] = matched[j]
    <3>1. matched' \in Seq(Files) /\ Len(matched') = n + 1 /\ matched'[n + 1] = f
      BY <1>2, <2>1
    <3>2. \A j \in DOMAIN matched : matched'[j] = matched[j]
      BY <1>2, <2>1
    <3>3. DOMAIN matched' = 1 .. (n + 1) /\ DOMAIN matched = 1 .. n
      BY <1>2, <3>1
    <3> QED BY <1>2, <3>1, <3>2, <3>3
  <2>3. /\ observed' \in [DOMAIN observed' -> Contents]
        /\ DOMAIN observed \subseteq DOMAIN observed' /\ DOMAIN observed' \subseteq Files
    BY <1>4, <1>7, <1>8, <1>9, <1>11
  <2>4. TypeOK'
    BY <1>1, <1>7, <2>1, <2>2, <2>3 DEF IInv, TypeOK
  <2>5. Progress'
    BY <1>1, <1>2, <2>1, <2>2 DEF IInv, Progress
  <2>6. Bound'
    <3>1. Req.pin # NONE => Req.file \in DOMAIN observed'
      BY <1>9, <1>11
    <3> QED BY <1>1, <1>3, <1>5, <2>2, <2>3, <3>1 DEF IInv, Bound
  <2>7. Hashed'
    <3>1. ASSUME NEW g \in DOMAIN observed'
          PROVE  \E j \in DOMAIN Reqs : Reqs[j] = [file |-> g, pin |-> observed'[g]]
      <4>1. CASE g \in DOMAIN observed /\ observed'[g] = observed[g]
        BY <1>1, <4>1 DEF IInv, Hashed
      <4>2. CASE g = Req.file /\ observed'[g] = Req.pin
        BY <1>3, <1>4, <4>2
      <4> QED BY <1>9, <1>11, <3>1, <4>1, <4>2
    <3> QED BY <1>1, <2>3, <3>1 DEF Hashed
  <2>8. Undisturbed'
    <3>1. Req.pin # NONE => tree[f] = Req.pin
      BY <1>11
    <3> QED BY <1>1, <1>3, <2>2, <3>1 DEF IInv, Undisturbed
  <2>9. Green'
    BY <2>1 DEF Green
  <2> QED BY <1>1, <2>4, <2>5, <2>6, <2>7, <2>8, <2>9, EntriesKept DEF IInv
<1>12. CASE Req.pin = NONE
  BY <1>11, <1>12 DEF VerifyBound
<1>13. CASE Req.pin # NONE /\ tree[f] = ABSENT
  BY <1>10, <1>13 DEF VerifyBound
<1>14. CASE Req.pin # NONE /\ tree[f] # ABSENT /\ tree[f] = Req.pin
  BY <1>6, <1>11, <1>14 DEF VerifyBound
<1>15. CASE Req.pin # NONE /\ tree[f] # ABSENT /\ tree[f] # Req.pin
  BY <1>10, <1>15 DEF VerifyBound
<1> QED BY <1>12, <1>13, <1>14, <1>15

\* The four ways to a receipt, and the way without one.
LEMMA ReturnKeeps ==
  ASSUME IInv, UNCHANGED <<tree, edits>>,
         NEW receipt, NEW k \in Calls, NEW begun, NEW reqs, NEW contents,
         Return(receipt, k, begun, reqs, contents),
         LET e == [receipt |-> receipt, call |-> k, required |-> reqs,
                   start |-> begun, end |-> edits, tree |-> tree, ran |-> contents]
         IN /\ Refused(e) \/ Asserted(e) \/ Unevaluated(e) \/ Decided(e)
            /\ MandatedPass(e) => Earned(e)
            /\ MandatedPass(e) /\ begun = edits => RanPins(e)
  PROVE  IInv'
<1> DEFINE e == [receipt |-> receipt, call |-> k, required |-> reqs,
                 start |-> begun, end |-> edits, tree |-> tree, ran |-> contents]
<1>1. e.call \in Calls /\ (e.start = e.end <=> begun = edits)
  OBVIOUS
<1>2. Leave /\ log' = Append(log, e)
  BY DEF Return
<1>3. Local'
  BY <1>2, LeaveKeepsLocal DEF IInv, Local
<1>4. FromACall(e) /\ (MandatedPass(e) => Earned(e))
      /\ (MandatedPass(e) /\ e.start = e.end => RanPins(e))
  <2> HIDE DEF e
  <2> QED BY <1>1 DEF FromACall, e
<1>5. Entries'
  <2> HIDE DEF e
  <2> QED BY <1>2, <1>4, LogGrows DEF IInv
<1> QED BY <1>3, <1>5 DEF IInv, Local

LEMMA RaiseKeeps ==
  ASSUME IInv, Raise, UNCHANGED <<tree, edits>>
  PROVE  IInv'
BY LeaveKeepsLocal, EntriesKept DEF IInv, Local, Raise

LEMMA RefuseUnmeasurableKeeps ==
  ASSUME IInv, NEW k \in Calls, RefuseUnmeasurable(k)
  PROVE  IInv'
<1> DEFINE receipt == BuildGateReceipt(k, Result(k.from, k.to, "FAIL", UNKNOWN),
                                       <<>>, NoEvidence, NONE)
           e == [receipt |-> receipt, call |-> k, required |-> <<>>,
                 start |-> edits, end |-> edits, tree |-> tree, ran |-> EmptyDict]
<1>1. /\ k.kind # "asserted" /\ ~IsMeasurable(k.from, k.to)
      /\ Return(receipt, k, edits, <<>>, EmptyDict)
      /\ UNCHANGED <<tree, edits>>
  BY DEF RefuseUnmeasurable
<1>2. receipt.verdict = "FAIL"
  BY ReceiptFields DEF Result
<1>3. Refused(e)
  BY <1>1 DEF Refused
<1>4. ~MandatedPass(e)
  <2> HIDE DEF receipt
  <2> QED BY <1>2 DEF MandatedPass, CanAdvance
<1> QED
  <2> HIDE DEF receipt
  <2> QED BY <1>1, <1>3, <1>4, ReturnKeeps

LEMMA EvaluateAssertedKeeps ==
  ASSUME IInv, NEW k \in Calls, EvaluateAsserted(k)
  PROVE  IInv'
<1> DEFINE result == EvaluateTransition(k.from, k.to, k.met, k.conditional, k.skipped)
           receipt == BuildGateReceipt(k, result, <<>>, NoEvidence, NONE)
           e == [receipt |-> receipt, call |-> k, required |-> <<>>,
                 start |-> edits, end |-> edits, tree |-> tree, ran |-> EmptyDict]
<1>1. /\ k.kind = "asserted" /\ result.verdict \notin Raised
      /\ Return(receipt, k, edits, <<>>, EmptyDict)
      /\ UNCHANGED <<tree, edits>>
  BY DEF EvaluateAsserted
<1>2. receipt.kind = "asserted"
  BY <1>1, ReceiptFields
<1>3. Asserted(e)
  BY <1>1 DEF Asserted
<1>4. ~MandatedPass(e)
  <2> HIDE DEF receipt
  <2> QED BY <1>2 DEF MandatedPass
<1> QED
  <2> HIDE DEF receipt
  <2> QED BY <1>1, <1>3, <1>4, ReturnKeeps

LEMMA UnevaluableKeeps ==
  ASSUME IInv, NEW error \in {"source", "measurement"}, pc # "idle", Unevaluable(error)
  PROVE  IInv'
<1> DEFINE receipt == BuildGateReceipt(call, Result(call.from, call.to, "ERROR", UNKNOWN),
                                       <<>>, NoEvidence, error)
           e == [receipt |-> receipt, call |-> call, required |-> required,
                 start |-> started, end |-> edits, tree |-> tree, ran |-> EmptyDict]
<1>1. call \in Calls /\ call.kind # "asserted" /\ IsMeasurable(call.from, call.to)
  BY DEF IInv, Progress
<1>2. Return(receipt, call, started, required, EmptyDict) /\ UNCHANGED <<tree, edits>>
  BY DEF Unevaluable
<1>3. receipt.verdict = "ERROR"
  BY ReceiptFields DEF Result
<1>4. Unevaluated(e)
  BY <1>1 DEF Unevaluated
<1>5. ~MandatedPass(e)
  <2> HIDE DEF receipt
  <2> QED BY <1>3 DEF MandatedPass, CanAdvance
<1> QED
  <2> HIDE DEF receipt
  <2> QED BY <1>1, <1>2, <1>4, <1>5, ReturnKeeps

LEMMA DecideKeeps ==
  ASSUME IInv, Decide
  PROVE  IInv'
<1> DEFINE result == EvaluateTransition(call.from, call.to, code = 0,
                                        call.conditional, call.skipped)
           evidence == [matched |-> matched, observed |-> observed, exit |-> code]
           receipt == BuildGateReceipt(call, result, required, evidence, NONE)
           e == [receipt |-> receipt, call |-> call, required |-> required,
                 start |-> started, end |-> edits, tree |-> tree, ran |-> ran]
<1>1. /\ pc = "decide" /\ UNCHANGED <<tree, edits>>
      /\ IF result.verdict \in Raised THEN Raise
         ELSE Return(receipt, call, started, required, ran)
  BY DEF Decide
<1>2. call \in Calls /\ call.kind # "asserted" /\ IsMeasurable(call.from, call.to)
  BY <1>1 DEF IInv, Progress
<1>3. CASE result.verdict \in Raised
  BY <1>1, <1>3, RaiseKeeps
<1>4. CASE result.verdict \notin Raised
  <2>1. Return(receipt, call, started, required, ran)
    BY <1>1, <1>4
  <2>2. /\ receipt.kind = call.kind /\ receipt.verdict = result.verdict
        /\ receipt.matched = matched /\ receipt.observed = observed
    BY ReceiptFields
  <2>3. Decided(e)
    <3>1. observed \in [DOMAIN observed -> Contents] /\ DOMAIN observed \in SUBSET Files
          /\ matched \in Seq(Files) /\ code \in Nat
      BY <1>1 DEF IInv, TypeOK, Hashed
    <3>2. evidence \in Evidence
      BY <3>1 DEF Evidence
    <3> QED BY <1>2, <1>4, <3>2 DEF Decided
  <2> HIDE DEF receipt
  <2>4. ASSUME MandatedPass(e)
        PROVE  Earned(e) /\ (started = edits => RanPins(e))
    <3>1. call.kind = "measured-mandated" /\ result.verdict = "PASS"
      BY <2>2, <2>4 DEF MandatedPass, CanAdvance
    <3>2. code = 0
      <4>1. call.conditional \in BOOLEAN /\ call.skipped \in BOOLEAN
        BY <1>2 DEF CallType
      <4> QED BY <3>1, <4>1, EvaluateVerdict
    <3>3. /\ Reqs # <<>> /\ DOMAIN matched = DOMAIN Reqs
          /\ Clean(ran, matched)
          /\ \A j \in DOMAIN Reqs :
               edits = started /\ Reqs[j].pin # NONE => ran[matched[j]] = Reqs[j].pin
      BY <1>1, <3>1, <3>2 DEF IInv, Green
    <3>4. \A j \in DOMAIN matched :
            /\ matched[j] \in SuffixOf[Reqs[j].file]
            /\ Reqs[j].pin # NONE => Reqs[j].file \in DOMAIN observed
      BY DEF IInv, Bound
    <3>5. \A f \in DOMAIN observed :
            \E j \in DOMAIN Reqs : Reqs[j] = [file |-> f, pin |-> observed[f]]
      BY <1>1, <3>2 DEF IInv, Hashed
    <3>6. e.receipt = receipt /\ e.required = required /\ e.ran = ran
      OBVIOUS
    <3> HIDE DEF e
    <3>7. Earned(e)
      BY <2>2, <3>3, <3>4, <3>5, <3>6 DEF Earned, Clean, Reqs
    <3>8. started = edits => RanPins(e)
      BY <2>2, <3>3, <3>6 DEF RanPins, Reqs
    <3> QED BY <3>7, <3>8
  <2> QED BY <1>1, <1>2, <2>1, <2>3, <2>4, ReturnKeeps
<1> QED BY <1>3, <1>4

\* The invariant is inductive.
LEMMA GateStepKeeps == IInv /\ GateStep => IInv'
<1> SUFFICES ASSUME IInv, GateStep PROVE IInv'
  OBVIOUS
<1>1. CASE SourceFails
  BY <1>1, UnevaluableKeeps DEF SourceFails
<1>2. CASE MeasurementFails
  BY <1>2, UnevaluableKeeps DEF MeasurementFails
<1>3. CASE \E m \in Manifests : LoadSpecs(m)
  BY <1>3, LoadSpecsKeeps
<1>4. CASE Collect
  BY <1>4, CollectKeeps
<1>5. CASE VerifyUnbound
  BY <1>5, VerifyUnboundKeeps
<1>6. CASE \E f \in Files : VerifyBound(f)
  BY <1>6, VerifyBoundKeeps
<1>7. CASE \E once \in BOOLEAN : RunMandated(once)
  BY <1>7, RunMandatedKeeps
<1>8. CASE RunBare
  BY <1>8, RunBareKeeps
<1>9. CASE BareFails
  BY <1>9, RaiseKeeps DEF BareFails
<1>10. CASE Decide
  BY <1>10, DecideKeeps
<1> QED BY <1>1, <1>2, <1>3, <1>4, <1>5, <1>6, <1>7, <1>8, <1>9, <1>10 DEF GateStep

LEMMA NextKeeps == IInv /\ [Next]_vars => IInv'
<1> SUFFICES ASSUME IInv, [Next]_vars PROVE IInv'
  OBVIOUS
<1>1. ASSUME NEW k \in Calls, RefuseUnmeasurable(k) \/ EvaluateAsserted(k) \/ BeginMeasured(k)
      PROVE  IInv'
  BY <1>1, RefuseUnmeasurableKeeps, EvaluateAssertedKeeps, BeginMeasuredKeeps
<1>2. CASE GateStep
  BY <1>2, GateStepKeeps
<1>3. ASSUME NEW p \in Paths, NEW x \in CanHold[p], Edit(p, x)
      PROVE  IInv'
  BY <1>3, EditKeeps
<1>4. CASE UNCHANGED vars
  <2>1. TypeOK' /\ Progress' /\ Bound' /\ Hashed' /\ Undisturbed' /\ Green'
    BY <1>4 DEF vars, call_vars, IInv, TypeOK, Progress, Bound, Hashed, Undisturbed, Green, Reqs
  <2> QED BY <1>4, <2>1, EntriesKept DEF vars, IInv
<1> QED BY <1>1, <1>2, <1>3, <1>4 DEF Next

LEMMA InitHolds == Init => IInv
<1> SUFFICES ASSUME Init PROVE IInv
  OBVIOUS
<1>1. TypeOK
  BY DEF Init, TypeOK, EmptyDict
<1>2. Progress /\ Bound /\ Undisturbed /\ Green
  BY DEF Init, EmptyDict, Progress, Bound, Undisturbed, Green
<1>3. Hashed
  BY DEF Init, EmptyDict, Hashed
<1>4. Entries
  BY DEF Init, Entries, Finished
<1> QED BY <1>1, <1>2, <1>3, <1>4 DEF IInv

\* Every call, however far it has come, holds what it should hold.
THEOREM IInvHolds == Spec => []IInv
BY InitHolds, NextKeeps, PTL DEF Spec

\* What ErrorOrEvidence asks of a receipt is what each of the four ways writes.
LEMMA ReceiptsExplain ==
  ASSUME NEW e, FromACall(e)
  PROVE  ErrorOrEvidence(e)
<1>1. e.call \in CallType
  BY DEF FromACall
<1>2. ASSUME Refused(e) PROVE ErrorOrEvidence(e)
  <2>1. /\ e.receipt.kind = e.call.kind /\ e.receipt.verdict = "FAIL" /\ e.receipt.exit = NONE
        /\ e.receipt.error = NONE /\ e.receipt.matched = <<>> /\ DOMAIN e.receipt.observed = {}
    BY <1>2, ReceiptFields DEF Refused, Result, NoEvidence, EmptyDict
  <2> QED BY <1>2, <2>1 DEF ErrorOrEvidence, Refused
<1>3. ASSUME Asserted(e) PROVE ErrorOrEvidence(e)
  <2>1. e.call.met \in BOOLEAN /\ e.call.conditional \in BOOLEAN /\ e.call.skipped \in BOOLEAN
    BY <1>1 DEF CallType
  <2> DEFINE result == EvaluateTransition(e.call.from, e.call.to, e.call.met,
                                          e.call.conditional, e.call.skipped)
  <2>2. /\ e.call.kind = "asserted" /\ result.verdict \notin Raised
        /\ e.receipt = BuildGateReceipt(e.call, result, <<>>, NoEvidence, NONE)
    BY <1>3 DEF Asserted
  <2>3. result.verdict # "ERROR"
    BY <2>1, <2>2, EvaluateVerdict DEF Raised
  <2> HIDE DEF result
  <2>4. /\ e.receipt.kind = "asserted" /\ e.receipt.verdict = result.verdict
        /\ e.receipt.exit = NONE /\ e.receipt.error = NONE
        /\ e.receipt.matched = <<>> /\ DOMAIN e.receipt.observed = {}
    BY <2>2, ReceiptFields DEF NoEvidence, EmptyDict
  <2> QED BY <2>3, <2>4 DEF ErrorOrEvidence
<1>4. ASSUME Unevaluated(e) PROVE ErrorOrEvidence(e)
  <2>1. PICK error \in {"source", "measurement"} :
          e.receipt = BuildGateReceipt(e.call, Result(e.call.from, e.call.to, "ERROR", UNKNOWN),
                                       <<>>, NoEvidence, error)
    BY <1>4 DEF Unevaluated
  <2>2. /\ e.receipt.verdict = "ERROR" /\ e.receipt.exit = NONE /\ e.receipt.error = error
        /\ e.receipt.matched = <<>> /\ DOMAIN e.receipt.observed = {}
    BY <2>1, ReceiptFields DEF Result, NoEvidence, EmptyDict
  <2> QED BY <2>2 DEF ErrorOrEvidence
<1>5. ASSUME Decided(e) PROVE ErrorOrEvidence(e)
  <2>1. PICK evidence \in Evidence :
          LET result == EvaluateTransition(e.call.from, e.call.to, evidence.exit = 0,
                                           e.call.conditional, e.call.skipped)
          IN /\ result.verdict \notin Raised
             /\ e.receipt = BuildGateReceipt(e.call, result, e.required, evidence, NONE)
    BY <1>5 DEF Decided
  <2> DEFINE result == EvaluateTransition(e.call.from, e.call.to, evidence.exit = 0,
                                          e.call.conditional, e.call.skipped)
  <2>2. e.call.conditional \in BOOLEAN /\ e.call.skipped \in BOOLEAN
    BY <1>1 DEF CallType
  <2>3. /\ result.verdict # "ERROR"
        /\ result.verdict \in {"PASS", "CONDITIONAL"} => evidence.exit = 0
    <3> DEFINE green == evidence.exit = 0
    <3>1. green \in BOOLEAN
      OBVIOUS
    <3> HIDE DEF green
    <3>2. LET v == EvaluateTransition(e.call.from, e.call.to, green,
                                      e.call.conditional, e.call.skipped).verdict
          IN /\ v \in (Verdicts \ {"ERROR"}) \cup Raised
             /\ v \in {"PASS", "CONDITIONAL"} => green
      BY <2>2, <3>1, EvaluateVerdict
    <3> QED BY <2>1, <3>2 DEF Raised, green
  <2>4. /\ e.receipt.kind = e.call.kind /\ e.receipt.verdict = result.verdict
        /\ e.receipt.exit = evidence.exit /\ e.receipt.error = NONE
    BY <2>1, ReceiptFields
  <2>5. evidence.exit \in Nat /\ evidence.exit # NONE
    BY <2>1 DEF Evidence
  <2>6. e.call.kind # "asserted" /\ IsMeasurable(e.call.from, e.call.to)
    BY <1>5 DEF Decided
  <2> HIDE DEF result
  <2> QED BY <2>3, <2>4, <2>5, <2>6 DEF ErrorOrEvidence
<1> QED BY <1>2, <1>3, <1>4, <1>5 DEF FromACall

\* The gate's variables keep their types.
THEOREM TypeCorrect == Spec => []TypeOK
<1>1. IInv => TypeOK
  BY DEF IInv
<1> QED BY <1>1, IInvHolds, PTL

\* However the tree is edited between its reads, measure_mandated and evaluate_transition
\* give a PASS only when every mandated test was bound and hashed to its pin, and the run
\* was clean: all of them passed, unless one had been parametrized and passed repeatedly.
THEOREM PassesAreEarned == Spec => []PassIsEarned
<1>1. IInv => PassIsEarned
  BY DEF IInv, Entries, PassIsEarned
<1> QED BY <1>1, IInvHolds, PTL

\* A PASS of a call during which the tree was left alone ran what the manifest pins.
THEOREM UndisturbedPassesRanPins == Spec => []UndisturbedPassRanPins
<1>1. IInv => UndisturbedPassRanPins
  BY DEF IInv, Entries, UndisturbedPassRanPins
<1> QED BY <1>1, IInvHolds, PTL

\* A receipt is one of a measurement or one of an error, never of both.
THEOREM ErrorsCarryNoEvidence == Spec => []ErrorXorEvidence
<1>1. IInv => ErrorXorEvidence
  BY ReceiptsExplain DEF IInv, Entries, ErrorXorEvidence
<1> QED BY <1>1, IInvHolds, PTL
-------------------------------------------------------------------------------
\* What a mandated call does while nobody edits the tree t under it.

HitsIn(t, reqs, j) == SuffixOf[reqs[j].file] \cap Collectable(t, reqs)

\* The first requirements are bound to ids, each the only candidate, ...
BoundIn(t, reqs, ids) ==
  \A j \in DOMAIN ids :
    /\ j \in DOMAIN reqs
    /\ HitsIn(t, reqs, j) = {ids[j]}
    /\ reqs[j].pin # NONE => t[ids[j]] = reqs[j].pin

\* ... the loop stopped after them, at one that is ambiguous, missing or drifted, ...
StoppedIn(t, reqs, ids, c) ==
  LET j == Len(ids) + 1
  IN /\ j \in DOMAIN reqs
     /\ \/ c = 7 /\ Cardinality(HitsIn(t, reqs, j)) > 1
        \/ c = 5 /\ HitsIn(t, reqs, j) = {}
        \/ /\ c = 6
           /\ \E f \in Files :
                HitsIn(t, reqs, j) = {f} /\ reqs[j].pin # NONE /\ t[f] # reqs[j].pin

\* ... or all of them were run.
RanIn(t, reqs, ids, c) ==
  /\ DOMAIN ids = DOMAIN reqs
  /\ \E once \in BOOLEAN : c = IdRunnerCode(t, ids, once)

MeasuredIn(t, reqs, ids, c) ==
  \/ reqs = <<>> /\ c = 4
  \/ /\ reqs # <<>>
     /\ BoundIn(t, reqs, ids)
     /\ StoppedIn(t, reqs, ids, c) \/ RanIn(t, reqs, ids, c)

\* The call under way, ...
Foreseen ==
  edits = started =>
    /\ pc \in {"verify", "run"} =>
         /\ collected = Collectable(tree, Reqs)
         /\ BoundIn(tree, Reqs, matched)
    /\ pc = "decide" /\ call.kind = "measured-mandated" =>
         MeasuredIn(tree, Reqs, matched, code)

\* ... and those that have left a receipt.
Repeats(e) ==
  /\ e.required \in Seq(Entry)
  /\ e.tree \in Trees
  /\ e.call.kind = "measured-mandated" /\ e.receipt.exit # NONE /\ e.start = e.end =>
       /\ e.receipt.matched \in Seq(Files)
       /\ MeasuredIn(e.tree, Exact(e.required), e.receipt.matched, e.receipt.exit)

Repeatable == Foreseen /\ \A e \in Finished : Repeats(e)

\* What is collected is declared and there, under its node id; and nothing at all is,
\* unless everything declared can be.
LEMMA CollectableDeclared ==
  ASSUME NEW t, NEW reqs
  PROVE  /\ Collectable(t, reqs) \subseteq Declared(reqs)
         /\ \A f \in Collectable(t, reqs) : t[f] # ABSENT /\ Report(t, f).collected = "id"
         /\ Collectable(t, reqs) # {} =>
              \A f \in Declared(reqs) : Report(t, f).collected \notin {"absent", "error"}
BY DEF Collectable, Report, Missing

\* No file is named twice.
Distinct(ids) == \A i, j \in DOMAIN ids : i # j => ids[i] # ids[j]

\* A run in which each of several different files passes once ends with 0.
LEMMA AllPassOnce ==
  ASSUME NEW t, NEW ids \in Seq(Files), ids # <<>>, Distinct(ids), NEW once \in BOOLEAN,
         \A j \in DOMAIN ids : /\ Report(t, ids[j]).collected = "id"
                               /\ Report(t, ids[j]).passes = 1
                               /\ ~Report(t, ids[j]).failed
  PROVE  IdRunnerCode(t, ids, once) = 0
<1> DEFINE D == DOMAIN ids
           fs == {ids[j] : j \in D}
<1>1. D = 1 .. Len(ids) /\ Len(ids) \in Nat /\ IsFiniteSet(D) /\ Cardinality(D) = Len(ids)
  <2>1. D = 1 .. Len(ids) /\ Len(ids) \in Nat
    OBVIOUS
  <2>2. Len(ids) > 0
    BY <2>1
  <2>3. IsFiniteSet(1 .. Len(ids)) /\ Cardinality(1 .. Len(ids)) = Len(ids)
    <3>1. 1 \in Int /\ Len(ids) \in Int /\ ~(1 > Len(ids)) /\ Len(ids) - 1 + 1 = Len(ids)
      BY <2>1, <2>2
    <3> QED BY <3>1, FS_Interval, Zenon
  <2> HIDE DEF D
  <2> QED BY <2>1, <2>3
<1>2. IsFiniteSet(fs) /\ Cardinality(fs) = Len(ids)
  <2>1. ids \in [D -> fs]
    BY <1>1
  <2>2. ids \in Bijection(D, fs)
    BY <2>1 DEF Bijection, Surjection, Injection, IsInjective, Distinct
  <2> HIDE DEF D, fs
  <2> QED BY <1>1, <2>2, FS_Bijection DEF ExistsBijection
<1>3. Cardinality(D \X {1}) = Len(ids) /\ Cardinality(fs \X {1}) = Len(ids)
  <2> HIDE DEF D, fs
  <2> QED BY <1>1, <1>2, OneOfEach
<1>4. PassesOfIds(t, ids) = D \X {1}
  BY DEF PassesOfIds
<1>5. PassesOfFiles(t, ids) = fs \X {1}
  BY DEF PassesOfFiles
<1>6. Passed(t, ids, once) = Len(ids)
  <2> HIDE DEF D, fs
  <2> QED BY <1>3, <1>4, <1>5 DEF Passed
<1> QED BY <1>1, <1>6 DEF IdRunnerCode

\* The exit code of an undisturbed measurement, step by step as it was made, agrees with
\* one look at the whole tree.
LEMMA MeasuredIsExact ==
  ASSUME NEW t \in Trees, NEW reqs \in Seq(ImpactReq), NEW ids \in Seq(Files), NEW c,
         MeasuredIn(t, reqs, ids, c)
  PROVE  /\ c = 0 => AllGreen(t, reqs)
         /\ AllGreen(t, reqs) /\ Distinct(ids) => c = 0
<1> DEFINE importable == {f \in Declared(reqs) : Report(t, f).collected \notin {"absent", "error"}}
           candidates(j) ==
             {f \in importable \cap SuffixOf[reqs[j].file] : Report(t, f).collected = "id"}
<1>1. importable = Declared(reqs) => \A j : candidates(j) = HitsIn(t, reqs, j)
  BY DEF HitsIn, Collectable
<1>2. ASSUME c = 0 PROVE AllGreen(t, reqs)
  <2>1. reqs # <<>> /\ BoundIn(t, reqs, ids) /\ RanIn(t, reqs, ids, c)
    BY <1>2 DEF MeasuredIn, StoppedIn
  <2>2. Clean(t, ids) /\ DOMAIN ids = DOMAIN reqs
    BY <1>2, <2>1, RunnerCode DEF RanIn
  <2>3. \A j \in DOMAIN reqs :
          /\ HitsIn(t, reqs, j) = {ids[j]}
          /\ reqs[j].pin # NONE => t[ids[j]] = reqs[j].pin
          /\ ids[j] \in Files /\ ids[j] \in Collectable(t, reqs)
    BY <2>1, <2>2 DEF BoundIn, HitsIn
  <2>4. \A j \in DOMAIN reqs : Report(t, ids[j]).passes \in Nat /\ Report(t, ids[j]).passes <= 1
    BY <2>3, ReportType, CollectableDeclared DEF Reports
  <2>5. \A j \in DOMAIN reqs : Report(t, ids[j]).passes = 1 /\ ~Report(t, ids[j]).failed
    BY <2>2, <2>4 DEF Clean
  <2>6. importable = Declared(reqs)
    <3>1. 1 \in DOMAIN reqs
      BY <2>1
    <3> QED BY <2>3, <3>1, CollectableDeclared
  <2>7. \A j \in DOMAIN reqs : \E f \in Files :
          /\ candidates(j) = {f}
          /\ reqs[j].pin \in {NONE, t[f]}
          /\ Report(t, f).passes = 1 /\ ~Report(t, f).failed
    BY <1>1, <2>3, <2>5, <2>6
  <2> QED BY <2>1, <2>6, <2>7 DEF AllGreen
<1>3. ASSUME AllGreen(t, reqs), Distinct(ids) PROVE c = 0
  <2>1. reqs # <<>> /\ importable = Declared(reqs)
    BY <1>3 DEF AllGreen
  <2>2. \A j \in DOMAIN reqs : \E f \in Files :
          /\ HitsIn(t, reqs, j) = {f}
          /\ reqs[j].pin \in {NONE, t[f]}
          /\ Report(t, f).passes = 1 /\ ~Report(t, f).failed
    BY <1>1, <1>3, <2>1 DEF AllGreen
  <2>3. ~StoppedIn(t, reqs, ids, c)
    <3> SUFFICES ASSUME StoppedIn(t, reqs, ids, c) PROVE FALSE
      OBVIOUS
    <3> DEFINE j == Len(ids) + 1
               H == HitsIn(t, reqs, j)
    <3>1. PICK f \in Files : H = {f} /\ reqs[j].pin \in {NONE, t[f]}
      BY <2>2 DEF StoppedIn
    <3>2. Cardinality(H) = 1 /\ H # {}
      BY <3>1, FS_Singleton
    <3>3. ~(\E g \in Files : H = {g} /\ reqs[j].pin # NONE /\ t[g] # reqs[j].pin)
      <4> HIDE DEF H
      <4> QED BY <3>1
    <3>4. \/ Cardinality(H) > 1
          \/ H = {}
          \/ \E g \in Files : H = {g} /\ reqs[j].pin # NONE /\ t[g] # reqs[j].pin
      BY DEF StoppedIn
    <3> HIDE DEF H
    <3> QED BY <3>2, <3>3, <3>4
  <2>4. BoundIn(t, reqs, ids) /\ RanIn(t, reqs, ids, c)
    BY <2>1, <2>3 DEF MeasuredIn
  <2>5. DOMAIN ids = DOMAIN reqs /\ ids # <<>>
    <3>1. 1 \in DOMAIN reqs
      BY <2>1
    <3> QED BY <2>4, <3>1 DEF RanIn
  <2>6. \A j \in DOMAIN ids : /\ Report(t, ids[j]).collected = "id"
                              /\ Report(t, ids[j]).passes = 1
                              /\ ~Report(t, ids[j]).failed
    <3>1. \A j \in DOMAIN ids : HitsIn(t, reqs, j) = {ids[j]}
      BY <2>4 DEF BoundIn
    <3>2. \A j \in DOMAIN ids : ids[j] \in Collectable(t, reqs)
      BY <3>1 DEF HitsIn
    <3>3. \A j \in DOMAIN ids : \A f : HitsIn(t, reqs, j) = {f} => f = ids[j]
      BY <3>1
    <3>4. \A j \in DOMAIN ids : Report(t, ids[j]).passes = 1 /\ ~Report(t, ids[j]).failed
      BY <2>2, <2>5, <3>3
    <3>5. \A j \in DOMAIN ids : Report(t, ids[j]).collected = "id"
      BY <3>2, CollectableDeclared
    <3> QED BY <3>4, <3>5
  <2>7. \A once \in BOOLEAN : IdRunnerCode(t, ids, once) = 0
    BY <1>3, <2>5, <2>6, AllPassOnce
  <2> QED BY <2>4, <2>7 DEF RanIn
<1> QED BY <1>2, <1>3

\* Nothing is claimed before the collection, after the call, or once it is disturbed.
LEMMA ForeseenAtRest ==
  ASSUME pc' \notin {"verify", "run", "decide"} \/ edits' # started'
  PROVE  Foreseen'
BY DEF Foreseen

\* The steps of a measurement that Foreseen speaks of.
LEMMA LoadSpecsForeseen ==
  ASSUME IInv, NEW m \in Manifests, LoadSpecs(m)
  PROVE  Foreseen'
<1>1. CASE pc' # "decide"
  BY <1>1, ForeseenAtRest DEF LoadSpecs
<1>2. CASE pc' = "decide"
  <2>1. Reqs' = <<>> /\ code' = 4
    BY <1>2 DEF LoadSpecs, Reqs
  <2> QED BY <1>2, <2>1 DEF Foreseen, MeasuredIn
<1> QED BY <1>1, <1>2

LEMMA CollectForeseen ==
  ASSUME IInv, Collect
  PROVE  Foreseen'
<1>1. matched' = <<>>
  BY DEF IInv, Progress, Collect
<1>2. collected' = Collectable(tree', Reqs') /\ pc' = "verify"
  BY DEF Collect, Reqs
<1>3. BoundIn(tree', Reqs', matched')
  BY <1>1 DEF BoundIn
<1> QED BY <1>2, <1>3 DEF Foreseen

LEMMA VerifyUnboundForeseen ==
  ASSUME IInv, Foreseen, VerifyUnbound
  PROVE  Foreseen'
<1> SUFFICES ASSUME edits = started
             PROVE  MeasuredIn(tree, Reqs, matched, code') /\ pc' = "decide"
  BY DEF Foreseen, VerifyUnbound, Stop, Reqs
<1>1. collected = Collectable(tree, Reqs) /\ BoundIn(tree, Reqs, matched)
  BY DEF Foreseen, VerifyUnbound
<1>2. Hits = HitsIn(tree, Reqs, Len(matched) + 1)
  BY <1>1 DEF Hits, Req, HitsIn, Reqs
<1>3. Reqs # <<>> /\ Len(matched) + 1 \in DOMAIN Reqs
  BY ReqsType DEF IInv, TypeOK, Progress, VerifyUnbound
<1>4. StoppedIn(tree, Reqs, matched, code') /\ pc' = "decide"
  BY <1>1, <1>2, <1>3 DEF VerifyUnbound, Stop, StoppedIn
<1> QED BY <1>1, <1>3, <1>4 DEF MeasuredIn

LEMMA VerifyBoundForeseen ==
  ASSUME IInv, Foreseen, NEW f \in Files, VerifyBound(f)
  PROVE  Foreseen'
<1> DEFINE n == Len(matched) + 1
<1>1. /\ pc = "verify" /\ Hits = {f} /\ Reqs' = Reqs
      /\ UNCHANGED <<tree, edits, call, started, collected>>
      /\ Req = Reqs[n]
  BY DEF VerifyBound, Reqs, Req
<1> SUFFICES ASSUME edits = started
             PROVE  Foreseen'
  BY <1>1 DEF Foreseen
<1>2. collected = Collectable(tree, Reqs) /\ BoundIn(tree, Reqs, matched)
  BY <1>1 DEF Foreseen
<1>3. HitsIn(tree, Reqs, n) = {f}
  BY <1>1, <1>2 DEF Hits, HitsIn
<1>4. /\ Reqs # <<>> /\ n \in DOMAIN Reqs
      /\ matched \in Seq(Files)
  BY <1>1, ReqsType DEF IInv, TypeOK, Progress
<1>5. tree[f] # ABSENT
  BY <1>3, CollectableDeclared DEF HitsIn
<1>6. CASE Req.pin # NONE /\ tree[f] # Req.pin
  <2>1. pc' = "decide" /\ code' = 6 /\ matched' = matched
    BY <1>5, <1>6 DEF VerifyBound, Stop
  <2>2. StoppedIn(tree, Reqs, matched, code')
    BY <1>1, <1>3, <1>4, <1>6, <2>1 DEF StoppedIn
  <2>3. MeasuredIn(tree, Reqs, matched, code')
    BY <1>2, <1>4, <2>2 DEF MeasuredIn
  <2> QED BY <1>1, <2>1, <2>3 DEF Foreseen
<1>7. CASE Req.pin = NONE \/ tree[f] = Req.pin
  <2>1. Match(f)
    BY <1>5, <1>7 DEF VerifyBound
  <2>2. matched' = Append(matched, f) /\ pc' \in {"verify", "run"}
    BY <2>1 DEF Match
  <2>3. BoundIn(tree, Reqs, matched')
    <3>1. /\ DOMAIN matched' = DOMAIN matched \cup {n} /\ matched'[n] = f
          /\ \A j \in DOMAIN matched : matched'[j] = matched[j]
      BY <1>4, <2>2
    <3> QED BY <1>1, <1>2, <1>3, <1>4, <1>7, <3>1 DEF BoundIn
  <2> QED BY <1>1, <1>2, <2>2, <2>3 DEF Foreseen
<1> QED BY <1>6, <1>7

LEMMA RunMandatedForeseen ==
  ASSUME IInv, Foreseen, NEW once \in BOOLEAN, RunMandated(once)
  PROVE  Foreseen'
<1> SUFFICES ASSUME edits = started
             PROVE  MeasuredIn(tree, Reqs, matched, code') /\ pc' = "decide"
  BY DEF Foreseen, RunMandated, Reqs
<1>1. BoundIn(tree, Reqs, matched)
  BY DEF Foreseen, RunMandated
<1>2. Reqs # <<>> /\ DOMAIN matched = DOMAIN Reqs
  BY ReqsType DEF IInv, TypeOK, Progress, RunMandated
<1>3. RanIn(tree, Reqs, matched, code') /\ pc' = "decide"
  BY <1>1, <1>2 DEF RunMandated, RanIn
<1> QED BY <1>1, <1>2, <1>3 DEF MeasuredIn

\* Returning keeps what is known of the log ...
LEMMA ReturnRepeats ==
  ASSUME IInv, \A e \in Finished : Repeats(e),
         NEW e, log' = Append(log, e), Repeats(e)
  PROVE  \A f \in Finished' : Repeats(f)
<1>1. log \in Seq(Finished)
  BY DEF IInv, Entries
<1>2. Finished' = Finished \cup {e}
  BY <1>1, FinishedGrows
<1> QED BY <1>2

\* A receipt that is not of an evaluation, or a call that was disturbed.
LEMMA OtherRepeats ==
  ASSUME IInv, Repeatable, UNCHANGED <<tree, edits>>,
         NEW receipt, NEW k, NEW begun, NEW reqs \in Seq(Entry), NEW contents,
         Return(receipt, k, begun, reqs, contents),
         \/ k.kind # "measured-mandated"
         \/ receipt.exit = NONE
         \/ /\ receipt.matched \in Seq(Files)
            /\ MeasuredIn(tree, Exact(reqs), receipt.matched, receipt.exit)
         \/ begun # edits
  PROVE  Repeatable'
<1> DEFINE e == [receipt |-> receipt, call |-> k, required |-> reqs,
                 start |-> begun, end |-> edits, tree |-> tree, ran |-> contents]
<1>1. log' = Append(log, e) /\ pc' = "idle"
  BY DEF Return, Leave
<1>2. tree \in Trees
  BY DEF IInv, TypeOK
<1>3. Repeats(e)
  BY <1>2 DEF Repeats
<1> HIDE DEF e
<1>4. \A f \in Finished' : Repeats(f)
  BY <1>1, <1>3, ReturnRepeats DEF Repeatable
<1> QED BY <1>1, <1>4, ForeseenAtRest DEF Repeatable

\* ... and all other steps leave the log alone.
LEMMA FinishedKept == UNCHANGED log => UNCHANGED Finished
BY DEF Finished

\* One lemma for each way out of a call, and one for all steps together.
LEMMA RaiseRepeatable ==
  ASSUME Repeatable, Raise
  PROVE  Repeatable'
BY ForeseenAtRest, FinishedKept DEF Repeatable, Raise, Leave

LEMMA CallRepeatable ==
  ASSUME IInv, Repeatable, NEW k \in Calls,
         RefuseUnmeasurable(k) \/ EvaluateAsserted(k) \/ BeginMeasured(k)
  PROVE  Repeatable'
<1>1. <<>> \in Seq(Entry)
  OBVIOUS
<1>2. CASE RefuseUnmeasurable(k)
  <2> DEFINE receipt == BuildGateReceipt(k, Result(k.from, k.to, "FAIL", UNKNOWN),
                                         <<>>, NoEvidence, NONE)
  <2>1. Return(receipt, k, edits, <<>>, EmptyDict) /\ UNCHANGED <<tree, edits>>
    BY <1>2 DEF RefuseUnmeasurable
  <2>2. receipt.exit = NONE
    BY ReceiptFields DEF NoEvidence
  <2> HIDE DEF receipt
  <2> QED BY <1>1, <2>1, <2>2, OtherRepeats
<1>3. CASE EvaluateAsserted(k)
  BY <1>1, <1>3, OtherRepeats DEF EvaluateAsserted
<1>4. CASE BeginMeasured(k)
  BY <1>4, ForeseenAtRest, FinishedKept DEF Repeatable, BeginMeasured
<1> QED BY <1>2, <1>3, <1>4

LEMMA UnevaluableRepeatable ==
  ASSUME IInv, Repeatable, NEW error, Unevaluable(error)
  PROVE  Repeatable'
<1> DEFINE receipt == BuildGateReceipt(call, Result(call.from, call.to, "ERROR", UNKNOWN),
                                       <<>>, NoEvidence, error)
<1>1. Return(receipt, call, started, required, EmptyDict) /\ UNCHANGED <<tree, edits>>
  BY DEF Unevaluable
<1>2. receipt.exit = NONE
  BY ReceiptFields DEF NoEvidence
<1>3. required \in Seq(Entry)
  BY DEF IInv, TypeOK
<1> HIDE DEF receipt
<1> QED BY <1>1, <1>2, <1>3, OtherRepeats

LEMMA DecideRepeatable ==
  ASSUME IInv, Repeatable, Decide
  PROVE  Repeatable'
<1> DEFINE result == EvaluateTransition(call.from, call.to, code = 0,
                                        call.conditional, call.skipped)
           evidence == [matched |-> matched, observed |-> observed, exit |-> code]
           receipt == BuildGateReceipt(call, result, required, evidence, NONE)
<1>1. /\ pc = "decide" /\ UNCHANGED <<tree, edits>>
      /\ IF result.verdict \in Raised THEN Raise
         ELSE Return(receipt, call, started, required, ran)
  BY DEF Decide
<1>2. receipt.matched = matched /\ receipt.exit = code
  BY ReceiptFields
<1>3. required \in Seq(Entry) /\ matched \in Seq(Files)
  BY DEF IInv, TypeOK
<1>4. started = edits /\ call.kind = "measured-mandated" =>
        MeasuredIn(tree, Exact(required), matched, code)
  BY <1>1 DEF Repeatable, Foreseen, Reqs
<1> HIDE DEF result, receipt
<1> QED BY <1>1, <1>2, <1>3, <1>4, RaiseRepeatable, OtherRepeats

LEMMA NextRepeatable == IInv /\ Repeatable /\ [Next]_vars => Repeatable'
<1> SUFFICES ASSUME IInv, Repeatable, [Next]_vars PROVE Repeatable'
  OBVIOUS
<1>1. ASSUME NEW k \in Calls, RefuseUnmeasurable(k) \/ EvaluateAsserted(k) \/ BeginMeasured(k)
      PROVE  Repeatable'
  BY <1>1, CallRepeatable
<1>2. CASE GateStep
  <2>1. CASE SourceFails \/ MeasurementFails
    BY <2>1, UnevaluableRepeatable DEF SourceFails, MeasurementFails
  <2>2. ASSUME NEW m \in Manifests, LoadSpecs(m) PROVE Repeatable'
    BY <2>2, LoadSpecsForeseen, FinishedKept DEF Repeatable, LoadSpecs
  <2>3. CASE Collect
    BY <2>3, CollectForeseen, FinishedKept DEF Repeatable, Collect
  <2>4. CASE VerifyUnbound
    BY <2>4, VerifyUnboundForeseen, FinishedKept DEF Repeatable, VerifyUnbound
  <2>5. ASSUME NEW f \in Files, VerifyBound(f) PROVE Repeatable'
    BY <2>5, VerifyBoundForeseen, FinishedKept DEF Repeatable, VerifyBound
  <2>6. ASSUME NEW once \in BOOLEAN, RunMandated(once) PROVE Repeatable'
    BY <2>6, RunMandatedForeseen, FinishedKept DEF Repeatable, RunMandated
  <2>7. CASE RunBare
    <3>1. call'.kind # "measured-mandated" /\ pc' = "decide"
      BY <2>7 DEF RunBare, IInv, Progress
    <3>2. Foreseen'
      BY <3>1 DEF Foreseen
    <3> QED BY <2>7, <3>2, FinishedKept DEF Repeatable, RunBare
  <2>8. CASE BareFails
    BY <2>8, RaiseRepeatable DEF BareFails
  <2>9. CASE Decide
    BY <2>9, DecideRepeatable
  <2> QED BY <1>2, <2>1, <2>2, <2>3, <2>4, <2>5, <2>6, <2>7, <2>8, <2>9 DEF GateStep
<1>3. ASSUME NEW p \in Paths, NEW x \in CanHold[p], Edit(p, x)
      PROVE  Repeatable'
  <2>1. edits' # started'
    BY <1>3 DEF IInv, TypeOK, Edit, call_vars
  <2> QED BY <1>3, <2>1, ForeseenAtRest, FinishedKept DEF Repeatable, Edit
<1>4. CASE UNCHANGED vars
  BY <1>4, FinishedKept DEF vars, call_vars, Repeatable, Foreseen, Reqs
<1> QED BY <1>1, <1>2, <1>3, <1>4 DEF Next

LEMMA InitRepeatable == Init => Repeatable
BY DEF Init, Repeatable, Foreseen, Finished

\* How an undisturbed measurement has come to its exit code is known.
THEOREM RepeatableHolds == Spec => []Repeatable
BY InitRepeatable, NextRepeatable, IInvHolds, PTL DEF Spec

LEMMA RepeatableIsExact == Repeatable => UndisturbedIsExact
<1> SUFFICES ASSUME Repeatable, NEW e \in Finished,
                    e.call.kind = "measured-mandated", e.receipt.exit # NONE, e.start = e.end
             PROVE  Exactly(e)
  BY DEF UndisturbedIsExact
<1>1. Repeats(e)
  BY DEF Repeatable
<1>2. Exact(e.required) \in Seq(ImpactReq)
  BY <1>1, ExactType DEF Repeats
<1>3. /\ e.receipt.exit = 0 => AllGreen(e.tree, Exact(e.required))
      /\ AllGreen(e.tree, Exact(e.required)) /\ Distinct(e.receipt.matched) => e.receipt.exit = 0
  BY <1>1, <1>2, MeasuredIsExact DEF Repeats
<1> QED BY <1>3 DEF Exactly, Distinct

\* Left alone, pytest_collector, the loop of measure_mandated and pytest_id_runner together
\* end with 0 exactly when the declared files, and nothing but they, are green.
THEOREM UndisturbedCallsAreExact == Spec => []UndisturbedIsExact
BY RepeatableIsExact, RepeatableHolds, PTL
===============================================================================
