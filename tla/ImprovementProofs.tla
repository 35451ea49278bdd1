------------------------- MODULE ImprovementProofs --------------------------
(***************************************************************************)
(* The improvement loop's worker calls are bounded by the retry limit and  *)
(* by the ceiling, and a retry limit within the ceiling always stops the   *)
(* loop before it; a merge needs every check passed and the worker's word; *)
(* and a worker stuck on one failure is not sent out again: for every plan *)
(* of checks and all limits.                                               *)
(***************************************************************************)
EXTENDS Improvement, FiniteSetTheorems, TLAPS

\* The part of the type invariant that the counting needs.
CountTypes ==
    /\ retryMax \in Nat /\ retryMax > 0
    /\ pc \in {"develop", "verify", "decide", "improve", "settle", "done"}
    /\ iterations \in Nat
    /\ status \in Statuses
    /\ reports \in Seq(WorkerAnswers)

\* Worker calls and iterations go together: one call more than completed iterations
\* while a verification is due, and an iteration is begun only below the retry limit.
InStep ==
    /\ pc = "develop" => Len(reports) = 0 /\ iterations = 0
    /\ pc \in {"verify", "decide"} => Len(reports) = iterations + 1 /\ iterations < retryMax
    /\ pc = "decide" => iterations < MaxIterations
    /\ pc = "improve" => Len(reports) = iterations /\ iterations < retryMax
    /\ pc = "improve" => iterations <= MaxIterations
    /\ pc = "verify" => iterations <= MaxIterations

CountInv == CountTypes /\ InStep /\ WorkerCallsBounded /\ PolicyStops

-----------------------------------------------------------------------------
\* The limits are positive numbers.
LEMMA LimitTypes ==
    /\ MaxIterations \in Nat /\ MaxIterations > 0
    /\ \A n \in RetryLimits : n \in Nat /\ n > 0
BY LimitsAssumption

\* The policy answers with one of the loop's statuses, and lets it go on only below
\* the retry limit.
LEMMA PolicyAnswers ==
    ASSUME NEW n \in Nat, retryMax \in Nat, NEW stuck, NEW o
    PROVE  /\ StopDecision(n, stuck, o) \in Statuses \ {"exhausted"}
           /\ StopDecision(n, stuck, o) = "running" => n < retryMax
BY DEF StopDecision, ShouldRetry, ShouldEscalate, Statuses

\* The counting invariant holds throughout, by cases on the steps of the execution.
LEMMA CountInvHolds == Spec => []CountInv
<1> USE LimitTypes
<1>1. Init => CountInv
  BY DEF Init, CountInv, CountTypes, InStep, WorkerCallsBounded, PolicyStops,
         WorkerCalls, Statuses
<1>2. CountInv /\ [Next]_vars => CountInv'
  <2> SUFFICES ASSUME CountInv, [Next]_vars
               PROVE  CountInv'
    OBVIOUS
  <2> USE DEF CountInv, CountTypes, InStep, WorkerCallsBounded, PolicyStops, WorkerCalls
  <2>1. CASE Develop
    <3>1. PICK answer \in WorkerAnswers : reports' = Append(reports, answer)
      BY <2>1 DEF Develop
    <3>2. reports' \in Seq(WorkerAnswers) /\ Len(reports') = 1
      BY <2>1, <3>1 DEF Develop
    <3> QED BY <2>1, <3>2 DEF Develop, loop
  <2>2. CASE Exhaust
    BY <2>2 DEF Exhaust, loop, Statuses
  <2>3. CASE Verify
    BY <2>3 DEF Verify, loop
  <2>4. CASE Pass
    BY <2>4 DEF Pass, Statuses
  <2>5. CASE Decide
    <3> DEFINE answer == StopDecision(iterations + 1, Repeats >= StuckThreshold,
                                      Aggregate(results))
    <3>1. answer \in Statuses \ {"exhausted"} /\ (answer = "running" => iterations + 1 < retryMax)
      <4>1. iterations + 1 \in Nat
        OBVIOUS
      <4>2. retryMax \in Nat
        OBVIOUS
      <4> QED BY ONLY <4>1, <4>2, PolicyAnswers
    <3>2. /\ pc = "decide" /\ status' = answer /\ iterations' = iterations + 1
          /\ pc' = (IF status' = "running" THEN "improve" ELSE "settle")
          /\ reports' = reports /\ retryMax' = retryMax
      BY <2>5 DEF Decide
    <3> HIDE DEF answer
    <3> QED BY <3>1, <3>2
  <2>6. CASE Improve
    <3>1. PICK answer \in WorkerAnswers : reports' = Append(reports, answer)
      BY <2>6 DEF Improve
    <3>2. reports' \in Seq(WorkerAnswers) /\ Len(reports') = Len(reports) + 1
      BY <3>1
    <3> QED BY <2>6, <3>2 DEF Improve, loop
  <2>7. CASE Settle
    BY <2>7 DEF Settle, loop
  <2>8. CASE CloneMoves
    BY <2>8 DEF CloneMoves, loop
  <2>9. CASE UNCHANGED vars
    BY <2>9 DEF vars
  <2> QED
    BY <2>1, <2>2, <2>3, <2>4, <2>5, <2>6, <2>7, <2>8, <2>9 DEF Next, Execution
<1> QED BY <1>1, <1>2, PTL DEF Spec

\* Whatever verification and the worker answer, an execution makes at most retryMax
\* worker calls (FailurePolicy.Classify over RetryPolicy.Decide).
THEOREM WorkerBounded == Spec => []WorkerCallsBounded
<1>1. CountInv => WorkerCallsBounded
  BY DEF CountInv
<1> QED BY <1>1, CountInvHolds, PTL

\* With a retry limit within MaxIterations the loop never reports "exhausted": the
\* policy is what stops it.
THEOREM PolicyDecides == Spec => []PolicyStops
<1>1. CountInv => PolicyStops
  BY DEF CountInv
<1> QED BY <1>1, CountInvHolds, PTL

-----------------------------------------------------------------------------
\* Every check's result carries one of the five outcomes.
LEMMA OutcomeTyped == ASSUME NEW x \in Result PROVE x[1] \in Outcomes
<1>1. CASE x = <<"pass">>
  BY <1>1 DEF Outcomes
<1>2. CASE x \in Failures
  BY <1>2 DEF Failures, Outcomes
<1> QED BY <1>1, <1>2 DEF Result

\* Some result has the outcome Aggregate returns, and none is more severe.
LEMMA AggregateIsWorst ==
    ASSUME NEW r \in [Plan -> Result]
    PROVE  /\ Aggregate(r) \in Outcomes
           /\ \A c \in Plan : Severity(r[c][1]) <= Severity(Aggregate(r))
<1> DEFINE Worst(o) == /\ \E c \in Plan : r[c][1] = o
                       /\ \A c \in Plan : Severity(r[c][1]) <= Severity(o)
           Has(o) == \E c \in Plan : r[c][1] = o
<1>1. \A c \in Plan : r[c][1] \in Outcomes
  BY OutcomeTyped
<1>2. Has("fail") \/ Has("blocked") \/ Has("inconclusive") \/ Has("deferred") \/ Has("pass")
  BY <1>1 DEF Outcomes, Plan
<1>3. \E o \in Outcomes : Worst(o)
  <2>1. CASE Has("fail")
    <3>1. Worst("fail") BY <2>1, <1>1 DEF Severity, Outcomes
    <3> QED BY <3>1 DEF Outcomes
  <2>2. CASE Has("blocked") /\ ~Has("fail")
    <3>1. Worst("blocked") BY <2>2, <1>1 DEF Severity, Outcomes
    <3> QED BY <3>1 DEF Outcomes
  <2>3. CASE Has("inconclusive") /\ ~Has("fail") /\ ~Has("blocked")
    <3>1. Worst("inconclusive") BY <2>3, <1>1 DEF Severity, Outcomes
    <3> QED BY <3>1 DEF Outcomes
  <2>4. CASE Has("deferred") /\ ~Has("fail") /\ ~Has("blocked") /\ ~Has("inconclusive")
    <3>1. Worst("deferred") BY <2>4, <1>1 DEF Severity, Outcomes
    <3> QED BY <3>1 DEF Outcomes
  <2>5. CASE Has("pass") /\ ~Has("fail") /\ ~Has("blocked") /\ ~Has("inconclusive") /\ ~Has("deferred")
    <3>1. Worst("pass") BY <2>5, <1>1 DEF Severity, Outcomes
    <3> QED BY <3>1 DEF Outcomes
  <2> HIDE DEF Worst, Has
  <2> QED BY <1>2, <2>1, <2>2, <2>3, <2>4, <2>5
<1>4. Aggregate(r) = CHOOSE o \in Outcomes : Worst(o)
  BY DEF Aggregate
<1>5. Aggregate(r) \in Outcomes /\ Worst(Aggregate(r))
  <2> HIDE DEF Worst
  <2> QED BY <1>3, <1>4
<1> QED BY <1>5

\* The aggregate passes only if every check passed.
LEMMA AggregatePass ==
    ASSUME NEW r \in [Plan -> Result], Aggregate(r) = "pass"
    PROVE  \A c \in Plan : r[c][1] = "pass"
<1>1. \A c \in Plan : Severity(r[c][1]) <= 0
  BY AggregateIsWorst DEF Severity
<1>2. \A c \in Plan : r[c][1] \in Outcomes
  BY OutcomeTyped
<1> QED BY <1>1, <1>2 DEF Severity, Outcomes

\* Some worker call answered that the work is complete, and only errors came after it.
Accepted ==
    \E k \in 1..WorkerCalls :
        /\ reports[k] = "ok"
        /\ \A m \in k + 1..WorkerCalls : reports[m] = "error"

AcceptInv ==
    /\ results \in [Plan -> Result]
    /\ reports \in Seq(WorkerAnswers)
    /\ lastOK => Accepted
    /\ status = "passed" => pc \in {"settle", "done"} /\ \A c \in Plan : results[c][1] = "pass"
    /\ disposition = "merge" => pc = "done" /\ status = "passed" /\ lastOK

\* The completion signal follows the worker's answers: an "ok" sets it, an error leaves it.
LEMMA SignalFollows ==
    ASSUME AcceptInv, NEW answer \in WorkerAnswers, reports' = Append(reports, answer),
           lastOK' => answer = "ok" \/ (answer = "error" /\ lastOK)
    PROVE  reports' \in Seq(WorkerAnswers) /\ (lastOK' => Accepted')
<1> USE DEF AcceptInv, Accepted, WorkerCalls
<1>1. /\ reports' \in Seq(WorkerAnswers) /\ Len(reports') = Len(reports) + 1
      /\ Len(reports) \in Nat
      /\ reports'[Len(reports) + 1] = answer
      /\ \A k \in 1..Len(reports) : reports'[k] = reports[k]
  OBVIOUS
<1>2. CASE lastOK' /\ answer = "ok"
  <2>1. Len(reports) + 1 \in 1..Len(reports') /\ reports'[Len(reports) + 1] = "ok"
        /\ \A m \in Len(reports) + 1 + 1..Len(reports') : reports'[m] = "error"
    BY <1>1, <1>2
  <2> QED BY <1>1, <2>1
<1>3. CASE lastOK' /\ answer = "error" /\ lastOK
  <2>1. PICK k \in 1..Len(reports) : /\ reports[k] = "ok"
                                     /\ \A m \in k + 1..Len(reports) : reports[m] = "error"
    BY <1>3
  <2>2. k \in 1..Len(reports') /\ reports'[k] = "ok"
        /\ \A m \in k + 1..Len(reports') : reports'[m] = "error"
    BY <1>1, <1>3, <2>1
  <2> QED BY <1>1, <2>2
<1> QED BY <1>1, <1>2, <1>3

\* By cases on the steps of the execution.
LEMMA AcceptInductive == AcceptInv /\ [Next]_vars => AcceptInv'
<1> SUFFICES ASSUME AcceptInv, [Next]_vars PROVE AcceptInv'
  OBVIOUS
<1>1. CASE Develop
  <2>1. PICK answer \in WorkerAnswers : lastOK' = (answer = "ok") /\ reports' = Append(reports, answer)
    BY <1>1 DEF Develop
  <2>2. reports' \in Seq(WorkerAnswers) /\ (lastOK' => Accepted')
    BY <2>1, SignalFollows
  <2> QED BY <1>1, <2>2 DEF AcceptInv, Develop, loop
<1>2. CASE Improve
  <2>1. PICK answer \in WorkerAnswers :
            lastOK' = (IF answer = "error" THEN lastOK ELSE answer = "ok") /\ reports' = Append(reports, answer)
    BY <1>2 DEF Improve
  <2>2. lastOK' => answer = "ok" \/ (answer = "error" /\ lastOK)
    BY <2>1
  <2>3. reports' \in Seq(WorkerAnswers) /\ (lastOK' => Accepted')
    BY <2>1, <2>2, SignalFollows
  <2> QED BY <1>2, <2>3 DEF AcceptInv, Improve, loop
<1>3. CASE Exhaust
  BY <1>3 DEF AcceptInv, Accepted, WorkerCalls, Exhaust, loop
<1>4. CASE Verify
  <2>1. results' \in [Plan -> Result]
    BY <1>4 DEF Verify, Verifications
  <2> QED BY <1>4, <2>1 DEF AcceptInv, Accepted, WorkerCalls, Verify, loop
<1>5. CASE Pass
  <2>1. \A c \in Plan : results[c][1] = "pass"
    BY <1>5, AggregatePass DEF AcceptInv, Pass
  <2> QED BY <1>5, <2>1 DEF AcceptInv, Accepted, WorkerCalls, Pass
<1>6. CASE Decide
  <2>1. status' # "passed"
    BY <1>6 DEF Decide, StopDecision
  <2> QED BY <1>6, <2>1 DEF AcceptInv, Accepted, WorkerCalls, Decide
<1>7. CASE Settle
  BY <1>7 DEF AcceptInv, Accepted, WorkerCalls, Settle, loop
<1>8. CASE CloneMoves \/ UNCHANGED vars
  BY <1>8 DEF AcceptInv, Accepted, WorkerCalls, CloneMoves, loop, vars
<1> QED
  BY <1>1, <1>2, <1>3, <1>4, <1>5, <1>6, <1>7, <1>8 DEF Next, Execution

\* Whatever the checks and the worker answer and in whatever order, an issue goes to the merge
\* only when every check passed last and the worker's completion signal still stands.
THEOREM MergeIsAccepted == Spec => []MergedWasAccepted
<1>1. Init => AcceptInv
  <2>1. <<"pass">> \in Result
    BY DEF Result
  <2> QED BY <2>1 DEF Init, AcceptInv, NoResults
<1>2. AcceptInv => MergedWasAccepted
  BY DEF AcceptInv, Accepted, MergedWasAccepted
<1> QED BY <1>1, <1>2, AcceptInductive, PTL DEF Spec

-----------------------------------------------------------------------------
\* The checks that fail according to a signature.
FailingIn(sig) == {c \in Plan : \E x \in sig : x[1] = c}

\* The number of failures is a function of the signature: two verifications with one
\* signature have no progress between them.
LEMMA CountBySignature ==
    ASSUME NEW r
    PROVE  CountFailures(r) = Cardinality(FailingIn(Signature(r)))
<1>1. {c \in Plan : r[c][1] # "pass"} = FailingIn(Signature(r))
  <2>1. ASSUME NEW c \in Plan PROVE r[c][1] # "pass" <=> \E x \in Signature(r) : x[1] = c
    <3>1. ASSUME r[c][1] # "pass" PROVE \E x \in Signature(r) : x[1] = c
      <4>1. <<c, r[c]>> \in Signature(r) /\ <<c, r[c]>>[1] = c
        BY <3>1 DEF Signature
      <4> QED BY <4>1
    <3>2. ASSUME NEW x \in Signature(r), x[1] = c PROVE r[c][1] # "pass"
      <4>1. PICK d \in Plan : r[d][1] # "pass" /\ x = <<d, r[d]>>
        BY <3>2 DEF Signature
      <4>2. d = c
        BY <3>2, <4>1
      <4> QED BY <4>1, <4>2
    <3> QED BY <3>1, <3>2
  <2> QED BY <2>1 DEF FailingIn
<1> QED BY <1>1 DEF CountFailures

\* The plan is finite, so counts are natural numbers.
LEMMA CountsAreNat == ASSUME NEW sig PROVE Cardinality(FailingIn(sig)) \in Nat
<1>1. IsFiniteSet(Plan)
  <2>1. IsFiniteSet(WebChecks \cup {"build"})
    BY ChecksAssumption, FS_AddElement
  <2>2. Plan = WebChecks \cup {"build"}
    BY DEF Plan
  <2> QED BY <2>1, <2>2
<1>2. FailingIn(sig) \subseteq Plan
  BY DEF FailingIn
<1>3. IsFiniteSet(FailingIn(sig))
  BY <1>1, <1>2, FS_Subset
<1> QED BY <1>3, FS_CardinalityType

\* While the loop goes on, the last record is the last signature with its count, and sigRepeat
\* counts at least the records before it that have it too.
Repeated(m) == \A k \in iterations - m..iterations : records[k].sig = lastSig
StuckInv ==
    /\ iterations \in Nat /\ sigRepeat \in Nat
    /\ records \in Seq([failures : Nat, sig : Signatures]) /\ Len(records) = iterations
    /\ pc = "develop" => iterations = 0
    /\ status # "passed" => /\ iterations > 0 => /\ records[iterations].sig = lastSig
                                                  /\ prevFailures = Cardinality(FailingIn(lastSig))
                            /\ \A m \in 0..iterations - 1 : Repeated(m) => m <= sigRepeat
    /\ status = "passed" => pc \in {"settle", "done"}
    /\ results \in [Plan -> Result]
    /\ pc = "improve" => sigRepeat < StuckThreshold

\* A signature is a set of checks with what they reported.
LEMMA SignatureTyped == ASSUME NEW r \in [Plan -> Result] PROVE Signature(r) \in Signatures
<1>1. ASSUME NEW c \in Plan, r[c][1] # "pass" PROVE <<c, r[c]>> \in Plan \X Failures
  BY <1>1 DEF Result
<1> QED BY <1>1 DEF Signature, Signatures

\* Recording an iteration.
LEMMA RecordAdded ==
    ASSUME StuckInv, iterations' = iterations + 1, records' = Append(records, Recorded)
    PROVE  /\ iterations' \in Nat
           /\ records' \in Seq([failures : Nat, sig : Signatures]) /\ Len(records') = iterations'
           /\ records'[iterations'].sig = Signature(results)
           /\ \A k \in 1..iterations : records'[k] = records[k]
<1> USE DEF StuckInv
<1>1. CountFailures(results) \in Nat
  BY CountBySignature, CountsAreNat
<1>2. Recorded \in [failures : Nat, sig : Signatures] /\ Recorded.sig = Signature(results)
  BY <1>1, SignatureTyped DEF Recorded
<1> HIDE DEF Recorded
<1> QED BY <1>2

\* One more verification with the signature of those before it is one more repeat.
LEMMA RepeatCounted ==
    ASSUME StuckInv, Decide, status # "passed"
    PROVE  /\ sigRepeat' \in Nat
           /\ records'[iterations'].sig = lastSig' /\ prevFailures' = Cardinality(FailingIn(lastSig'))
           /\ \A m \in 0..iterations' - 1 : Repeated(m)' => m <= sigRepeat'
<1> DEFINE sig == Signature(results)
<1>1. /\ iterations' = iterations + 1 /\ lastSig' = sig /\ sigRepeat' = Repeats
      /\ prevFailures' = CountFailures(results) /\ records' = Append(records, Recorded)
  BY DEF Decide
<1>2. /\ records'[iterations'].sig = sig
      /\ \A k \in 1..iterations : records'[k] = records[k]
  BY <1>1, RecordAdded
<1>3. CountFailures(results) = Cardinality(FailingIn(sig)) /\ Cardinality(FailingIn(sig)) \in Nat
  BY CountBySignature, CountsAreNat
<1>4. iterations \in Nat /\ sigRepeat \in Nat
  BY DEF StuckInv
<1>5. sigRepeat' \in Nat
  BY <1>1, <1>4 DEF Repeats
<1>6. ASSUME NEW m \in 0..iterations' - 1, Repeated(m)' PROVE m <= sigRepeat'
  <2>1. CASE m = 0
    BY <2>1, <1>5
  <2>2. CASE m # 0
    <3>1. m - 1 \in 0..iterations - 1 /\ iterations \in 1..iterations /\ iterations > 0
      BY <2>2, <1>1, <1>4
    <3>2. \A k \in iterations - (m - 1)..iterations :
             k \in 1..iterations /\ k \in iterations' - m..iterations'
      BY <3>1, <1>1, <1>4
    <3>3. \A k \in iterations - (m - 1)..iterations : records[k].sig = sig
      BY <3>2, <1>1, <1>2, <1>6 DEF Repeated
    <3>4. iterations \in iterations - (m - 1)..iterations
      BY <3>1, <1>4
    <3>5. records[iterations].sig = sig
      BY <3>3, <3>4
    <3>6. lastSig = sig /\ prevFailures = Cardinality(FailingIn(sig))
      BY <3>1, <3>5 DEF StuckInv
    <3>7. Repeats = sigRepeat + 1
      BY <3>6, <1>3 DEF Repeats, Delta
    <3>8. Repeated(m - 1)
      BY <3>3, <3>6 DEF Repeated
    <3>9. m - 1 <= sigRepeat
      BY <3>1, <3>8 DEF StuckInv
    <3> QED BY <3>7, <3>9, <1>1, <1>4
  <2> QED BY <2>1, <2>2
<1> QED BY <1>1, <1>2, <1>3, <1>5, <1>6

\* The policy lets the loop go on only while it is not stuck.
LEMMA NotStuck ==
    ASSUME NEW n \in Nat, NEW stuck, NEW o, StopDecision(n, stuck, o) = "running"
    PROVE  ~stuck
BY DEF StopDecision, ShouldRetry, ShouldEscalate

\* Only Decide lets the loop go on, and it counts.
LEMMA StuckInductive == StuckInv /\ [Next]_vars => StuckInv'
<1> SUFFICES ASSUME StuckInv, [Next]_vars PROVE StuckInv'
  OBVIOUS
<1>1. CASE Decide
  <2>1. status # "passed"
    BY <1>1 DEF StuckInv, Decide
  <2>2. /\ iterations' \in Nat /\ Len(records') = iterations'
        /\ records' \in Seq([failures : Nat, sig : Signatures])
    BY <1>1, RecordAdded DEF Decide
  <2>3. /\ sigRepeat' \in Nat
        /\ records'[iterations'].sig = lastSig' /\ prevFailures' = Cardinality(FailingIn(lastSig'))
        /\ \A m \in 0..iterations' - 1 : Repeated(m)' => m <= sigRepeat'
    BY <1>1, <2>1, RepeatCounted
  <2>4. status' # "passed"
    BY <1>1 DEF Decide, StopDecision
  <2>5. pc' = "improve" => sigRepeat' < StuckThreshold
    <3>1. SUFFICES ASSUME pc' = "improve" PROVE sigRepeat' < StuckThreshold
      OBVIOUS
    <3>2. /\ status' = StopDecision(iterations + 1, Repeats >= StuckThreshold, Aggregate(results))
          /\ status' = "running" /\ sigRepeat' = Repeats
      BY <1>1, <3>1 DEF Decide
    <3>3. iterations + 1 \in Nat
      BY DEF StuckInv
    <3>4. ~(Repeats >= StuckThreshold)
      BY <3>2, <3>3, NotStuck, Zenon
    <3> QED BY <3>2, <3>4, <2>3, LimitsAssumption
  <2>6. pc' \in {"improve", "settle"} /\ results' = results
    BY <1>1 DEF Decide
  <2> QED BY <2>2, <2>3, <2>4, <2>5, <2>6 DEF StuckInv
<1>2. CASE Pass
  <2>1. /\ iterations' \in Nat /\ Len(records') = iterations'
        /\ records' \in Seq([failures : Nat, sig : Signatures])
    BY <1>2, RecordAdded DEF Pass
  <2> QED BY <1>2, <2>1 DEF StuckInv, Pass
<1>3. CASE Develop
  BY <1>3 DEF StuckInv, Repeated, Develop, loop
<1>4. CASE Improve
  BY <1>4 DEF StuckInv, Repeated, Improve, loop
<1>5. CASE Exhaust
  BY <1>5 DEF StuckInv, Repeated, Exhaust, loop
<1>6. CASE Verify
  <2>1. results' \in [Plan -> Result]
    BY <1>6 DEF Verify, Verifications
  <2> QED BY <1>6, <2>1 DEF StuckInv, Repeated, Verify, loop
<1>7. CASE Settle
  BY <1>7 DEF StuckInv, Repeated, Settle, loop
<1>8. CASE CloneMoves \/ UNCHANGED vars
  BY <1>8 DEF StuckInv, Repeated, CloneMoves, loop, vars
<1> QED
  BY <1>1, <1>2, <1>3, <1>4, <1>5, <1>6, <1>7, <1>8 DEF Next, Execution

\* For every threshold, plan and sequence of answers: the worker is not sent out again after
\* StuckThreshold + 1 verifications in a row that failed in exactly the same way.
THEOREM StuckIsStopped == Spec => []StuckStops
<1>1. Init => StuckInv
  <2>1. <<"pass">> \in Result
    BY DEF Result
  <2> QED BY <2>1 DEF Init, StuckInv, NoResults, Repeated
<1>2. StuckInv => StuckStops
  <2>0. StuckThreshold \in Nat /\ StuckThreshold > 0
    BY LimitsAssumption
  <2> SUFFICES ASSUME StuckInv, pc = "improve", ~(iterations <= StuckThreshold),
                      \A k \in iterations - StuckThreshold .. iterations - 1 :
                          records[k].sig = records[iterations].sig
               PROVE  FALSE
    BY DEF StuckStops
  <2>1. iterations \in Nat /\ iterations > StuckThreshold
    BY <2>0 DEF StuckInv
  <2>2. status # "passed" /\ records[iterations].sig = lastSig /\ sigRepeat \in Nat
    BY <2>0, <2>1 DEF StuckInv
  <2>3. Repeated(StuckThreshold)
    BY <2>0, <2>1, <2>2 DEF Repeated
  <2>4. StuckThreshold <= sigRepeat
    BY <2>0, <2>1, <2>2, <2>3 DEF StuckInv
  <2> QED BY <2>0, <2>1, <2>2, <2>4 DEF StuckInv
<1> QED BY <1>1, <1>2, StuckInductive, PTL DEF Spec
-----------------------------------------------------------------------------
\* The number of failures is at most that of the checks.
LEMMA CountsBounded ==
    ASSUME NEW r
    PROVE  CountFailures(r) \in 0..Cardinality(Plan) /\ Cardinality(Plan) \in Nat
<1>1. IsFiniteSet(Plan)
  <2>1. IsFiniteSet(WebChecks \cup {"build"})
    BY ChecksAssumption, FS_AddElement
  <2>2. Plan = WebChecks \cup {"build"}
    BY DEF Plan
  <2> QED BY <2>1, <2>2
<1> DEFINE F == {c \in Plan : r[c][1] # "pass"}
<1>2. F \in SUBSET Plan
  OBVIOUS
<1> HIDE DEF F
<1>3. IsFiniteSet(F) /\ Cardinality(F) <= Cardinality(Plan)
  BY <1>1, <1>2, FS_Subset
<1>4. Cardinality(F) \in Nat /\ Cardinality(Plan) \in Nat
  BY <1>1, <1>3, FS_CardinalityType
<1> QED BY <1>3, <1>4 DEF CountFailures, F

\* The repeats are counted once per iteration at most: with this and the counting invariant the
\* types are inductive.
TypeInv == TypeOK /\ sigRepeat <= iterations

\* An iteration is recorded only below the ceiling.
LEMMA RecordTyped ==
    ASSUME TypeOK, CountInv, pc = "decide", iterations' = iterations + 1,
           records' = Append(records, Recorded)
    PROVE  /\ iterations' \in 0..MaxIterations
           /\ records' \in Seq(Record) /\ Len(records') = iterations'
<1>1. Recorded \in Record
  <2>1. Signature(results) \in Signatures
    BY SignatureTyped DEF TypeOK
  <2> QED BY <2>1, CountsBounded DEF Recorded, Record
<1> HIDE DEF Recorded
<1>2. records' \in Seq(Record) /\ Len(records') = Len(records) + 1
  BY <1>1 DEF TypeOK
<1>3. iterations \in Nat /\ iterations < MaxIterations /\ MaxIterations \in Nat
  BY LimitTypes DEF CountInv, CountTypes, InStep
<1> QED BY <1>2, <1>3 DEF TypeOK

\* By cases on the steps of the execution.
LEMMA TypesInductive == TypeInv /\ CountInv /\ CountInv' /\ [Next]_vars => TypeInv'
<1> SUFFICES ASSUME TypeInv, CountInv, CountInv', [Next]_vars PROVE TypeInv'
  OBVIOUS
<1>0. reports' \in Seq(WorkerAnswers) /\ status' \in Statuses /\ MaxIterations \in Nat
  BY LimitTypes DEF CountInv, CountTypes
<1>1. CASE Develop
  BY <1>0, <1>1 DEF TypeInv, TypeOK, Develop, loop
<1>2. CASE Improve
  BY <1>0, <1>2 DEF TypeInv, TypeOK, Improve, loop
<1>3. CASE Exhaust
  BY <1>0, <1>3 DEF TypeInv, TypeOK, Exhaust, loop
<1>4. CASE Verify
  <2>1. results' \in [Plan -> Result]
    BY <1>4 DEF Verify, Verifications
  <2> QED BY <1>0, <1>4, <2>1 DEF TypeInv, TypeOK, Verify, loop
<1>5. CASE Pass
  <2>1. iterations' \in 0..MaxIterations /\ records' \in Seq(Record) /\ Len(records') = iterations'
    BY <1>5, RecordTyped DEF TypeInv, Pass
  <2>2. iterations' = iterations + 1 /\ iterations \in Nat /\ sigRepeat' = sigRepeat
        /\ sigRepeat \in Nat /\ sigRepeat <= iterations
    BY <1>0, <1>5 DEF TypeInv, TypeOK, Pass
  <2>3. sigRepeat' <= iterations'
    BY <2>2
  <2> QED BY <1>0, <1>5, <2>1, <2>3 DEF TypeInv, TypeOK, Pass
<1>6. CASE Decide
  <2>1. iterations' \in 0..MaxIterations /\ records' \in Seq(Record) /\ Len(records') = iterations'
    BY <1>6, RecordTyped DEF TypeInv, Decide
  <2>2. iterations' = iterations + 1 /\ iterations \in Nat /\ sigRepeat' = Repeats
        /\ sigRepeat \in Nat /\ sigRepeat <= iterations
    BY <1>0, <1>6 DEF TypeInv, TypeOK, Decide
  <2>3. Repeats \in {0, sigRepeat + 1}
    BY DEF Repeats
  <2>4. sigRepeat' \in 0..MaxIterations /\ sigRepeat' <= iterations'
    BY <1>0, <2>1, <2>2, <2>3
  <2>5. lastSig' \in Signatures /\ prevFailures' \in -1..Cardinality(Plan)
    BY <1>6, SignatureTyped, CountsBounded DEF TypeInv, TypeOK, Decide
  <2>6. pc' \in {"improve", "settle"}
    BY <1>6 DEF Decide
  <2>7. /\ retryMax' = retryMax /\ results' = results /\ lastOK' = lastOK /\ disposition' = disposition
        /\ branchBuilds' = branchBuilds /\ cloneBuilds' = cloneBuilds
    BY <1>6 DEF Decide
  <2> QED BY <1>0, <2>1, <2>4, <2>5, <2>6, <2>7 DEF TypeInv, TypeOK
<1>7. CASE Settle
  <2>1. disposition' \in Dispositions
    BY <1>7 DEF Settle, Dispositions
  <2> QED BY <1>0, <1>7, <2>1 DEF TypeInv, TypeOK, Settle, loop
<1>8. CASE CloneMoves \/ UNCHANGED vars
  BY <1>0, <1>8 DEF TypeInv, TypeOK, CloneMoves, loop, vars
<1> QED
  BY <1>1, <1>2, <1>3, <1>4, <1>5, <1>6, <1>7, <1>8 DEF Next, Execution

\* Every iteration leaves one record, of at most as many failures as there are checks, and no
\* more than MaxIterations are made (improvement.go, prog.Iterations and prog.Records).
THEOREM LoopTyped == Spec => []TypeOK
<1>1. Init => TypeInv
  <2>1. <<"pass">> \in Result
    BY DEF Result
  <2>2. Cardinality(Plan) \in Nat /\ MaxIterations \in Nat
    BY CountsBounded, LimitTypes
  <2> SUFFICES ASSUME Init PROVE TypeInv
    OBVIOUS
  <2>3. results \in [Plan -> Result] /\ lastSig \in Signatures
    BY <2>1 DEF Init, NoResults, Signatures
  <2>4. prevFailures \in -1..Cardinality(Plan) /\ {iterations, sigRepeat} \subseteq 0..MaxIterations
    BY <2>2 DEF Init
  <2>5. records \in Seq(Record) /\ reports \in Seq(WorkerAnswers) /\ Len(records) = iterations /\ sigRepeat <= iterations
    BY DEF Init
  <2>6. lastOK \in BOOLEAN /\ branchBuilds \in BOOLEAN /\ cloneBuilds \in BOOLEAN
    BY Zenon DEF Init
  <2>7. status \in Statuses /\ disposition \in Dispositions /\ retryMax \in RetryLimits /\ pc = "develop"
    BY DEF Init, Statuses, Dispositions
  <2> QED BY <2>3, <2>4, <2>5, <2>6, <2>7 DEF TypeInv, TypeOK
<1>2. TypeInv => TypeOK
  BY DEF TypeInv
<1> QED BY <1>1, <1>2, TypesInductive, CountInvHolds, PTL DEF Spec
=============================================================================
