---------------------------- MODULE Improvement -----------------------------
(***************************************************************************)
(* internal/improvement, internal/verify and the failure policy as one     *)
(* execution of an issue runs them: develop, then verify and improve until *)
(* verification passes, the policy stops the loop or the ceiling is hit,   *)
(* then what runAssignment does with the answer.                           *)
(*                                                                         *)
(* The plan is the build check and, when configured, an API and a web      *)
(* check.  The build check runs its command in the engine's clone, whose   *)
(* checked-out branch moves when other issues are merged; the worker       *)
(* changes the worktree of its own issue.  Both adapters of the Verifier   *)
(* port return a nil error, so the loop's verify-error return is not taken.*)
(***************************************************************************)
EXTENDS Integers, FiniteSets, Sequences

CONSTANTS
    WebChecks,      \* the HTTP checks configured beside the build check
    Details,        \* the details a check that does not pass may report
    MaxIterations,  \* the engine's safety ceiling (10 as wired)
    StuckThreshold, \* identical failures before the policy is told (2)
    RetryLimits     \* what the retry policy's MaxAttempts may be configured to (3 by default)

ASSUME ChecksAssumption == "build" \notin WebChecks /\ IsFiniteSet(WebChecks)
ASSUME LimitsAssumption == {MaxIterations, StuckThreshold} \cup RetryLimits \subseteq Nat \ {0}

VARIABLES
    retryMax,       \* attempts the retry and escalation policies allow, read at start-up
    pc,             \* where the execution is
    iterations,     \* prog.Iterations
    records,        \* prog.Records: failures and signature of each iteration
    lastSig,        \* signature of the previous failed verification
    prevFailures,   \* its number of failures, -1 before the first
    sigRepeat,      \* how often it has been repeated without progress
    results,        \* what the last verification returned
    status,         \* the loop's answer
    lastOK,         \* the worker's completion signal as runAssignment sees it
    disposition,    \* what runAssignment does with the issue
    reports,        \* history: what each worker call answered
    branchBuilds,   \* the build command succeeds in the issue's worktree
    cloneBuilds     \* the build command succeeds in the engine's clone

vars == <<retryMax, pc, iterations, records, lastSig, prevFailures, sigRepeat, results, status,
          lastOK, disposition, reports, branchBuilds, cloneBuilds>>
loop == <<retryMax, iterations, records, lastSig, prevFailures, sigRepeat>>

Plan == {"build"} \cup WebChecks
Outcomes == {"pass", "fail", "blocked", "deferred", "inconclusive"}
Failures == (Outcomes \ {"pass"}) \X Details
Result == {<<"pass">>} \cup Failures
NoResults == [c \in Plan |-> <<"pass">>]
Statuses == {"running", "passed", "deferred", "escalated", "failed", "exhausted"}
Dispositions == {"none", "merge", "defer", "escalate", "fail"}
WorkerAnswers == {"ok", "incomplete", "error"}

Signatures == SUBSET (Plan \X Failures)
Record == [failures : 0..Cardinality(Plan), sig : Signatures]

TypeOK ==
    /\ retryMax \in RetryLimits
    /\ pc \in {"develop", "verify", "decide", "improve", "settle", "done"}
    /\ iterations \in 0..MaxIterations
    /\ records \in Seq(Record) /\ Len(records) = iterations
    /\ lastSig \in Signatures
    /\ prevFailures \in -1..Cardinality(Plan)
    /\ sigRepeat \in 0..MaxIterations
    /\ results \in [Plan -> Result]
    /\ status \in Statuses /\ disposition \in Dispositions
    /\ lastOK \in BOOLEAN /\ branchBuilds \in BOOLEAN /\ cloneBuilds \in BOOLEAN
    /\ reports \in Seq(WorkerAnswers)

Init ==
    /\ retryMax \in RetryLimits
    /\ pc = "develop" /\ iterations = 0 /\ records = << >>
    /\ lastSig = {} /\ prevFailures = -1 /\ sigRepeat = 0
    /\ results = NoResults
    /\ status = "running" /\ lastOK = FALSE /\ disposition = "none"
    /\ reports = << >>
    /\ branchBuilds \in BOOLEAN /\ cloneBuilds \in BOOLEAN

-----------------------------------------------------------------------------
(***************************************************************************)
(* Verification.                                                           *)
(***************************************************************************)

Severity(o) ==
    CASE o = "fail" -> 4
      [] o = "blocked" -> 3
      [] o = "inconclusive" -> 2
      [] o = "deferred" -> 1
      [] OTHER -> 0

\* The most severe outcome among the results.
Aggregate(r) ==
    CHOOSE o \in Outcomes :
        /\ \E c \in Plan : r[c][1] = o
        /\ \A c \in Plan : Severity(r[c][1]) <= Severity(o)

CountFailures(r) == Cardinality({c \in Plan : r[c][1] # "pass"})

\* The fingerprint of the results that do not pass.
Signature(r) == {<<c, r[c]>> : c \in {d \in Plan : r[d][1] # "pass"}}

\* The build command's exit status in the clone decides; it is inconclusive
\* when the execution's context ended meanwhile.
BuildResults ==
    IF cloneBuilds
    THEN {<<"pass">>} \cup ({"inconclusive"} \X Details)
    ELSE {"fail", "inconclusive"} \X Details

\* A URL that cannot be requested is blocked, one that does not answer inconclusive.
WebResults == {<<"pass">>} \cup ({"fail", "blocked", "inconclusive"} \X Details)

\* What one pass over the plan may return.
Verifications ==
    {r \in [Plan -> Result] :
        r["build"] \in BuildResults /\ \A c \in WebChecks : r[c] \in WebResults}

-----------------------------------------------------------------------------
(***************************************************************************)
(* The policy.                                                             *)
(***************************************************************************)

\* Mutant of ShouldRetry: one attempt too many.
RetryOnceMore(attempts, transient) == transient /\ attempts <= retryMax

\* RetryPolicy.Decide.
ShouldRetry(attempts, transient) == transient /\ attempts < retryMax

\* EscalationPolicy.Decide for a failed, not blocked assignment of age 0.
ShouldEscalate(attempts) == attempts >= retryMax

\* PolicyDecider.Decide over FailurePolicy.Classify.
StopDecision(iteration, stuck, outcome) ==
    IF outcome = "blocked" THEN "deferred"
    ELSE IF ShouldRetry(iteration, ~stuck) THEN "running"
    ELSE IF ShouldEscalate(iteration) THEN "escalated"
    ELSE "failed"

-----------------------------------------------------------------------------
(***************************************************************************)
(* The execution.                                                          *)
(***************************************************************************)

\* The initial worker call.
Develop ==
    /\ pc = "develop"
    /\ \E answer \in WorkerAnswers, builds \in BOOLEAN :
        /\ lastOK' = (answer = "ok")
        /\ reports' = Append(reports, answer)
        /\ branchBuilds' = builds
    /\ pc' = "verify"
    /\ UNCHANGED <<loop, results, status, disposition, cloneBuilds>>

\* Mutant of Exhaust: the ceiling counts the iteration about to begin.
ExhaustEarly ==
    /\ pc = "verify"
    /\ iterations + 1 >= MaxIterations
    /\ status' = "exhausted"
    /\ pc' = "settle"
    /\ UNCHANGED <<loop, results, lastOK, disposition, reports, branchBuilds, cloneBuilds>>

\* The safety ceiling.
Exhaust ==
    /\ pc = "verify"
    /\ iterations >= MaxIterations
    /\ status' = "exhausted"
    /\ pc' = "settle"
    /\ UNCHANGED <<loop, results, lastOK, disposition, reports, branchBuilds, cloneBuilds>>

\* Mutants of Verify: without the ceiling; stopping short of it.
VerifyBeyond ==
    /\ pc = "verify"
    /\ results' \in Verifications
    /\ pc' = "decide"
    /\ UNCHANGED <<loop, status, lastOK, disposition, reports, branchBuilds, cloneBuilds>>

VerifyShort == iterations + 1 < MaxIterations /\ VerifyBeyond

Verify ==
    /\ pc = "verify"
    /\ iterations < MaxIterations
    /\ results' \in Verifications
    /\ pc' = "decide"
    /\ UNCHANGED <<loop, status, lastOK, disposition, reports, branchBuilds, cloneBuilds>>

\* The iteration as prog.Records keeps it.
Recorded == [failures |-> CountFailures(results), sig |-> Signature(results)]

Pass ==
    /\ pc = "decide"
    /\ Aggregate(results) = "pass"
    /\ iterations' = iterations + 1
    /\ records' = Append(records, Recorded)
    /\ status' = "passed"
    /\ pc' = "settle"
    /\ UNCHANGED <<retryMax, lastSig, prevFailures, sigRepeat, results, lastOK, disposition,
                   reports, branchBuilds, cloneBuilds>>

Delta == IF prevFailures >= 0 THEN prevFailures - CountFailures(results) ELSE 0

\* Mutant of Repeats: only a growing number of failures counts as no progress.
RepeatsIfWorse == IF Signature(results) = lastSig /\ Delta < 0 THEN sigRepeat + 1 ELSE 0

\* Repeats of the same failures without progress, this verification included.
Repeats == IF Signature(results) = lastSig /\ Delta <= 0 THEN sigRepeat + 1 ELSE 0

\* A verification that does not pass: stuck detection, then the policy's decision.
Decide ==
    /\ pc = "decide"
    /\ Aggregate(results) # "pass"
    /\ sigRepeat' = Repeats
    /\ lastSig' = Signature(results)
    /\ prevFailures' = CountFailures(results)
    /\ iterations' = iterations + 1
    /\ records' = Append(records, Recorded)
    /\ status' = StopDecision(iterations + 1, Repeats >= StuckThreshold, Aggregate(results))
    /\ pc' = IF status' = "running" THEN "improve" ELSE "settle"
    /\ UNCHANGED <<retryMax, results, lastOK, disposition, reports, branchBuilds, cloneBuilds>>

\* Mutant of Improve: the completion signal is the initial call's.
ImproveSilently ==
    /\ pc = "improve"
    /\ \E answer \in WorkerAnswers, builds \in BOOLEAN :
        /\ reports' = Append(reports, answer)
        /\ branchBuilds' = builds
    /\ pc' = "verify"
    /\ UNCHANGED <<loop, results, status, lastOK, disposition, cloneBuilds>>

\* Another worker call.  One that fails leaves the completion signal alone.
Improve ==
    /\ pc = "improve"
    /\ \E answer \in WorkerAnswers, builds \in BOOLEAN :
        /\ lastOK' = IF answer = "error" THEN lastOK ELSE answer = "ok"
        /\ reports' = Append(reports, answer)
        /\ branchBuilds' = builds
    /\ pc' = "verify"
    /\ UNCHANGED <<loop, results, status, disposition, cloneBuilds>>

\* runAssignment's switch on the loop's status.
Settle ==
    /\ pc = "settle"
    /\ disposition' =
         CASE status = "passed" -> IF lastOK THEN "merge" ELSE "fail"
           [] status = "deferred" -> "defer"
           [] status = "escalated" -> "escalate"
           [] OTHER -> "fail"
    /\ pc' = "done"
    /\ UNCHANGED <<loop, results, status, lastOK, reports, branchBuilds, cloneBuilds>>

\* Other issues are merged into the clone's branch while this one runs.
CloneMoves ==
    /\ pc # "done"
    /\ cloneBuilds' = ~cloneBuilds
    /\ UNCHANGED <<pc, loop, results, status, lastOK, disposition, reports, branchBuilds>>

Execution == Develop \/ Exhaust \/ Verify \/ Pass \/ Decide \/ Improve \/ Settle

Next == Execution \/ CloneMoves

Spec == Init /\ [][Next]_vars

\* The execution is one goroutine whose calls return.
FairSpec == Spec /\ WF_vars(Execution)

-----------------------------------------------------------------------------
(***************************************************************************)
(* Properties.                                                             *)
(***************************************************************************)

WorkerCalls == Len(reports)

\* The retry limit bounds the worker: whatever verification and the worker
\* answer, an execution makes at most retryMax worker calls, and never more
\* than the ceiling's MaxIterations improvements after the first.
WorkerCallsBounded ==
    /\ WorkerCalls <= retryMax
    /\ WorkerCalls <= MaxIterations + 1

\* The policy is the one that stops the loop: a limit within the ceiling
\* always does so before the ceiling reports "exhausted".
PolicyStops == retryMax <= MaxIterations => status # "exhausted"

\* The worker is never sent out again after StuckThreshold + 1 verifications
\* in a row that failed in exactly the same way.
StuckStops ==
    pc = "improve" =>
        \/ iterations <= StuckThreshold
        \/ \E k \in iterations - StuckThreshold .. iterations - 1 :
              records[k].sig # records[iterations].sig

\* An issue goes to the merge only when every check of the plan passed in the
\* loop's last iteration and the worker's last answer was not "incomplete";
\* some call did answer that the work is complete.
MergedWasAccepted ==
    disposition = "merge" =>
        /\ \A c \in Plan : results[c][1] = "pass"
        /\ \E k \in 1..WorkerCalls :
              /\ reports[k] = "ok"
              /\ \A m \in k + 1..WorkerCalls : reports[m] = "error"

\* The loop always ends and the issue is disposed of.
Disposes == <>(pc = "done")

\* "development only advances via --no-ff merge of a verified branch"
\* (docs/03_Workflow.md:132): an issue goes to the merge only if the branch
\* that is merged passes the build check.
MergedBranchBuilds == disposition = "merge" => branchBuilds

=============================================================================
