----------------------------- MODULE TaskActivity -----------------------------
(***************************************************************************)
(* The task boxes and task logs of internal/orchestrator: recordAction,    *)
(* SetTaskTokens and BankTaskTokens change a box under the lock and write  *)
(* its snapshot after it; AppendTaskLog adds a line to memory and then to  *)
(* the log file; fail derives its reason from the last run's lines;        *)
(* loadActivity rebuilds the boxes after a restart.                        *)
(*                                                                         *)
(* One pipeline works on an issue at a time (the inflight guard); the      *)
(* operator's commands append lines beside it.  A line is an agent's       *)
(* start, a sign of a known failure, or any other.                         *)
(***************************************************************************)
EXTENDS Naturals, Sequences, FiniteSets, Functions

CONSTANTS
    Issues,
    None,
    MaxBoxes,       \* 40 in the code
    MaxStream,      \* 4000 in the code
    Tokens,         \* token counts a run may report
    MaxRuns,        \* bound on claims and develop runs
    MaxLines,       \* bound on lines
    MaxFaults       \* bound on crashes and failed writes

VARIABLES
    box,        \* Orchestrator.taskLog: start, banked and live tokens
    file,       \* <issue>.activity.json: start and total
    mem, log,   \* taskStream and <issue>.log
    run,        \* the pipeline of each issue
    operator,   \* the operator's line under way
    reasons,    \* failReasons
    clock,      \* orders the starts of the boxes
    runs, lines, faults,
    spent,      \* history: the tokens of the runs whose totals were written
    logged,     \* history: lines whose AppendTaskLog has returned
    excused,    \* history: issues whose box was dropped or a write of which failed
    failedAs    \* history: the reason of the last run if fail ended it

vars == <<box, file, mem, log, run, operator, reasons, clock, runs, lines, faults, spent, logged, excused, failedAs>>

Kinds == {"start", "sign", "other"}
Boxes == {i \in Issues : box[i] # None}

TypeOK ==
    /\ DOMAIN box = Issues /\ DOMAIN file = Issues /\ DOMAIN run = Issues
    /\ \A i \in Issues : Range(mem[i]) \subseteq Kinds /\ Range(log[i]) \subseteq Kinds /\ Len(mem[i]) <= MaxStream
    /\ reasons \in [Issues -> {None, "sign", "technical"}]
    /\ failedAs \in [Issues -> {None, "sign", "technical"}]
    /\ spent \in [Issues -> Nat] /\ logged \in [Issues -> Nat] /\ excused \subseteq Issues
    /\ runs \in 0..MaxRuns /\ lines \in 0..MaxLines /\ faults \in 0..MaxFaults /\ clock \in Nat

Init ==
    /\ box = [i \in Issues |-> None] /\ file = [i \in Issues |-> None]
    /\ mem = [i \in Issues |-> <<>>] /\ log = [i \in Issues |-> <<>>]
    /\ run = [i \in Issues |-> None] /\ operator = None /\ reasons = [i \in Issues |-> None]
    /\ clock = 0 /\ runs = 0 /\ lines = 0 /\ faults = 0
    /\ spent = [i \in Issues |-> 0] /\ logged = [i \in Issues |-> 0] /\ excused = {} /\ failedAs = [i \in Issues |-> None]

At(i, pc) == run[i] # None /\ run[i].pc = pc
Goes(i, r) == run' = [run EXCEPT ![i] = r]
At0(pc) == [pc |-> pc]

-----------------------------------------------------------------------------
(* Boxes. *)

NewBox == [start |-> clock, bank |-> 0, live |-> 0]

\* The box with the earliest start goes when a new one finds the log full.
Evicted(i) ==
    IF i \in Boxes \/ Cardinality(Boxes) < MaxBoxes THEN {}
    ELSE {CHOOSE j \in Boxes : \A k \in Boxes : box[j].start <= box[k].start}

\* ensureTask: the token callbacks and AppendTaskLog create a missing box whatever the cap.
EnsureTask(i) == IF i \in Boxes THEN box[i] ELSE NewBox

snapshot(b) == [start |-> b.start, total |-> b.bank + b.live]

\* recordAction, up to the write of the snapshot, with the pipeline's next step.
RecordAction(i, then) ==
    /\ box' = [j \in Issues |-> IF j = i THEN EnsureTask(i) ELSE IF j \in Evicted(i) THEN None ELSE box[j]]
    /\ excused' = excused \cup Evicted(i)
    /\ clock' = IF i \in Boxes THEN clock ELSE clock + 1
    /\ Goes(i, [pc |-> "write", snap |-> snapshot(box'[i]), banked |-> 0, then |-> then])

\* writeActivity; an error is ignored.
Write(i) ==
    /\ At(i, "write") /\ Goes(i, run[i].then)
    /\ \/ /\ file' = [file EXCEPT ![i] = run[i].snap]
          /\ spent' = [spent EXCEPT ![i] = @ + run[i].banked]
          /\ UNCHANGED <<excused, faults>>
       \/ /\ faults < MaxFaults /\ faults' = faults + 1
          /\ excused' = excused \cup {i} /\ UNCHANGED <<file, spent>>
    /\ UNCHANGED <<box, mem, log, operator, reasons, clock, runs, lines, logged, failedAs>>

-----------------------------------------------------------------------------
(* The pipeline. *)

\* The last MaxStream lines.
Capped(s) == SubSeq(s, IF Len(s) > MaxStream THEN Len(s) - MaxStream + 1 ELSE 1, Len(s))

\* AppendTaskLog under the lock.
Remember(i, kind) ==
    /\ lines < MaxLines /\ lines' = lines + 1
    /\ mem' = [mem EXCEPT ![i] = Capped(Append(@, kind))]
    /\ box' = [box EXCEPT ![i] = EnsureTask(i)]

\* RunIssue and ProcessOnce: "claimed"
Claim(i) ==
    /\ run[i] = None /\ runs < MaxRuns /\ runs' = runs + 1
    /\ RecordAction(i, At0("stage"))
    /\ failedAs' = [failedAs EXCEPT ![i] = None]
    /\ UNCHANGED <<file, mem, log, operator, reasons, lines, faults, spent, logged>>

\* "develop" running, or an improvement iteration
Develop(i) ==
    /\ At(i, "stage") /\ runs < MaxRuns /\ runs' = runs + 1
    /\ Goes(i, At0("develop"))
    /\ UNCHANGED <<box, file, mem, log, operator, reasons, clock, lines, faults, spent, logged, excused, failedAs>>

\* SetTaskTokens
SetTaskTokens(i, n) ==
    /\ At(i, "develop")
    /\ box' = [box EXCEPT ![i] = [EnsureTask(i) EXCEPT !.live = n]]
    /\ UNCHANGED <<file, mem, log, run, operator, reasons, clock, runs, lines, faults, spent, logged, excused, failedAs>>

\* A run's total replaces the live count and adds to the earlier runs.
LiveKept(b, n) == [b EXCEPT !.bank = @ + n]

Banked(b, n) == [start |-> b.start, bank |-> b.bank + n, live |-> 0]

\* BankTaskTokens: the end of a run.
BankTaskTokens(i, n) ==
    /\ At(i, "develop")
    /\ box' = [box EXCEPT ![i] = Banked(EnsureTask(i), n)]
    /\ Goes(i, [pc |-> "write", snap |-> snapshot(box'[i]), banked |-> n, then |-> At0("stage")])
    /\ UNCHANGED <<file, mem, log, operator, reasons, clock, runs, lines, faults, spent, logged, excused, failedAs>>

\* lastRunSegment and simpleFailReason
lastRun(s) ==
    LET starts == {k \in DOMAIN s : s[k] = "start"} IN
    IF starts = {} THEN s ELSE SubSeq(s, CHOOSE k \in starts : \A j \in starts : j <= k, Len(s))

simpleFailReason(s) == IF "sign" \in Range(lastRun(s)) THEN "sign" ELSE "technical"

\* Memory alone would do.
MemoryFirst(i) == IF mem[i] # <<>> THEN mem[i] ELSE Capped(log[i])

\* TaskStream: the file unless memory has more.
TaskStream(i) == IF Len(Capped(log[i])) >= Len(mem[i]) THEN Capped(log[i]) ELSE mem[i]

\* fail derives the reason from the last run and appends it to the log.
Fail(i) ==
    /\ At(i, "stage") /\ Remember(i, "other")
    /\ Goes(i, [pc |-> "line", kind |-> "other",
                then |-> [pc |-> "failing", reason |-> simpleFailReason(TaskStream(i))]])
    /\ UNCHANGED <<file, log, operator, reasons, clock, runs, faults, spent, logged, excused, failedAs>>

\* fail sets failReasons and finishes.
FailEnd(i) ==
    /\ At(i, "failing")
    /\ reasons' = [reasons EXCEPT ![i] = run[i].reason]
    /\ failedAs' = [failedAs EXCEPT ![i] = run[i].reason]
    /\ RecordAction(i, None)
    /\ UNCHANGED <<file, mem, log, operator, runs, lines, faults, spent, logged>>

\* finish on success, or on escalation, which fails the task without a reason.
Finish(i) ==
    /\ At(i, "stage") /\ RecordAction(i, None)
    /\ UNCHANGED <<file, mem, log, operator, reasons, runs, lines, faults, spent, logged, failedAs>>

\* FailReason: as recorded or, after a restart, derived from the whole log.
FailReason(i) == IF reasons[i] # None THEN reasons[i] ELSE simpleFailReason(log[i])

\* deferAssignment leaves no action.
Defer(i) ==
    /\ At(i, "stage") /\ Goes(i, None)
    /\ UNCHANGED <<box, file, mem, log, operator, reasons, clock, runs, lines, faults, spent, logged, excused, failedAs>>

-----------------------------------------------------------------------------
(* Lines. *)

\* AppendTaskLog: the line reaches the file.
Persist(i, kind) ==
    /\ log' = [log EXCEPT ![i] = Append(@, kind)]
    /\ logged' = [logged EXCEPT ![i] = @ + 1]

\* OnLog: a line of the agent.
AgentLine(i, kind) ==
    /\ At(i, "develop") /\ Remember(i, kind)
    /\ Goes(i, [pc |-> "line", kind |-> kind, then |-> At0("develop")])
    /\ UNCHANGED <<file, log, operator, reasons, clock, runs, faults, spent, logged, excused, failedAs>>

LineOut(i) ==
    /\ At(i, "line") /\ Persist(i, run[i].kind)
    /\ Goes(i, run[i].then)
    /\ UNCHANGED <<box, file, mem, operator, reasons, clock, runs, lines, faults, spent, excused, failedAs>>

\* CancelTask, RetryTask, continue: a line of the operator.
OperatorLine(i) ==
    /\ operator = None /\ Remember(i, "other") /\ operator' = [on |-> i]
    /\ UNCHANGED <<file, log, run, reasons, clock, runs, faults, spent, logged, excused, failedAs>>

OperatorLineOut ==
    /\ operator # None /\ Persist(operator.on, "other") /\ operator' = None
    /\ UNCHANGED <<box, file, mem, run, reasons, clock, runs, lines, faults, spent, excused, failedAs>>

-----------------------------------------------------------------------------
(* Restarts. *)

\* A snapshot becomes the bank of the box it restores.
FreshBank(f) == [start |-> f.start, bank |-> 0, live |-> f.total]

Restored(f) == [start |-> f.start, bank |-> f.total, live |-> 0]

\* The process dies and loadActivity runs: a write under way may have cut the
\* snapshot short, and such a file is skipped.
Crash ==
    /\ faults < MaxFaults /\ faults' = faults + 1
    /\ \E torn \in SUBSET {i \in Issues : At(i, "write")} :
          /\ Cardinality(torn) <= 1
          /\ file' = [i \in Issues |-> IF i \in torn THEN None ELSE file[i]]
          /\ excused' = excused \cup torn
    /\ box' = [i \in Issues |-> IF file'[i] = None THEN None ELSE Restored(file'[i])]
    /\ mem' = [i \in Issues |-> <<>>] /\ run' = [i \in Issues |-> None]
    /\ operator' = None /\ reasons' = [i \in Issues |-> None]
    /\ UNCHANGED <<log, clock, runs, lines, spent, logged, failedAs>>

Next ==
    \/ \E i \in Issues :
          \/ Claim(i) \/ Develop(i) \/ Defer(i) \/ Write(i) \/ OperatorLine(i) \/ LineOut(i)
          \/ \E n \in Tokens : SetTaskTokens(i, n) \/ BankTaskTokens(i, n)
          \/ Fail(i) \/ FailEnd(i) \/ Finish(i)
          \/ \E kind \in Kinds : AgentLine(i, kind)
    \/ OperatorLineOut \/ Crash

Spec == Init /\ [][Next]_vars

-----------------------------------------------------------------------------
(* Properties. *)

\* Task totals are the exact sum of the runs, over restarts too: the saved total is
\* what the written runs used and a box adds only what is not written yet, unless
\* the box was evicted or a write failed (BankTaskTokens: "so they survive a
\* restart"; loadActivity: "a resumed run ADDS to them").
TotalsExact ==
    \A i \in Issues \ excused :
        /\ file[i] # None => file[i].total = spent[i]
        /\ i \in Boxes => box[i].bank = spent[i] + (IF At(i, "write") THEN run[i].banked ELSE 0)

\* A line AppendTaskLog has returned from is in the transcript, over restarts and
\* with the operator and the agent appending together (TaskStream: "the file is the
\* durable superset"), as far as the cap allows.
StreamComplete ==
    \A i \in Issues :
        Len(TaskStream(i)) >= IF logged[i] > MaxStream THEN MaxStream ELSE logged[i]

\* A failure whose sign the log shows is still explained by it after a restart: the
\* last run's lines are what both fail and FailReason look at.
ReasonSurvives == \A i \in Issues : failedAs[i] = "sign" => FailReason(i) = "sign"

\* What the dashboard and the report of a task show is not lost.
ActivityKept == TotalsExact /\ StreamComplete /\ ReasonSurvives
=============================================================================
