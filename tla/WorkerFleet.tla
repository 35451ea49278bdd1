----------------------------- MODULE WorkerFleet -----------------------------
(***************************************************************************)
(* The accounts of internal/resource and the runs that use them through    *)
(* internal/adapters/runtime: selection, reservation, cooldown, the call   *)
(* of the provider's CLI, the classification of how it ended, the retry of *)
(* infrastructure failures and the rest an account is given when its       *)
(* provider refuses it.                                                    *)
(*                                                                         *)
(* CooldownUntil is kept as the time left.  lru orders the accounts by     *)
(* LastUsed, ties by ID: as wired SetUsage is never called and an account  *)
(* that can be selected is healthy, so the first two keys of the sort in   *)
(* candidates never differ and the order of lru is the order of the sort.  *)
(* The durable lease beside a reservation is Orchestrator's.               *)
(***************************************************************************)
EXTENDS Naturals, Sequences, SequencesExt, FiniteSets

CONSTANTS
    IdOrder,            \* the accounts in ascending order of their IDs
    Codex,              \* the accounts whose engine is codex
    Runs,               \* executions of issues
    None,
    MaxInfraRetries,    \* Worker.MaxInfraRetries (2)
    CooldownFor,        \* Worker.CooldownFor (15 minutes), in ticks
    SessionMin,         \* time to the reset of a used-up session, in ticks
    MaxChanges          \* bound on pauses, cancellations and changes by the poller

Accounts == Range(IdOrder)

ASSUME FleetAssumption ==
    /\ IdOrder \in Seq(Accounts)
    /\ None \notin Accounts \cup Runs /\ Codex \subseteq Accounts
ASSUME TimesAssumption ==
    /\ MaxInfraRetries \in Nat /\ CooldownFor \in Nat \ {0} /\ SessionMin \in Nat \ {0}
    /\ MaxChanges \in Nat

VARIABLES
    health,     \* Resource.Health: "healthy" or "down"
    paused,     \* Resource.paused
    cool,       \* time left of Resource.CooldownUntil
    reservedBy, \* Resource.reservedBy
    lru,        \* the accounts, least recently used first
    pc,         \* where a run is
    acct,       \* the account it was given
    force,      \* it runs beside the account's holder
    cancelled,  \* its context was cancelled
    changes,    \* pauses, cancellations and changes by the poller so far
    seen,       \* classes of the attempts of the current call
    refused,    \* history: time left of the rest an account is owed since its provider refused it
    passed      \* history: automatic selections that passed an available account over since its last use

resources == <<health, paused, cool, reservedBy, lru>>
call == <<cancelled, seen>>
vars == <<resources, pc, acct, force, call, changes, refused, passed>>

Classes == {"success", "semantic", "cancellation", "timeout", "rate_limit", "authentication",
            "infrastructure", "runtime_failure"}

TypeOK ==
    /\ health \in [Accounts -> {"healthy", "down"}] /\ paused \in [Accounts -> BOOLEAN]
    /\ cool \in [Accounts -> Nat] /\ refused \in [Accounts -> Nat] /\ passed \in [Accounts -> Nat]
    /\ reservedBy \in [Accounts -> Runs \cup {None}]
    /\ Range(lru) = Accounts /\ Len(lru) = Len(IdOrder)
    /\ pc \in [Runs -> {"idle", "call", "attempt", "settle", "between", "use", "free"}]
    /\ acct \in [Runs -> Accounts \cup {None}]
    /\ force \in [Runs -> BOOLEAN] /\ cancelled \in [Runs -> BOOLEAN]
    /\ seen \in [Runs -> Seq(Classes)] /\ changes \in 0..MaxChanges

\* Discovery and configuration: the account is healthy if its directory exists.
Init ==
    /\ health \in [Accounts -> {"healthy", "down"}] /\ paused = [a \in Accounts |-> FALSE]
    /\ cool = [a \in Accounts |-> 0] /\ reservedBy = [a \in Accounts |-> None] /\ lru = IdOrder
    /\ pc = [r \in Runs |-> "idle"] /\ acct = [r \in Runs |-> None]
    /\ force = [r \in Runs |-> FALSE] /\ cancelled = [r \in Runs |-> FALSE]
    /\ seen = [r \in Runs |-> <<>>]
    /\ changes = 0
    /\ refused = [a \in Accounts |-> 0] /\ passed = [a \in Accounts |-> 0]

-----------------------------------------------------------------------------
(* Selection. *)

\* availabilityOf: the first reason that applies.
Availability(a) ==
    CASE paused[a] -> "paused"
      [] ~paused[a] /\ health[a] = "down" -> "offline"
      [] ~paused[a] /\ health[a] # "down" /\ cool[a] > 0 -> "cooldown"
      [] ~paused[a] /\ health[a] # "down" /\ cool[a] = 0 /\ reservedBy[a] # None -> "reserved"
      [] OTHER -> "available"

Candidates == {a \in Accounts : Availability(a) = "available"}

\* Where the first of S is in the order s.
FirstOf(s, S) == CHOOSE k \in DOMAIN s : s[k] \in S /\ \A j \in 1..k - 1 : s[j] \notin S

\* As if the last key of the sort came first.
BestById(S) == IdOrder[FirstOf(IdOrder, S)]

\* candidates, sorted: the least recently used one comes first.
Best(S) == lru[FirstOf(lru, S)]

\* LastUsed = now.
Used(a) == Append(RemoveAt(lru, FirstOf(lru, {a})), a)

\* Reserve, ReserveID: the account and the time it was taken.
Take(r, a) ==
    /\ reservedBy' = [reservedBy EXCEPT ![a] = r] /\ lru' = Used(a)
    /\ UNCHANGED <<health, paused, cool>>

\* A run begins on account a.
Start(r, a, f) ==
    /\ pc' = [pc EXCEPT ![r] = "call"] /\ acct' = [acct EXCEPT ![r] = a]
    /\ force' = [force EXCEPT ![r] = f]
    /\ UNCHANGED call

\* acquireRuntime without a picked account: Reserve takes the best candidate.
AcquireAny(r) ==
    /\ pc[r] = "idle" /\ Candidates # {}
    /\ Take(r, Best(Candidates)) /\ Start(r, Best(Candidates), FALSE)
    /\ passed' = [a \in Accounts |-> IF a = Best(Candidates) THEN 0
                                     ELSE IF a \in Candidates THEN passed[a] + 1 ELSE passed[a]]
    /\ UNCHANGED <<changes, refused>>

\* acquireRuntime with the operator's account: that one or none.
AcquirePicked(r, a) ==
    /\ pc[r] = "idle" /\ a \in Candidates
    /\ Take(r, a) /\ Start(r, a, FALSE)
    /\ passed' = [passed EXCEPT ![a] = 0]
    /\ UNCHANGED <<changes, refused>>

\* acquireRuntime for a parallel run: the account is used without being reserved.
AcquireForced(r, a) ==
    /\ pc[r] = "idle" /\ Availability(a) \notin {"offline", "paused"}
    /\ Start(r, a, TRUE)
    /\ UNCHANGED <<changes, resources, refused, passed>>

-----------------------------------------------------------------------------
(* The worker. *)

\* How a CLI process can end: a clean exit with or without a result that says ok, or an error
\* whose text may hold markers of several kinds.
Clean == [err : {FALSE}, result : {"ok", "not_ok", "none"}, deadline : {FALSE}, marks : {{}}]
Failed == [err : {TRUE}, result : {"none"}, deadline : BOOLEAN, marks : SUBSET {"rate", "auth", "infra"}]

\* ClaudeWorkerRuntime.Run: a clean exit without a result of the agreed form is a refusal of the task.
ClaudeOK(o) == o.result = "ok"

\* CodexWorkerRuntime.Run: the same is a success, codex having edited the worktree directly.
CodexOK(o) == o.result \in {"ok", "none"}

ResultOK(a, o) == IF a \in Codex THEN CodexOK(o) ELSE ClaudeOK(o)

\* classify: the contexts first, then the markers in the order of the code.
Classify(r, o) ==
    CASE ~o.err -> IF ResultOK(acct[r], o) THEN "success" ELSE "semantic"
      [] o.err /\ cancelled[r] -> "cancellation"
      [] o.err /\ ~cancelled[r] /\ o.deadline -> "timeout"
      [] o.err /\ ~cancelled[r] /\ ~o.deadline /\ "rate" \in o.marks -> "rate_limit"
      [] o.err /\ ~cancelled[r] /\ ~o.deadline /\ o.marks \cap {"rate", "auth"} = {"auth"} -> "authentication"
      [] o.err /\ ~cancelled[r] /\ ~o.deadline /\ o.marks = {"infra"} -> "infrastructure"
      [] OTHER -> "runtime_failure"

\* Worker.Develop is entered.
Develop(r) ==
    /\ pc[r] = "call"
    /\ pc' = [pc EXCEPT ![r] = "attempt"]
    /\ UNCHANGED <<changes, resources, acct, force, cancelled, seen, refused, passed>>

\* One attempt: the process ran and its end is classified.
Attempt(r) ==
    /\ pc[r] = "attempt"
    /\ \E o \in Clean \cup Failed : seen' = [seen EXCEPT ![r] = Append(@, Classify(r, o))]
    /\ pc' = [pc EXCEPT ![r] = "settle"]
    /\ UNCHANGED <<changes, resources, acct, force, cancelled, refused, passed>>

class(r) == Last(seen[r])
retries(r) == Len(seen[r]) - 1

\* As if a timeout counted as a failure of the infrastructure.
RetriesTimeouts(r) ==
    class(r) \in {"infrastructure", "timeout"} /\ retries(r) < MaxInfraRetries /\ ~cancelled[r]

Retryable(r) == class(r) = "infrastructure" /\ retries(r) < MaxInfraRetries /\ ~cancelled[r]

Retry(r) ==
    /\ pc[r] = "settle" /\ Retryable(r)
    /\ pc' = [pc EXCEPT ![r] = "attempt"]
    /\ UNCHANGED <<changes, resources, acct, force, call, refused, passed>>

\* As if only a rate limit were a refusal.
RateOnly == {"rate_limit"}

Refusals == {"rate_limit", "authentication"}

\* Manager.Cooldown replaces the window the account had.
Cooldown(a, t) == cool' = [cool EXCEPT ![a] = t]

\* Develop returns: a refused account is cooled down so that work goes to another one.
Return(r) ==
    /\ pc[r] = "settle" /\ ~Retryable(r)
    /\ pc' = [pc EXCEPT ![r] = "between"]
    /\ IF class(r) \in Refusals
       THEN Cooldown(acct[r], CooldownFor)
       ELSE UNCHANGED cool
    /\ refused' = IF class(r) \in {"rate_limit", "authentication"}
                  THEN [refused EXCEPT ![acct[r]] = CooldownFor] ELSE refused
    /\ seen' = [seen EXCEPT ![r] = <<>>]
    /\ UNCHANGED <<changes, health, paused, reservedBy, lru, acct, force, cancelled, passed>>

\* The improvement loop calls the worker again on the same account (Improvement bounds how often),
\* or the run ends.
Again(r) ==
    /\ pc[r] = "between"
    /\ pc' = [pc EXCEPT ![r] = "call"]
    /\ UNCHANGED <<changes, resources, acct, force, call, refused, passed>>

End(r) ==
    /\ pc[r] = "between"
    /\ pc' = [pc EXCEPT ![r] = IF force[r] THEN "idle" ELSE "use"]
    /\ acct' = [acct EXCEPT ![r] = IF force[r] THEN None ELSE @]
    /\ force' = [force EXCEPT ![r] = FALSE]
    /\ cancelled' = [cancelled EXCEPT ![r] = FALSE]
    /\ UNCHANGED <<changes, resources, seen, refused, passed>>

\* releaseRuntime: RecordUse, then Release.
RecordUse(r) ==
    /\ pc[r] = "use"
    /\ pc' = [pc EXCEPT ![r] = "free"] /\ lru' = Used(acct[r])
    /\ passed' = [passed EXCEPT ![acct[r]] = 0]
    /\ UNCHANGED <<changes, health, paused, cool, reservedBy, acct, force, call, refused>>

Release(r) ==
    /\ pc[r] = "free"
    /\ pc' = [pc EXCEPT ![r] = "idle"] /\ acct' = [acct EXCEPT ![r] = None]
    /\ reservedBy' = [reservedBy EXCEPT ![acct[r]] = None]
    /\ UNCHANGED <<changes, health, paused, cool, lru, force, call, refused, passed>>

\* CancelTask, or the shutdown: the run's context.
Cancel(r) ==
    /\ pc[r] \in {"call", "attempt", "settle", "between"} /\ ~cancelled[r]
    /\ cancelled' = [cancelled EXCEPT ![r] = TRUE]
    /\ changes < MaxChanges /\ changes' = changes + 1
    /\ UNCHANGED <<resources, pc, acct, force, seen, refused, passed>>

-----------------------------------------------------------------------------
(* What else changes an account. *)

\* accounts.pause and accounts.resume.
SetPaused(a) ==
    /\ paused' = [paused EXCEPT ![a] = ~@]
    /\ changes < MaxChanges /\ changes' = changes + 1
    /\ UNCHANGED <<health, cool, reservedBy, lru, pc, acct, force, call, refused, passed>>

\* applyAccountHealth, for one account of its list: signed in or not, session used up or not.
ApplyHealth(a) ==
    /\ \/ health' = [health EXCEPT ![a] = "down"] /\ UNCHANGED <<cool, refused>>
       \/ health' = [health EXCEPT ![a] = "healthy"] /\ UNCHANGED <<cool, refused>>
       \/ /\ health' = [health EXCEPT ![a] = "healthy"] /\ Cooldown(a, SessionMin)
          /\ refused' = [refused EXCEPT ![a] = 0]
    /\ changes < MaxChanges /\ changes' = changes + 1
    /\ UNCHANGED <<paused, reservedBy, lru, pc, acct, force, call, passed>>

Down(f) == [a \in Accounts |-> IF f[a] = 0 THEN 0 ELSE f[a] - 1]

Tick ==
    /\ cool' = Down(cool) /\ refused' = Down(refused)
    /\ \E a \in Accounts : cool[a] > 0
    /\ UNCHANGED <<changes, health, paused, reservedBy, lru, pc, acct, force, call, passed>>

RunStep(r) ==
    \/ Develop(r) \/ Attempt(r) \/ Retry(r) \/ Return(r) \/ Again(r) \/ End(r) \/ RecordUse(r)
    \/ Release(r)

Next ==
    \/ \E r \in Runs : AcquireAny(r) \/ RunStep(r) \/ Cancel(r)
    \/ \E r \in Runs, a \in Accounts : AcquirePicked(r, a) \/ AcquireForced(r, a)
    \/ \E a \in Accounts : SetPaused(a) \/ ApplyHealth(a)
    \/ Tick

Spec == Init /\ [][Next]_vars

-----------------------------------------------------------------------------
(* Properties. *)

\* schedule.go, candidates: "least-recently-used first (fair rotation)".  However accounts pause,
\* cool down, go offline, are picked or used beside their holder, automatic selection passes an
\* available account over at most once for each other account before it is used.
RotationFair == \A a \in Accounts : passed[a] < Len(IdOrder)

\* runtime.go, Develop: a refused account is skipped.  Once a provider refused an account, by rate
\* limit or authentication, no reservation takes it until the cooldown is over, unless the health
\* poller has replaced that window by the time to the reset of its session.
RefusedRests ==
    [][\A a \in Accounts : reservedBy[a] = None /\ reservedBy'[a] # None => refused[a] = 0]_vars

\* runtime.go, Develop: "Only infrastructure failures are retried here".  Every attempt of a call
\* but the last ended as an infrastructure failure, and there are at most MaxInfraRetries more
\* than one, whatever is cancelled meanwhile.
OnlyInfraRetried ==
    \A r \in Runs : /\ Len(seen[r]) <= MaxInfraRetries + 1
                    /\ \A i \in 1..Len(seen[r]) : i < Len(seen[r]) => seen[r][i] = "infrastructure"

\* Selection and retry of a worker are both bounded: neither an account nor a failing call is
\* favoured for ever.
FleetSound == RotationFair /\ OnlyInfraRetried
=============================================================================
