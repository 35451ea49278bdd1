---------------------------- MODULE Orchestrator ----------------------------
(***************************************************************************)
(* internal/orchestrator: the goroutines that drive issues through the     *)
(* pipeline, and the state they share.                                     *)
(*                                                                         *)
(* A thread is a goroutine: the serve loop (Orchestrator.Run), or one of   *)
(* the goroutines the control-plane commands start.  pc[t] is the next     *)
(* step of t; a step is what the code does between two points where        *)
(* another goroutine can interfere with it (a mutex, a file, a call out).  *)
(*                                                                         *)
(* Durable: store, the leases, worktree, merged.  In memory: the rest.     *)
(* A lease is represented by its active owner, as ExclusiveOwnership       *)
(* allows: an expired record counts as no owner.                           *)
(***************************************************************************)
EXTENDS Naturals

CONSTANTS
    Issues,         \* issue keys
    Accounts,       \* claude accounts in the Resource Manager
    Ops,            \* goroutines available to operator commands
    Loop,           \* the serve loop
    None,           \* no issue, no account, no thread; as a preferred account: auto-select
    Eligible,       \* issues the ready-label query returns
    Commands,       \* commands the operator uses
    Modes,          \* run modes the operator uses: "now", "parallel", "queue"
    Picks,          \* accounts the operator picks (None: auto-select)
    StartActive,    \* Cfg.StartActive
    Unsteady,       \* accounts whose availability changes (pause, cooldown, offline)
    SaveMayFail,    \* Store.Save may return an error
    CallsMayFail,   \* Jira or the worker may fail, the project gate may be closed
    OnRequest,      \* access requests are wired
    EarlyCommands,  \* commands arrive before Recover (the HTTP server starts first)
    LeaseMayExpire, \* a lease may run out while its owner still uses it
    Janitor,        \* the worktree janitor is on
    MaxCrashes      \* bound on crashes and restarts

ASSUME ThreadsAssumption ==
    /\ Loop \notin Ops
    /\ None \notin Issues \cup Accounts \cup Ops \cup {Loop}
ASSUME PicksAssumption ==
    /\ Eligible \subseteq Issues
    /\ Commands \subseteq {"run", "continue", "allow", "tick", "cancel", "start", "stop"}
    /\ Modes \subseteq {"now", "parallel", "queue"}
    /\ Picks \subseteq Accounts \cup {None}
    /\ Unsteady \subseteq Accounts
ASSUME FlagsAssumption ==
    /\ {StartActive, SaveMayFail, CallsMayFail, OnRequest, EarlyCommands, LeaseMayExpire,
        Janitor} \subseteq BOOLEAN
    /\ MaxCrashes \in Nat

VARIABLES
    \* durable
    store,      \* assignment.Store: the State of the issue's Assignment, "absent" if none
    acctLease,  \* resource leases: the issue owning the account
    mergeLease, \* merge lease on the dev branch: the issue owning it
    issueLease, \* issues whose issue lease is held (the owner is the issue itself)
    worktree,   \* issues with a worktree and branch
    merged,     \* issues whose branch has been pushed to the dev branch
    requests,   \* pending Allow/Deny requests (access-requests.json)
    \* in memory
    inflight,   \* Orchestrator.inflight
    cancels,    \* Orchestrator.cancels: the thread whose context the entry cancels
    cancelled,  \* threads whose context is cancelled
    reserved,   \* Resource.reservedBy
    avail,      \* "up", "cooling" or "out" (paused or offline), reservation aside
    active,     \* Orchestrator.active
    trigger,    \* Orchestrator.trigger holds a token (capacity 1)
    todo,       \* Recover's list of unfinished assignments still to resume
    reaping,    \* the issue whose worktree the janitor has decided to remove
    pc,         \* next step of each thread
    job,        \* what each thread runs: issue, preferred account, force, who asked
    acct,       \* resID: the account the thread's run uses
    closing,    \* threads in mergeAndClose that will release the merge lease
    lastOK,     \* threads whose worker last reported the task complete
    crashes     \* number of crashes so far

durable == <<store, acctLease, mergeLease, issueLease, worktree, merged, requests>>
loopVars == <<active, trigger, todo>>
env == <<avail, reaping, crashes>>
memory == <<inflight, cancels, cancelled, reserved>>
thread == <<pc, job, acct, closing, lastOK>>
vars == <<durable, memory, loopVars, env, thread>>

Threads == Ops \cup {Loop}
Terminal == {"done", "failed"}
States == {"absent", "claimed", "developing", "qa", "merging"} \cup Terminal
Job == [issue : Issues \cup {None}, account : Accounts \cup {None}, force : BOOLEAN,
        origin : {"none", "run", "continue", "retry", "tick", "loop"}]
NoJob == [issue |-> None, account |-> None, force |-> FALSE, origin |-> "none"]

\* The steps of a run that hold the issue's in-flight slot.
Running == {"reserve", "lease", "begin", "develop", "improve", "premerge", "merging",
            "report", "finish", "close", "cleanup", "unmerge", "unlease", "unreserve", "leave",
            "defer"}
\* The steps before a run has its slot, and after it gave it back.
Outside == {"idle", "queued", "reset", "resetqueue", "register", "load", "get", "claim", "scan",
            "enter", "unregister", "start", "boot", "resume", "drain", "wait"}

TypeOK ==
    /\ store \in [Issues -> States]
    /\ acctLease \in [Accounts -> Issues \cup {None}]
    /\ mergeLease \in Issues \cup {None}
    /\ issueLease \subseteq Issues /\ worktree \subseteq Issues
    /\ merged \subseteq Issues /\ requests \subseteq Issues
    /\ inflight \subseteq Issues
    /\ cancels \in [Issues -> Threads \cup {None}]
    /\ cancelled \subseteq Threads
    /\ reserved \in [Accounts -> Issues \cup {None}]
    /\ avail \in [Accounts -> {"up", "cooling", "out"}]
    /\ active \in BOOLEAN /\ trigger \in BOOLEAN
    /\ todo \subseteq Issues /\ reaping \in Issues \cup {None}
    /\ pc \in [Threads -> Running \cup Outside]
    /\ job \in [Threads -> Job]
    /\ acct \in [Threads -> Accounts \cup {None}]
    /\ closing \subseteq Threads /\ lastOK \subseteq Threads
    /\ crashes \in 0..MaxCrashes

-----------------------------------------------------------------------------
\* The memory of a process that has just started: nothing runs, the loop is about to.
FreshPc == [t \in Threads |-> IF t = Loop THEN "start" ELSE "idle"]
NobodyIn(S) == [x \in S |-> None]

Init ==
    /\ store = [i \in Issues |-> "absent"]
    /\ acctLease = NobodyIn(Accounts) /\ mergeLease = None /\ issueLease = {}
    /\ worktree = {} /\ merged = {} /\ requests = {} /\ crashes = 0
    /\ inflight = {} /\ cancels = NobodyIn(Issues) /\ cancelled = {}
    /\ reserved = NobodyIn(Accounts) /\ avail = [a \in Accounts |-> "up"]
    /\ active = FALSE /\ trigger = FALSE /\ todo = {} /\ reaping = None
    /\ pc = FreshPc /\ job = [t \in Threads |-> NoJob] /\ acct = NobodyIn(Threads)
    /\ closing = {} /\ lastOK = {}

Issue(t) == job[t].issue

At(t, here, next) == pc[t] = here /\ pc' = [pc EXCEPT ![t] = next]

\* Store.Save(a) with a.State = s; the pipeline ignores its error except in finish.
Save(i, s) ==
    \/ store' = [store EXCEPT ![i] = s]
    \/ SaveMayFail /\ UNCHANGED store

IsTerminal(i) == store[i] \in Terminal

\* Manager.availabilityOf
Availability(a) ==
    IF avail[a] # "up" THEN avail[a]
    ELSE IF reserved[a] # None THEN "reserved" ELSE "available"

\* Manager.Acquire granted: free, expired, or already the owner's.
Grantable(holder, owner) == holder \in {None, owner}

-----------------------------------------------------------------------------
(* Commands.  Each is a handler's synchronous checks followed by `go ...`.  *)

\* GateAccount: None passes; "now" needs an available account, the others a live one.
GateAccount(a, mode) ==
    a # None => IF mode = "now" THEN Availability(a) = "available" ELSE Availability(a) # "out"

\* A free goroutine slot t is started at step `at` for issue i.
Start(t, at, i, a, mode, origin) ==
    /\ t \in Ops /\ At(t, "idle", at)
    /\ pc[Loop] \in {"start", "boot"} => EarlyCommands
    /\ job' = [job EXCEPT ![t] = [issue |-> i, account |-> a, force |-> mode = "parallel",
                                  origin |-> origin]]
    /\ UNCHANGED <<acct, closing, lastOK>>

\* Back from runAssignment: RunIssue's deferred cleanup, the end of a tick's goroutine, or
\* the rest of Recover and of the drain loop.
Return(t) ==
    CASE job[t].origin = "tick" -> "idle"
      [] job[t].origin = "loop" -> "resume"
      [] OTHER -> "unregister"

\* orchestrator.run: rejected if the account is busy, the issue finished or in flight.
CmdRun(t, i, a, mode) ==
    /\ "run" \in Commands
    /\ GateAccount(a, mode)
    /\ ~IsTerminal(i)
    /\ store[i] # "absent" => i \notin inflight
    /\ Start(t, IF mode = "queue" THEN "queued" ELSE "register", i, a, mode, "run")
    /\ UNCHANGED <<durable, memory, loopVars, env>>

\* orchestrator.continue up to its in-flight check; the reset follows.
CmdContinue(t, i, a, mode) ==
    /\ "continue" \in Commands
    /\ GateAccount(a, mode)
    /\ i \notin inflight
    /\ Start(t, IF mode = "queue" THEN "resetqueue" ELSE "reset", i, a, mode, "continue")
    /\ UNCHANGED <<durable, memory, loopVars, env>>

\* ... it resets ANY terminal state so the issue runs again.
Reset(t) ==
    /\ At(t, "reset", "register") \/ At(t, "resetqueue", "queued")
    /\ IF IsTerminal(Issue(t)) THEN Save(Issue(t), "claimed") ELSE UNCHANGED store
    /\ UNCHANGED <<acctLease, mergeLease, issueLease, worktree, merged, requests, memory,
                   loopVars, env, job, acct, closing, lastOK>>

\* accessRequestStore.allow, then Retry: reset a terminal state and run on any account.
CmdAllow(t, i) ==
    /\ "allow" \in Commands /\ i \in requests
    /\ requests' = requests \ {i}
    /\ IF IsTerminal(i) THEN Save(i, "claimed") ELSE UNCHANGED store
    /\ Start(t, "register", i, None, "now", "retry")
    /\ UNCHANGED <<acctLease, mergeLease, issueLease, worktree, merged, memory, loopVars, env>>

CmdDeny(i) ==
    /\ "allow" \in Commands /\ i \in requests
    /\ requests' = requests \ {i}
    /\ UNCHANGED <<store, acctLease, mergeLease, issueLease, worktree, merged, memory,
                   loopVars, env, thread>>

\* orchestrator.tick: ProcessOnce in the handler's goroutine.
CmdTick(t) ==
    /\ "tick" \in Commands
    /\ Start(t, "scan", None, None, "now", "tick")
    /\ UNCHANGED <<durable, memory, loopVars, env>>

\* orchestrator.cancel: CancelTask calls the registered cancel function.
CmdCancel(i) ==
    /\ "cancel" \in Commands /\ cancels[i] # None
    /\ cancelled' = cancelled \cup {cancels[i]}
    /\ UNCHANGED <<durable, inflight, cancels, reserved, loopVars, env, thread>>

\* As if turning the loop on did not wake it.
CmdSetActiveQuiet(on) ==
    /\ (IF on THEN "start" ELSE "stop") \in Commands
    /\ active' = on
    /\ UNCHANGED <<durable, memory, trigger, todo, env, thread>>

\* orchestrator.start / orchestrator.stop: SetActive; turning it on notifies the loop.
CmdSetActive(on) ==
    /\ (IF on THEN "start" ELSE "stop") \in Commands
    /\ active' = on
    /\ trigger' = (trigger \/ on)
    /\ UNCHANGED <<durable, memory, todo, env, thread>>

\* RunWhenFree: give up on a dead account (or after 720 polls), run once it is available.
Queued(t) ==
    /\ \/ /\ \E a \in Accounts : a = job[t].account /\ Availability(a) = "available"
          /\ At(t, "queued", "register")
          /\ UNCHANGED job
       \/ At(t, "queued", "idle") /\ job' = [job EXCEPT ![t] = NoJob]
    /\ UNCHANGED <<durable, memory, loopVars, env, acct, closing, lastOK>>

-----------------------------------------------------------------------------
(* RunIssue, and claimNext for the loop and tick.                           *)

\* RunIssue registers its cancel function, replacing any other run's.
Register(t) ==
    /\ At(t, "register", "load")
    /\ cancels' = [cancels EXCEPT ![Issue(t)] = t]
    /\ UNCHANGED <<durable, inflight, cancelled, reserved, loopVars, env, job, acct, closing, lastOK>>

\* Store.Load: refuse finished work, resume unfinished work, or claim afresh.
LoadIssue(t) ==
    /\ pc[t] = "load"
    /\ \/ /\ IsTerminal(Issue(t)) \/ CallsMayFail
          /\ At(t, "load", Return(t))
       \/ ~IsTerminal(Issue(t)) /\ store[Issue(t)] # "absent" /\ At(t, "load", "get")
       \/ store[Issue(t)] = "absent" /\ At(t, "load", "claim")
    /\ UNCHANGED <<durable, memory, loopVars, env, job, acct, closing, lastOK>>

\* Jira.Get on the resume path; on error the run returns.
GetIssue(t) ==
    /\ At(t, "get", "enter") \/ (CallsMayFail /\ At(t, "get", Return(t)))
    /\ UNCHANGED <<durable, memory, loopVars, env, job, acct, closing, lastOK>>

\* Persist the Assignment and take the issue lease.  An error (Jira.Get, Save) returns.
Claim(t) ==
    /\ \/ /\ At(t, "claim", "enter")
          /\ store' = [store EXCEPT ![Issue(t)] = "claimed"]
          /\ issueLease' = issueLease \cup {Issue(t)}
       \/ /\ At(t, "claim", IF t = Loop THEN "wait" ELSE Return(t))
          /\ SaveMayFail \/ CallsMayFail
          /\ UNCHANGED <<store, issueLease>>
    /\ UNCHANGED <<acctLease, mergeLease, worktree, merged, requests, memory, loopVars, env,
                   job, acct, closing, lastOK>>

\* ProcessOnce and claimNext: the first eligible issue without an Assignment, if any; a
\* closed gate or a failing Jira ends the pass like an empty queue.
Scan(t) ==
    /\ \/ \E i \in Eligible :
            /\ store[i] = "absent"
            /\ At(t, "scan", "claim")
            /\ job' = [job EXCEPT ![t].issue = i]
       \/ /\ CallsMayFail \/ \A i \in Eligible : store[i] # "absent"
          /\ At(t, "scan", IF t = Loop THEN "wait" ELSE "idle")
          /\ job' = [job EXCEPT ![t] = IF t = Loop THEN @ ELSE NoJob]
    /\ UNCHANGED <<durable, memory, loopVars, env, acct, closing, lastOK>>

-----------------------------------------------------------------------------
(* runAssignment.                                                           *)

\* As if the double-launch guard were missing.
EnterUnguarded(t) ==
    /\ At(t, "enter", "reserve")
    /\ inflight' = inflight \cup {Issue(t)}
    /\ UNCHANGED <<durable, cancels, cancelled, reserved, loopVars, env, job, acct, closing, lastOK>>

\* The double-launch guard.
Enter(t) ==
    /\ pc[t] = "enter"
    /\ \/ /\ Issue(t) \in inflight
          /\ At(t, "enter", Return(t))
          /\ UNCHANGED inflight
       \/ /\ Issue(t) \notin inflight
          /\ At(t, "enter", "reserve")
          /\ inflight' = inflight \cup {Issue(t)}
    /\ UNCHANGED <<durable, cancels, cancelled, reserved, loopVars, env, job, acct, closing, lastOK>>

\* As if a reserved account were still a candidate.
CandidatesReserved(t) ==
    {a \in Accounts : job[t].account \in {None, a} /\ avail[a] = "up"}

\* Accounts Reserve may choose: the picked one strictly, else any.
Candidates(t) ==
    {a \in Accounts : /\ job[t].account \in {None, a}
                      /\ Availability(a) = "available"}

Forced(t) == job[t].force /\ job[t].account # None

\* acquireRuntime up to the reservation.  (The budget policy sees usage 0 and allows.)
Reserve(t) ==
    /\ pc[t] = "reserve"
    /\ \/ /\ Forced(t) /\ Availability(job[t].account) # "out"
          /\ At(t, "reserve", "begin")
          /\ acct' = [acct EXCEPT ![t] = job[t].account]
          /\ UNCHANGED reserved
       \/ /\ Forced(t) /\ Availability(job[t].account) = "out"
          /\ At(t, "reserve", "defer")
          /\ UNCHANGED <<reserved, acct>>
       \/ /\ ~Forced(t)
          /\ \E a \in Candidates(t) :
               /\ reserved' = [reserved EXCEPT ![a] = Issue(t)]
               /\ acct' = [acct EXCEPT ![t] = a]
          /\ At(t, "reserve", "lease")
       \/ /\ ~Forced(t) /\ Candidates(t) = {}
          /\ At(t, "reserve", "defer")
          /\ UNCHANGED <<reserved, acct>>
    /\ UNCHANGED <<durable, inflight, cancels, cancelled, loopVars, env, job, closing, lastOK>>

\* acquireRuntime's lease; a denial gives the reservation back.
Lease(t) ==
    /\ pc[t] = "lease"
    /\ \/ /\ Grantable(acctLease[acct[t]], Issue(t))
          /\ At(t, "lease", "begin")
          /\ acctLease' = [acctLease EXCEPT ![acct[t]] = Issue(t)]
          /\ UNCHANGED <<reserved, acct>>
       \/ /\ ~Grantable(acctLease[acct[t]], Issue(t))
          /\ At(t, "lease", "defer")
          /\ reserved' = [reserved EXCEPT ![acct[t]] = None]
          /\ acct' = [acct EXCEPT ![t] = None]
          /\ UNCHANGED acctLease
    /\ UNCHANGED <<store, mergeLease, issueLease, worktree, merged, requests, inflight,
                   cancels, cancelled, loopVars, env, job, closing, lastOK>>

\* As if releaseRuntime were not deferred.
UnwindNothing(t) == "leave"

\* The deferred releaseRuntime runs unless the run is forced.
Unwind(t) == IF acct[t] # None /\ ~job[t].force THEN "unlease" ELSE "leave"

\* As if a deferred run tried again in place.
DeferRetries(t) ==
    /\ At(t, "defer", IF acct[t] = None THEN "reserve" ELSE "develop")
    /\ Save(Issue(t), "claimed")
    /\ UNCHANGED <<acctLease, mergeLease, issueLease, worktree, merged, requests, memory,
                   loopVars, env, job, acct, closing, lastOK>>

\* deferAssignment
Defer(t) ==
    /\ At(t, "defer", Unwind(t))
    /\ Save(Issue(t), "claimed")
    /\ UNCHANGED <<acctLease, mergeLease, issueLease, worktree, merged, requests, memory,
                   loopVars, env, job, acct, closing, lastOK>>

BeginDevelop(t) ==
    /\ At(t, "begin", "develop")
    /\ Save(Issue(t), "developing")
    /\ UNCHANGED <<acctLease, mergeLease, issueLease, worktree, merged, requests, memory,
                   loopVars, env, job, acct, closing, lastOK>>

\* Developer.Develop ensures the worktree and works in it, or fails; then the state is qa.
Develop(t) ==
    /\ At(t, "develop", "improve")
    /\ \/ /\ t \notin cancelled
          /\ worktree' = worktree \cup {Issue(t)} /\ lastOK' = lastOK \cup {t}
       \/ /\ CallsMayFail \/ t \in cancelled
          /\ worktree' \in {worktree, worktree \cup {Issue(t)}} /\ UNCHANGED lastOK
    /\ Save(Issue(t), "qa")
    /\ UNCHANGED <<acctLease, mergeLease, issueLease, merged, requests, memory, loopVars,
                   env, job, acct, closing>>

\* The improvement loop, which may develop again.  Passed with the worker's ok: merge;
\* escalated: finish; the rest fail or defer.  A cancelled run never passes verification.
Improve(t) ==
    /\ pc[t] = "improve"
    /\ \E redone, ok \in BOOLEAN :
         /\ ~redone => ok = (t \in lastOK)
         /\ worktree' = IF redone THEN worktree \cup {Issue(t)} ELSE worktree
         /\ \/ ok /\ t \notin cancelled /\ At(t, "improve", "premerge")
            \/ \E next \in {"defer", "report", "finish"} : At(t, "improve", next)
    /\ lastOK' = lastOK \ {t}
    /\ UNCHANGED <<store, acctLease, mergeLease, issueLease, merged, requests, memory, loopVars,
                   env, job, acct, closing>>

\* As if Acquire's answer were not looked at.
PreMergeUngranted(t) ==
    /\ At(t, "premerge", "merging")
    /\ Save(Issue(t), "merging")
    /\ mergeLease' = Issue(t) /\ closing' = closing \cup {t}
    /\ UNCHANGED <<acctLease, issueLease, worktree, merged, requests, memory, loopVars, env,
                   job, acct, lastOK>>

\* mergeAndClose: the merge lease on the dev branch, or deferral.
PreMerge(t) ==
    /\ pc[t] = "premerge"
    /\ Save(Issue(t), "merging")
    /\ \/ /\ Grantable(mergeLease, Issue(t))
          /\ At(t, "premerge", "merging")
          /\ mergeLease' = Issue(t) /\ closing' = closing \cup {t}
       \/ /\ ~Grantable(mergeLease, Issue(t))
          /\ At(t, "premerge", "defer")
          /\ UNCHANGED <<mergeLease, closing>>
    /\ UNCHANGED <<acctLease, issueLease, worktree, merged, requests, memory, loopVars, env,
                   job, acct, lastOK>>

\* As if a conflict (merged = false without an error) were taken for a merge.
MergeConflictIgnored(t) ==
    /\ At(t, "merging", "close")
    /\ merged' \in {merged, merged \cup {Issue(t)}}
    /\ UNCHANGED <<store, acctLease, mergeLease, issueLease, worktree, requests, memory,
                   loopVars, env, job, acct, closing, lastOK>>

\* Merger.Merge pushes the branch, conflicts, or fails (as it does once cancelled).
Merge(t) ==
    /\ \/ /\ t \notin cancelled /\ Issue(t) \in worktree
          /\ At(t, "merging", "close")
          /\ merged' = merged \cup {Issue(t)}
       \/ /\ At(t, "merging", "report")
          /\ UNCHANGED merged
    /\ UNCHANGED <<store, acctLease, mergeLease, issueLease, worktree, requests, memory,
                   loopVars, env, job, acct, closing, lastOK>>

\* fail raises the Allow/Deny request before finish persists the failure.
Report(t) ==
    /\ At(t, "report", "finish")
    /\ \/ UNCHANGED requests
       \/ OnRequest /\ requests' = requests \cup {Issue(t)}
    /\ UNCHANGED <<store, acctLease, mergeLease, issueLease, worktree, merged, memory,
                   loopVars, env, job, acct, closing, lastOK>>

\* What is left when finish returns: mergeAndClose's deferred release, then Unwind.
AfterFinish(t) == IF t \in closing THEN "unmerge" ELSE Unwind(t)

\* finish persists the terminal state (done only after a merge); if that fails it returns
\* at once.
Finish(t) ==
    /\ pc[t] \in {"close", "finish"}
    /\ \/ /\ At(t, pc[t], "cleanup")
          /\ store' = [store EXCEPT ![Issue(t)] = IF pc[t] = "close" THEN "done" ELSE "failed"]
       \/ /\ SaveMayFail
          /\ At(t, pc[t], AfterFinish(t))
          /\ UNCHANGED store
    /\ UNCHANGED <<acctLease, mergeLease, issueLease, worktree, merged, requests, memory,
                   loopVars, env, job, acct, closing, lastOK>>

\* As if Cleanup pruned every worktree.
CleanupPrunes(t) ==
    /\ At(t, "cleanup", AfterFinish(t))
    /\ issueLease' = issueLease \ {Issue(t)}
    /\ worktree' = {}
    /\ UNCHANGED <<store, acctLease, mergeLease, merged, requests, memory, loopVars, env,
                   job, acct, closing, lastOK>>

\* ... then releases the issue lease and removes the worktree and branch.
Cleanup(t) ==
    /\ At(t, "cleanup", AfterFinish(t))
    /\ issueLease' = issueLease \ {Issue(t)}
    /\ worktree' = worktree \ {Issue(t)}
    /\ UNCHANGED <<store, acctLease, mergeLease, merged, requests, memory, loopVars, env,
                   job, acct, closing, lastOK>>

\* mergeAndClose's deferred release.
UnMerge(t) ==
    /\ At(t, "unmerge", Unwind(t))
    /\ mergeLease' = IF mergeLease = Issue(t) THEN None ELSE mergeLease
    /\ closing' = closing \ {t}
    /\ UNCHANGED <<store, acctLease, issueLease, worktree, merged, requests, memory,
                   loopVars, env, job, acct, lastOK>>

\* releaseRuntime: the lease first ...
UnLease(t) ==
    /\ At(t, "unlease", "unreserve")
    /\ acctLease' = [acctLease EXCEPT ![acct[t]] = IF @ = Issue(t) THEN None ELSE @]
    /\ UNCHANGED <<store, mergeLease, issueLease, worktree, merged, requests, memory,
                   loopVars, env, job, acct, closing, lastOK>>

\* ... then the reservation, whoever holds it.
UnReserve(t) ==
    /\ At(t, "unreserve", "leave")
    /\ reserved' = [reserved EXCEPT ![acct[t]] = None]
    /\ acct' = [acct EXCEPT ![t] = None]
    /\ UNCHANGED <<durable, inflight, cancels, cancelled, loopVars, env, job, closing, lastOK>>

\* The in-flight slot is given back last.
Leave(t) ==
    /\ At(t, "leave", Return(t))
    /\ inflight' = inflight \ {Issue(t)}
    /\ acct' = [acct EXCEPT ![t] = None]
    /\ UNCHANGED <<durable, cancels, cancelled, reserved, loopVars, env, job, closing, lastOK>>

\* RunIssue's deferred delete(o.cancels, key), whoever registered it.
Unregister(t) ==
    /\ At(t, "unregister", "idle")
    /\ cancels' = [cancels EXCEPT ![Issue(t)] = None]
    /\ cancelled' = cancelled \ {t}
    /\ job' = [job EXCEPT ![t] = NoJob]
    /\ UNCHANGED <<durable, inflight, reserved, loopVars, env, acct, closing, lastOK>>

-----------------------------------------------------------------------------
(* Orchestrator.Run and Recover.                                            *)

\* Run overwrites whatever an early start or stop command set.
RunStart ==
    /\ At(Loop, "start", "boot")
    /\ active' = StartActive
    /\ UNCHANGED <<durable, memory, trigger, todo, env, job, acct, closing, lastOK>>

\* As if Recover only reaped expired leases.
BootKeepsLeases ==
    /\ At(Loop, "boot", "resume")
    /\ todo' = {i \in Issues : store[i] \notin {"absent"} \cup Terminal}
    /\ job' = [job EXCEPT ![Loop].origin = "loop"]
    /\ UNCHANGED <<durable, memory, active, trigger, env, acct, closing, lastOK>>

\* Recover: reap, release every resource and merge lease and the issue leases of finished
\* work, then list the unfinished assignments.
Boot ==
    /\ At(Loop, "boot", "resume")
    /\ acctLease' = [a \in Accounts |-> None]
    /\ mergeLease' = None
    /\ issueLease' = {i \in issueLease : store[i] \notin {"absent"} \cup Terminal}
    /\ todo' = {i \in Issues : store[i] \notin {"absent"} \cup Terminal}
    /\ job' = [job EXCEPT ![Loop].origin = "loop"]
    /\ UNCHANGED <<store, worktree, merged, requests, memory, active, trigger, env, acct,
                   closing, lastOK>>

\* The next listed assignment is resumed if the loop is active (Jira.Get may fail).
Resume ==
    /\ \/ \E i \in todo :
            /\ todo' = todo \ {i}
            /\ \/ /\ active
                  /\ At(Loop, "resume", "enter")
                  /\ job' = [job EXCEPT ![Loop].issue = i]
               \/ /\ ~active \/ CallsMayFail
                  /\ At(Loop, "resume", "resume")
                  /\ UNCHANGED job
       \/ todo = {} /\ At(Loop, "resume", "drain") /\ UNCHANGED <<todo, job>>
    /\ UNCHANGED <<durable, memory, active, trigger, env, acct, closing, lastOK>>

\* Drain while active, else block until notified.
Drain ==
    /\ At(Loop, "drain", IF active THEN "scan" ELSE "wait")
    /\ UNCHANGED <<durable, memory, loopVars, env, job, acct, closing, lastOK>>

Wake ==
    /\ trigger /\ trigger' = FALSE
    /\ At(Loop, "wait", "drain")
    /\ UNCHANGED <<durable, memory, active, todo, env, job, acct, closing, lastOK>>

-----------------------------------------------------------------------------
(* The environment.                                                         *)

\* Pause, resume, cooldown, and health changes of an account.
SetAvail(a, v) ==
    /\ a \in Unsteady /\ avail[a] # v
    /\ avail' = [avail EXCEPT ![a] = v]
    /\ UNCHANGED <<durable, memory, loopVars, reaping, crashes, thread>>

\* A lease runs out.
Expire ==
    /\ LeaseMayExpire
    /\ \/ /\ \E a \in Accounts :
               /\ acctLease[a] # None
               /\ acctLease' = [acctLease EXCEPT ![a] = None]
          /\ UNCHANGED <<mergeLease, issueLease>>
       \/ /\ mergeLease # None /\ mergeLease' = None
          /\ UNCHANGED <<acctLease, issueLease>>
       \/ /\ \E i \in issueLease : issueLease' = issueLease \ {i}
          /\ UNCHANGED <<acctLease, mergeLease>>
    /\ UNCHANGED <<store, worktree, merged, requests, memory, loopVars, env, thread>>

\* The janitor: WorktreeReapable ...
Reapable(i) ==
    /\ Janitor /\ reaping = None
    /\ i \in worktree /\ i \notin inflight
    /\ store[i] \in {"absent"} \cup Terminal
    /\ reaping' = i
    /\ UNCHANGED <<durable, memory, loopVars, avail, crashes, thread>>

\* ... then Cleanup.
Reap ==
    /\ reaping # None /\ reaping' = None
    /\ worktree' = worktree \ {reaping}
    /\ UNCHANGED <<store, acctLease, mergeLease, issueLease, merged, requests, memory,
                   loopVars, avail, crashes, thread>>

\* The process dies and is started again.
Crash ==
    /\ crashes < MaxCrashes /\ crashes' = crashes + 1
    /\ inflight' = {} /\ cancels' = NobodyIn(Issues) /\ cancelled' = {}
    /\ reserved' = NobodyIn(Accounts) /\ avail' = [a \in Accounts |-> "up"]
    /\ active' = FALSE /\ trigger' = FALSE /\ todo' = {} /\ reaping' = None
    /\ pc' = FreshPc /\ job' = [t \in Threads |-> NoJob] /\ acct' = NobodyIn(Threads)
    /\ closing' = {} /\ lastOK' = {}
    /\ UNCHANGED durable

-----------------------------------------------------------------------------
Step(t) ==
    \/ Reset(t) \/ Queued(t) \/ Register(t) \/ LoadIssue(t) \/ GetIssue(t) \/ Claim(t)
    \/ Scan(t) \/ Enter(t) \/ Reserve(t) \/ Lease(t) \/ Defer(t) \/ BeginDevelop(t)
    \/ Develop(t) \/ Improve(t) \/ PreMerge(t) \/ Merge(t) \/ Report(t) \/ Finish(t)
    \/ Cleanup(t) \/ UnMerge(t) \/ UnLease(t) \/ UnReserve(t) \/ Leave(t) \/ Unregister(t)

LoopStep == RunStart \/ Boot \/ Resume \/ Drain \/ Wake

Command ==
    \/ \E t \in Ops, i \in Issues :
         \/ \E a \in Picks, mode \in Modes : CmdRun(t, i, a, mode) \/ CmdContinue(t, i, a, mode)
         \/ CmdAllow(t, i)
    \/ \E t \in Ops : CmdTick(t)
    \/ \E i \in Issues : CmdDeny(i) \/ CmdCancel(i)
    \/ \E on \in BOOLEAN : CmdSetActive(on)

Environment ==
    \/ \E a \in Accounts, v \in {"up", "cooling", "out"} : SetAvail(a, v)
    \/ Expire
    \/ \E i \in Issues : Reapable(i)
    \/ Reap
    \/ Crash

Next ==
    \/ \E t \in Threads : Step(t)
    \/ LoopStep
    \/ Command
    \/ Environment

Spec == Init /\ [][Next]_vars

\* Every goroutine that can move does (the Go scheduler runs every runnable goroutine, and
\* every external call the pipeline makes returns); operators and crashes owe nothing.
FairSpec ==
    /\ Spec
    /\ \A t \in Threads : WF_vars(Step(t))
    /\ WF_vars(LoopStep)

-----------------------------------------------------------------------------
(* Properties.                                                              *)

\* The same issue is never executed twice at once, across run, continue, allow, tick, the
\* loop and Recover (runAssignment's double-launch guard).
SingleExecution ==
    \A t, u \in Threads :
        pc[t] \in Running /\ pc[u] \in Running /\ Issue(t) = Issue(u) => t = u

\* The run holds its account exclusively, by a reservation.
Owns(t) == acct[t] # None /\ ~Forced(t)

\* Two runs not forced in parallel never use the same account (Law 10).
AccountExclusive ==
    \A t, u \in Threads : Owns(t) /\ Owns(u) /\ acct[t] = acct[u] => t = u

Recovered == pc[Loop] \notin {"start", "boot"}

\* Once Recover has cleaned up, every account lease belongs to a run that is using the
\* account: a killed run never leaves its account leased.
NoOrphanLease ==
    Recovered =>
        \A a \in Accounts : acctLease[a] # None =>
            \E t \in Threads : Owns(t) /\ acct[t] = a /\ Issue(t) = acctLease[a]

\* ... and every reservation belongs to a live run.
NoOrphanReservation ==
    \A a \in Accounts : reserved[a] # None =>
        \E t \in Threads : Owns(t) /\ acct[t] = a /\ Issue(t) = reserved[a]

\* Merges into the dev branch are serialized (Law 11).
MergeExclusive ==
    \A t, u \in Threads : pc[t] = "merging" /\ pc[u] = "merging" => t = u

\* An Assignment is done only if its branch was pushed.
DoneIsMerged == \A i \in Issues : store[i] = "done" => i \in merged

\* A worktree is there as long as a run works in it.
WorktreePresent ==
    \A t \in Threads : pc[t] \in {"premerge", "merging"} => Issue(t) \in worktree

\* A goroutine started by a command ends.
RunsEnd == \A t \in Ops : (pc[t] # "idle") ~> (pc[t] = "idle")

\* While the loop is active every eligible issue is claimed.
ActiveClaims ==
    \A i \in Eligible : (active /\ store[i] = "absent") ~> (store[i] # "absent" \/ ~active)

-----------------------------------------------------------------------------
(* What comments and documents say of the code, and some instance refutes.  *)

\* A run started by an operator can be cancelled as long as it lasts (TaskRunning, "has a
\* live cancelable run", and CancelTask, "errors if the task isn't currently running").
Cancellable ==
    \A t \in Ops :
        pc[t] \in Running /\ job[t].origin # "tick" => cancels[Issue(t)] = t

\* A deferred Assignment of an active loop is taken up again (deferAssignment, "a later
\* pass retries").
IdleClaimed(i) ==
    /\ active /\ store[i] = "claimed"
    /\ \A t \in Threads : Issue(t) # i \/ pc[t] \in {"idle", "wait"}
DeferredRetried == \A i \in Issues : IdleClaimed(i) ~> ~IdleClaimed(i)
=============================================================================
