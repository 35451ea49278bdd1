------------------------- MODULE OrchestratorProofs -------------------------
(***************************************************************************)
(* Invariants of module Orchestrator proved for any number of issues,      *)
(* accounts and goroutines, any commands and modes, and every fault the    *)
(* constants can switch on.                                                *)
(*                                                                         *)
(* The argument: a thread past the double-launch guard has an issue        *)
(* (TypeInv) and its in-flight slot (SlotInv), so one issue has one run;   *)
(* what a run owns is reserved in its name (AcctInv), so one account has   *)
(* one run; a run about to record "done" has merged (MergedInv); a run     *)
(* that merges owns the merge lease (MergeInv); a run that leaves owns     *)
(* nothing, so nothing is left behind (ReleaseInv); and only the run of an *)
(* issue removes its worktree (WorktreeInv).                               *)
(***************************************************************************)
EXTENDS Orchestrator, TLAPS

\* The steps of a thread that has an issue.
Named == Running \cup {"queued", "reset", "resetqueue", "register", "load", "get", "claim",
                       "enter", "unregister"}
JobNamed == \A t \in Threads : pc[t] \in Named => Issue(t) \in Issues
TypeInv == TypeOK /\ JobNamed

\* Every step keeps the types, and a thread never runs without an issue.
THEOREM TypeCorrect == Spec => []TypeInv
<1>0. NoJob \in Job
  BY DEF NoJob, Job
<1>1. Init => TypeInv
  <2> USE ThreadsAssumption, FlagsAssumption DEF Init
  <2> SUFFICES ASSUME Init PROVE TypeInv
    OBVIOUS
  <2>1. pc \in [Threads -> Running \cup Outside]
    BY DEF FreshPc, Running, Outside
  <2>2. job \in [Threads -> Job]
    BY <1>0
  <2>3. acct \in [Threads -> Accounts \cup {None}] /\ cancels \in [Issues -> Threads \cup {None}]
    BY DEF NobodyIn
  <2>4. acctLease \in [Accounts -> Issues \cup {None}] /\ reserved \in [Accounts -> Issues \cup {None}]
    BY DEF NobodyIn
  <2>5. JobNamed
    BY DEF JobNamed, FreshPc, Named, Running
  <2>6. store \in [Issues -> States] /\ avail \in [Accounts -> {"up", "cooling", "out"}]
    BY DEF States
  <2>7. crashes \in 0..MaxCrashes
    OBVIOUS
  <2> QED
    BY <2>1, <2>2, <2>3, <2>4, <2>5, <2>6, <2>7 DEF TypeInv, TypeOK
<1>2. TypeInv /\ [Next]_vars => TypeInv'
  <2> USE ThreadsAssumption, PicksAssumption, FlagsAssumption
    DEF TypeInv, JobNamed, Named, TypeOK, Threads, Running, Outside, States, Terminal, At, Issue,
        durable, memory, loopVars, env, thread, vars
  <2> SUFFICES ASSUME TypeInv, [Next]_vars PROVE TypeInv'
    OBVIOUS
  <2>1. ASSUME NEW t \in Threads, Reset(t) PROVE TypeInv'
    BY <2>1 DEF Reset, Save, IsTerminal
  <2>2. ASSUME NEW t \in Threads, Queued(t) PROVE TypeInv'
    <3>1. CASE pc'[t] = "register"
      BY <2>2, <3>1 DEF Queued
    <3>2. CASE job' = [job EXCEPT ![t] = NoJob] /\ pc' = [pc EXCEPT ![t] = "idle"]
      BY <2>2, <3>2, <1>0 DEF Queued
    <3> QED
      BY <2>2, <3>1, <3>2 DEF Queued
  <2>3. ASSUME NEW t \in Threads, Register(t) PROVE TypeInv'
    BY <2>3 DEF Register
  <2>4. ASSUME NEW t \in Threads, LoadIssue(t) PROVE TypeInv'
    BY <2>4 DEF LoadIssue, IsTerminal, Return
  <2>5. ASSUME NEW t \in Threads, GetIssue(t) PROVE TypeInv'
    BY <2>5 DEF GetIssue, Return
  <2>6. ASSUME NEW t \in Threads, Claim(t) PROVE TypeInv'
    BY <2>6 DEF Claim, Return
  <2>7. ASSUME NEW t \in Threads, Scan(t) PROVE TypeInv'
    <3>1. ASSUME NEW i \in Eligible, At(t, "scan", "claim"), job' = [job EXCEPT ![t].issue = i]
          PROVE  TypeInv'
      BY <2>7, <3>1 DEF Scan, Job
    <3>2. CASE job' = [job EXCEPT ![t] = job[t]] /\ At(t, "scan", "wait")
      BY <2>7, <3>2 DEF Scan
    <3>3. CASE job' = [job EXCEPT ![t] = NoJob] /\ At(t, "scan", "idle")
      BY <2>7, <3>3, <1>0 DEF Scan
    <3> QED
      BY <2>7, <3>1, <3>2, <3>3 DEF Scan
  <2>8. ASSUME NEW t \in Threads, Enter(t) PROVE TypeInv'
    BY <2>8 DEF Enter, Return
  <2>9. ASSUME NEW t \in Threads, Reserve(t) PROVE TypeInv'
    BY <2>9 DEF Reserve, Candidates, Job
  <2>10. ASSUME NEW t \in Threads, Lease(t) PROVE TypeInv'
    BY <2>10 DEF Lease
  <2>11. ASSUME NEW t \in Threads, Defer(t) PROVE TypeInv'
    BY <2>11 DEF Defer, Save, Unwind
  <2>12. ASSUME NEW t \in Threads, BeginDevelop(t) PROVE TypeInv'
    BY <2>12 DEF BeginDevelop, Save
  <2>13. ASSUME NEW t \in Threads, Develop(t) PROVE TypeInv'
    BY <2>13 DEF Develop, Save
  <2>14. ASSUME NEW t \in Threads, Improve(t) PROVE TypeInv'
    BY <2>14 DEF Improve
  <2>15. ASSUME NEW t \in Threads, PreMerge(t) PROVE TypeInv'
    BY <2>15 DEF PreMerge, Save
  <2>16. ASSUME NEW t \in Threads, Merge(t) PROVE TypeInv'
    BY <2>16 DEF Merge
  <2>17. ASSUME NEW t \in Threads, Report(t) PROVE TypeInv'
    BY <2>17 DEF Report
  <2>18. ASSUME NEW t \in Threads, Finish(t) PROVE TypeInv'
    BY <2>18 DEF Finish, AfterFinish, Unwind
  <2>19. ASSUME NEW t \in Threads, Cleanup(t) PROVE TypeInv'
    BY <2>19 DEF Cleanup, AfterFinish, Unwind
  <2>20. ASSUME NEW t \in Threads, UnMerge(t) PROVE TypeInv'
    BY <2>20 DEF UnMerge, Unwind
  <2>21. ASSUME NEW t \in Threads, UnLease(t) PROVE TypeInv'
    BY <2>21 DEF UnLease
  <2>22. ASSUME NEW t \in Threads, UnReserve(t) PROVE TypeInv'
    BY <2>22 DEF UnReserve
  <2>23. ASSUME NEW t \in Threads, Leave(t) PROVE TypeInv'
    BY <2>23 DEF Leave, Return
  <2>24. ASSUME NEW t \in Threads, Unregister(t) PROVE TypeInv'
    BY <2>24, <1>0 DEF Unregister
  <2>25. ASSUME RunStart PROVE TypeInv'
    BY <2>25 DEF RunStart
  <2>26. ASSUME Boot PROVE TypeInv'
    BY <2>26 DEF Boot, Job
  <2>27. ASSUME Resume PROVE TypeInv'
    BY <2>27 DEF Resume, Job
  <2>28. ASSUME Drain PROVE TypeInv'
    BY <2>28 DEF Drain
  <2>29. ASSUME Wake PROVE TypeInv'
    BY <2>29 DEF Wake
  <2>30. ASSUME NEW t \in Ops, NEW i \in Issues, NEW a \in Picks, NEW mode \in Modes,
              CmdRun(t, i, a, mode) PROVE TypeInv'
    BY <2>30 DEF CmdRun, Job, Start
  <2>31. ASSUME NEW t \in Ops, NEW i \in Issues, NEW a \in Picks, NEW mode \in Modes,
              CmdContinue(t, i, a, mode) PROVE TypeInv'
    BY <2>31 DEF CmdContinue, Job, Start
  <2>32. ASSUME NEW t \in Ops, NEW i \in Issues, CmdAllow(t, i) PROVE TypeInv'
    BY <2>32 DEF CmdAllow, Job, Save, IsTerminal, Start
  <2>33. ASSUME NEW t \in Ops, CmdTick(t) PROVE TypeInv'
    BY <2>33 DEF CmdTick, Job, Start
  <2>34. ASSUME NEW i \in Issues, CmdDeny(i) PROVE TypeInv'
    BY <2>34 DEF CmdDeny
  <2>35. ASSUME NEW i \in Issues, CmdCancel(i) PROVE TypeInv'
    BY <2>35 DEF CmdCancel
  <2>36. ASSUME NEW on \in BOOLEAN, CmdSetActive(on) PROVE TypeInv'
    BY <2>36 DEF CmdSetActive
  <2>37. ASSUME NEW a \in Accounts, NEW v \in {"up", "cooling", "out"}, SetAvail(a, v) PROVE TypeInv'
    BY <2>37 DEF SetAvail
  <2>38. ASSUME Expire PROVE TypeInv'
    BY <2>38 DEF Expire
  <2>39. ASSUME NEW i \in Issues, Reapable(i) PROVE TypeInv'
    BY <2>39 DEF Reapable
  <2>40. ASSUME Reap PROVE TypeInv'
    BY <2>40 DEF Reap
  <2>41. ASSUME Crash PROVE TypeInv'
    <3>1. pc' \in [Threads -> Running \cup Outside] /\ JobNamed'
      BY <2>41 DEF Crash, FreshPc
    <3>2. job' \in [Threads -> Job]
      BY <2>41, <1>0 DEF Crash
    <3>3. acct' \in [Threads -> Accounts \cup {None}] /\ cancels' \in [Issues -> Threads \cup {None}]
      BY <2>41 DEF Crash, NobodyIn
    <3>4. reserved' \in [Accounts -> Issues \cup {None}] /\ avail' \in [Accounts -> {"up", "cooling", "out"}]
      BY <2>41 DEF Crash, NobodyIn
    <3>5. crashes' \in 0..MaxCrashes
      BY <2>41 DEF Crash
    <3> QED
      BY <2>41, <3>1, <3>2, <3>3, <3>4, <3>5 DEF Crash
  <2>42. CASE UNCHANGED vars
    BY <2>42
  <2> HIDE DEF TypeInv, JobNamed, TypeOK, vars
  <2>43. ASSUME NEW t \in Threads, Step(t) PROVE TypeInv'
    BY <2>43, <2>1, <2>2, <2>3, <2>4, <2>5, <2>6, <2>7, <2>8, <2>9, <2>10, <2>11, <2>12, <2>13, <2>14,
       <2>15, <2>16, <2>17, <2>18, <2>19, <2>20, <2>21, <2>22, <2>23, <2>24, Zenon DEF Step
  <2>44. ASSUME LoopStep PROVE TypeInv'
    BY <2>44, <2>25, <2>26, <2>27, <2>28, <2>29, Zenon DEF LoopStep
  <2>45. ASSUME Command PROVE TypeInv'
    BY <2>45, <2>30, <2>31, <2>32, <2>33, <2>34, <2>35, <2>36, Zenon DEF Command
  <2>46. ASSUME Environment PROVE TypeInv'
    BY <2>46, <2>37, <2>38, <2>39, <2>40, <2>41, Zenon DEF Environment
  <2> QED
    BY <2>42, <2>43, <2>44, <2>45, <2>46, Zenon DEF Next
<1> QED
  BY <1>1, <1>2, PTL DEF Spec

\* The variables of the orchestrator keep their types.
THEOREM TypesHold == Spec => []TypeOK
<1>1. TypeInv => TypeOK
  BY DEF TypeInv
<1> QED
  BY <1>1, TypeCorrect, PTL

-----------------------------------------------------------------------------
\* A running thread holds its issue's in-flight slot.
SlotHeld == \A t \in Threads : pc[t] \in Running => Issue(t) \in inflight
SlotInv == SlotHeld /\ SingleExecution

\* Only Enter takes a slot, when it is free; only Leave, by the run that has it, frees it.
LEMMA SlotInductive == TypeInv /\ SlotInv /\ [Next]_vars => SlotInv'
<1> USE ThreadsAssumption
    DEF TypeInv, TypeOK, Threads, Running, Outside, SlotInv, SlotHeld, SingleExecution, At, Issue,
        durable, memory, loopVars, env, thread, vars
<1> SUFFICES ASSUME TypeInv, SlotInv, [Next]_vars PROVE SlotInv'
  OBVIOUS
\* Steps outside the slot.
<1>1. ASSUME NEW t \in Threads, Reset(t) \/ Queued(t) \/ Register(t) PROVE SlotInv'
  BY <1>1 DEF Reset, Queued, Register
<1>2. ASSUME NEW t \in Threads, LoadIssue(t) \/ GetIssue(t) \/ Claim(t) PROVE SlotInv'
  BY <1>2 DEF LoadIssue, GetIssue, Claim, Return
<1>3. ASSUME NEW t \in Threads, Scan(t) \/ Unregister(t) PROVE SlotInv'
  BY <1>3 DEF Scan, Unregister
<1>4. ASSUME RunStart \/ Boot \/ Resume \/ Drain \/ Wake PROVE SlotInv'
  BY <1>4 DEF RunStart, Boot, Resume, Drain, Wake
\* Taking the slot and giving it back.
<1>5. ASSUME NEW t \in Threads, Enter(t) PROVE SlotInv'
  BY <1>5 DEF Enter, Return
<1>6. ASSUME NEW t \in Threads, Leave(t) PROVE SlotInv'
  BY <1>6 DEF Leave, Return
\* Steps of a run that has the slot.
<1>7. ASSUME NEW t \in Threads, Reserve(t) \/ Lease(t) \/ Defer(t) PROVE SlotInv'
  BY <1>7 DEF Reserve, Lease, Defer, Unwind
<1>8. ASSUME NEW t \in Threads, BeginDevelop(t) \/ Develop(t) \/ Improve(t) \/ PreMerge(t) PROVE SlotInv'
  BY <1>8 DEF BeginDevelop, Develop, Improve, PreMerge
<1>9. ASSUME NEW t \in Threads, Merge(t) \/ Report(t) \/ Finish(t) \/ Cleanup(t) PROVE SlotInv'
  BY <1>9 DEF Merge, Report, Finish, Cleanup, AfterFinish, Unwind
<1>10. ASSUME NEW t \in Threads, UnMerge(t) \/ UnLease(t) \/ UnReserve(t) PROVE SlotInv'
  BY <1>10 DEF UnMerge, UnLease, UnReserve, Unwind
\* Commands start idle threads outside the slot.
<1>11. ASSUME NEW t \in Ops, NEW at \in Outside, NEW i \in Issues \cup {None}, NEW a, NEW mode, NEW origin,
              Start(t, at, i, a, mode, origin), UNCHANGED inflight
       PROVE  SlotInv'
  BY <1>11 DEF Start
<1>12. ASSUME Command PROVE SlotInv'
  <2>1. ASSUME NEW t \in Ops, NEW i \in Issues, NEW a \in Picks, NEW mode \in Modes,
               CmdRun(t, i, a, mode) \/ CmdContinue(t, i, a, mode)
        PROVE  SlotInv'
    BY <2>1, <1>11 DEF CmdRun, CmdContinue
  <2>2. ASSUME NEW t \in Ops, NEW i \in Issues, CmdAllow(t, i) PROVE SlotInv'
    BY <2>2, <1>11 DEF CmdAllow
  <2>3. ASSUME NEW t \in Ops, CmdTick(t) PROVE SlotInv'
    BY <2>3, <1>11 DEF CmdTick
  <2>4. CASE UNCHANGED <<inflight, pc, job>>
    BY <2>4
  <2> QED
    BY <1>12, <2>1, <2>2, <2>3, <2>4 DEF Command, CmdDeny, CmdCancel, CmdSetActive
\* The environment only touches the slots by killing every thread.
<1>13. CASE Crash
  BY <1>13 DEF Crash, FreshPc
<1>14. CASE UNCHANGED <<inflight, pc, job>>
  BY <1>14
<1> QED
  BY <1>1, <1>2, <1>3, <1>4, <1>5, <1>6, <1>7, <1>8, <1>9, <1>10, <1>12, <1>13, <1>14
  DEF Next, Step, LoopStep, Environment, SetAvail, Expire, Reapable, Reap

\* For any number of issues, accounts and goroutines, and with every fault the model knows,
\* runAssignment's guard keeps the executions of one issue apart.
THEOREM OneExecution == Spec => []SingleExecution
<1>1. Init => SlotInv
  BY ThreadsAssumption DEF Init, FreshPc, SlotInv, SlotHeld, SingleExecution, Threads, Running
<1>2. SlotInv => SingleExecution
  BY DEF SlotInv
<1> QED
  BY <1>1, <1>2, TypeCorrect, SlotInductive, PTL DEF Spec

-----------------------------------------------------------------------------
\* Only a run past its reservation has an account.
AcctInRun == \A t \in Threads : acct[t] # None => pc[t] \in Running \ {"reserve"}
\* The steps that give an account back are those of a run that owns one.
ReleasesOwn == \A t \in Threads : pc[t] \in {"lease", "unlease", "unreserve"} => Owns(t)
\* What a run owns is reserved in its name.
OwnedIsReserved == \A t \in Threads : Owns(t) => reserved[acct[t]] = Issue(t)
AcctInv == AcctInRun /\ ReleasesOwn /\ OwnedIsReserved

\* Two owners of one account run the same issue, so they are one thread.
LEMMA OwnedOnce == TypeInv /\ SlotInv /\ AcctInv => AccountExclusive
BY DEF TypeInv, TypeOK, SlotInv, SingleExecution, AcctInv, AcctInRun, OwnedIsReserved, AccountExclusive, Owns

\* An account is reserved only when it is free and released only by its owner.
LEMMA AcctInductive == TypeInv /\ SlotInv /\ AcctInv /\ [Next]_vars => AcctInv'
<1> USE ThreadsAssumption
    DEF TypeInv, TypeOK, Threads, Running, Outside, AcctInv, AcctInRun, ReleasesOwn, OwnedIsReserved,
        Owns, Forced, At, Issue, durable, memory, loopVars, env, thread, vars
<1> SUFFICES ASSUME TypeInv, SlotInv, AcctInv, [Next]_vars PROVE AcctInv'
  OBVIOUS
<1>0. AccountExclusive
  BY OwnedOnce
\* Steps outside a run: the thread has no account.
<1>1. ASSUME NEW t \in Threads, Reset(t) \/ Queued(t) \/ Register(t) PROVE AcctInv'
  BY <1>1 DEF Reset, Queued, Register
<1>2. ASSUME NEW t \in Threads, LoadIssue(t) \/ GetIssue(t) \/ Claim(t) PROVE AcctInv'
  BY <1>2 DEF LoadIssue, GetIssue, Claim, Return
<1>3. ASSUME NEW t \in Threads, Scan(t) \/ Unregister(t) PROVE AcctInv'
  BY <1>3 DEF Scan, Unregister
<1>4. ASSUME RunStart \/ Boot \/ Resume \/ Drain \/ Wake PROVE AcctInv'
  BY <1>4 DEF RunStart, Boot, Resume, Drain, Wake
<1>5. ASSUME NEW t \in Threads, Enter(t) PROVE AcctInv'
  BY <1>5 DEF Enter, Return
\* Taking an account: it was reserved to nobody, so nobody owned it.
<1>6. ASSUME NEW t \in Threads, Reserve(t) PROVE AcctInv'
  <2>1. ASSUME NEW a \in Accounts, Availability(a) = "available" PROVE reserved[a] = None
    BY <2>1 DEF Availability
  <2>2. ASSUME NEW u \in Threads, Owns(u) PROVE reserved[acct[u]] # None
    BY <2>2 DEF JobNamed, Named
  <2> QED
    BY <1>6, <2>1, <2>2 DEF Reserve, Candidates, JobNamed, Named
\* Giving it back: nobody else owns it.
<1>7. ASSUME NEW t \in Threads, Lease(t) PROVE AcctInv'
  BY <1>7, <1>0 DEF Lease, AccountExclusive
<1>8. ASSUME NEW t \in Threads, UnReserve(t) PROVE AcctInv'
  BY <1>8, <1>0 DEF UnReserve, AccountExclusive
\* The rest of the run.
<1>9. ASSUME NEW t \in Threads, Defer(t) \/ BeginDevelop(t) \/ Develop(t) \/ Improve(t) \/ PreMerge(t)
      PROVE  AcctInv'
  BY <1>9 DEF Defer, BeginDevelop, Develop, Improve, PreMerge, Unwind
<1>10. ASSUME NEW t \in Threads, Merge(t) \/ Report(t) \/ Finish(t) \/ Cleanup(t) PROVE AcctInv'
  BY <1>10 DEF Merge, Report, Finish, Cleanup, AfterFinish, Unwind
<1>11. ASSUME NEW t \in Threads, UnMerge(t) \/ UnLease(t) \/ Leave(t) PROVE AcctInv'
  BY <1>11 DEF UnMerge, UnLease, Leave, Unwind, Return
\* Commands start idle threads, which have no account.
<1>12. ASSUME NEW t \in Ops, NEW at \in Outside, NEW i \in Issues \cup {None}, NEW a, NEW mode, NEW origin,
              Start(t, at, i, a, mode, origin), UNCHANGED reserved
       PROVE  AcctInv'
  BY <1>12 DEF Start
<1>13. ASSUME Command PROVE AcctInv'
  <2>1. ASSUME NEW t \in Ops, NEW i \in Issues, NEW a \in Picks, NEW mode \in Modes,
               CmdRun(t, i, a, mode) \/ CmdContinue(t, i, a, mode)
        PROVE  AcctInv'
    BY <2>1, <1>12 DEF CmdRun, CmdContinue
  <2>2. ASSUME NEW t \in Ops, NEW i \in Issues, CmdAllow(t, i) PROVE AcctInv'
    BY <2>2, <1>12 DEF CmdAllow
  <2>3. ASSUME NEW t \in Ops, CmdTick(t) PROVE AcctInv'
    BY <2>3, <1>12 DEF CmdTick
  <2>4. CASE UNCHANGED <<reserved, pc, job, acct>>
    BY <2>4
  <2> QED
    BY <1>13, <2>1, <2>2, <2>3, <2>4 DEF Command, CmdDeny, CmdCancel, CmdSetActive
<1>14. CASE Crash
  BY <1>14 DEF Crash, FreshPc, NobodyIn
<1>15. CASE UNCHANGED <<reserved, pc, job, acct>>
  BY <1>15
<1> QED
  BY <1>1, <1>2, <1>3, <1>4, <1>5, <1>6, <1>7, <1>8, <1>9, <1>10, <1>11, <1>13, <1>14, <1>15
  DEF Next, Step, LoopStep, Environment, SetAvail, Expire, Reapable, Reap

\* Two runs that were not forced in parallel never use one account, even when leases expire,
\* saves and calls fail, and the process crashes: the reservation alone excludes them.
THEOREM AccountsExclusive == Spec => []AccountExclusive
<1>1. Init => SlotInv /\ AcctInv
  BY ThreadsAssumption
  DEF Init, FreshPc, NobodyIn, SlotInv, SlotHeld, SingleExecution, AcctInv, AcctInRun, ReleasesOwn,
      OwnedIsReserved, Owns, Threads, Running
<1> QED
  BY <1>1, TypeCorrect, SlotInductive, AcctInductive, OwnedOnce, PTL DEF Spec

-----------------------------------------------------------------------------
\* A run about to persist "done" has pushed its branch.
ClosingMerged == \A t \in Threads : pc[t] = "close" => Issue(t) \in merged
MergedInv == ClosingMerged /\ DoneIsMerged

\* Merge is the only way to the step that records "done".
LEMMA MergedInductive == TypeInv /\ MergedInv /\ [Next]_vars => MergedInv'
<1> USE ThreadsAssumption
    DEF TypeInv, TypeOK, Threads, MergedInv, ClosingMerged, DoneIsMerged, At, Issue, Save,
        durable, memory, loopVars, env, thread, vars
<1> SUFFICES ASSUME TypeInv, MergedInv, [Next]_vars PROVE MergedInv'
  OBVIOUS
<1>1. ASSUME NEW t \in Threads, Reset(t) \/ Queued(t) \/ Register(t) PROVE MergedInv'
  BY <1>1 DEF Reset, Queued, Register
<1>2. ASSUME NEW t \in Threads, LoadIssue(t) \/ GetIssue(t) \/ Claim(t) PROVE MergedInv'
  BY <1>2 DEF LoadIssue, GetIssue, Claim, Return
<1>3. ASSUME NEW t \in Threads, Scan(t) \/ Unregister(t) \/ Enter(t) \/ Leave(t) PROVE MergedInv'
  BY <1>3 DEF Scan, Unregister, Enter, Leave, Return
<1>4. ASSUME RunStart \/ Boot \/ Resume \/ Drain \/ Wake PROVE MergedInv'
  BY <1>4 DEF RunStart, Boot, Resume, Drain, Wake
<1>5. ASSUME NEW t \in Threads, Reserve(t) \/ Lease(t) \/ Defer(t) PROVE MergedInv'
  BY <1>5 DEF Reserve, Lease, Defer, Unwind
<1>6. ASSUME NEW t \in Threads, BeginDevelop(t) \/ Develop(t) \/ Improve(t) \/ PreMerge(t)
      PROVE  MergedInv'
  BY <1>6 DEF BeginDevelop, Develop, Improve, PreMerge
\* The only way to "close", and the only way to "done".
<1>7. ASSUME NEW t \in Threads, Merge(t) PROVE MergedInv'
  BY <1>7 DEF Merge
<1>8. ASSUME NEW t \in Threads, Finish(t) PROVE MergedInv'
  BY <1>8 DEF Finish, AfterFinish, Unwind
<1>9. ASSUME NEW t \in Threads, Report(t) \/ Cleanup(t) \/ UnMerge(t) \/ UnLease(t) \/ UnReserve(t)
      PROVE  MergedInv'
  BY <1>9 DEF Report, Cleanup, UnMerge, UnLease, UnReserve, AfterFinish, Unwind
<1>10. ASSUME NEW t \in Ops, NEW at \in Outside, NEW i \in Issues \cup {None}, NEW a, NEW mode, NEW origin,
              Start(t, at, i, a, mode, origin), UNCHANGED merged,
              \A j \in Issues : store'[j] = "done" => store[j] = "done"
       PROVE  MergedInv'
  BY <1>10 DEF Start, Outside
<1>11. ASSUME Command PROVE MergedInv'
  <2>1. ASSUME NEW t \in Ops, NEW i \in Issues, NEW a \in Picks, NEW mode \in Modes,
               CmdRun(t, i, a, mode) \/ CmdContinue(t, i, a, mode)
        PROVE  MergedInv'
    BY <2>1, <1>10 DEF CmdRun, CmdContinue, Outside
  <2>2. ASSUME NEW t \in Ops, NEW i \in Issues, CmdAllow(t, i) PROVE MergedInv'
    BY <2>2, <1>10 DEF CmdAllow, Outside
  <2>3. ASSUME NEW t \in Ops, CmdTick(t) PROVE MergedInv'
    BY <2>3, <1>10 DEF CmdTick, Outside
  <2>4. CASE UNCHANGED <<store, merged, pc, job>>
    BY <2>4
  <2> QED
    BY <1>11, <2>1, <2>2, <2>3, <2>4 DEF Command, CmdDeny, CmdCancel, CmdSetActive
<1>12. CASE Crash
  BY <1>12 DEF Crash, FreshPc
<1>13. CASE UNCHANGED <<store, merged, pc, job>>
  BY <1>13
<1> QED
  BY <1>1, <1>2, <1>3, <1>4, <1>5, <1>6, <1>7, <1>8, <1>9, <1>11, <1>12, <1>13
  DEF Next, Step, LoopStep, Environment, SetAvail, Expire, Reapable, Reap

\* No Assignment is recorded as done unless its branch was pushed, whatever fails and
\* wherever the process dies.
THEOREM DoneOnlyIfMerged == Spec => []DoneIsMerged
<1>1. Init => MergedInv
  BY ThreadsAssumption DEF Init, FreshPc, MergedInv, ClosingMerged, DoneIsMerged, Threads
<1>2. MergedInv => DoneIsMerged
  BY DEF MergedInv
<1> QED
  BY <1>1, <1>2, TypeCorrect, MergedInductive, PTL DEF Spec

-----------------------------------------------------------------------------
\* A run that merges owns the merge lease.
MergerHasLease == \A t \in Threads : pc[t] = "merging" => mergeLease = Issue(t)
\* Before Recover is done with the leases nothing else runs.
QuietBoot == pc[Loop] \in {"start", "boot"} => \A t \in Ops : pc[t] = "idle"
MergeInv == MergerHasLease /\ QuietBoot

\* The lease a merging run was granted stays its own until the run releases it.
LEMMA MergeInductive ==
    ASSUME ~LeaseMayExpire, ~EarlyCommands
    PROVE  TypeInv /\ SlotInv /\ MergeInv /\ [Next]_vars => MergeInv'
<1> USE ThreadsAssumption
    DEF TypeInv, TypeOK, Threads, Running, Outside, MergeInv, MergerHasLease, QuietBoot, At, Issue,
        durable, memory, loopVars, env, thread, vars
<1> SUFFICES ASSUME TypeInv, SlotInv, MergeInv, [Next]_vars PROVE MergeInv'
  OBVIOUS
<1>1. ASSUME NEW t \in Threads, Reset(t) \/ Queued(t) \/ Register(t) PROVE MergeInv'
  BY <1>1 DEF Reset, Queued, Register
<1>2. ASSUME NEW t \in Threads, LoadIssue(t) \/ GetIssue(t) \/ Claim(t) PROVE MergeInv'
  BY <1>2 DEF LoadIssue, GetIssue, Claim, Return
<1>3. ASSUME NEW t \in Threads, Scan(t) \/ Unregister(t) \/ Enter(t) \/ Leave(t) PROVE MergeInv'
  BY <1>3 DEF Scan, Unregister, Enter, Leave, Return
\* Recover drops the merge lease while nothing else runs.
<1>4. CASE Boot
  BY <1>4 DEF Boot
<1>5. ASSUME RunStart \/ Resume \/ Drain \/ Wake PROVE MergeInv'
  BY <1>5 DEF RunStart, Resume, Drain, Wake
<1>6. ASSUME NEW t \in Threads, Reserve(t) \/ Lease(t) \/ Defer(t) PROVE MergeInv'
  BY <1>6 DEF Reserve, Lease, Defer, Unwind
<1>7. ASSUME NEW t \in Threads, BeginDevelop(t) \/ Develop(t) \/ Improve(t) PROVE MergeInv'
  BY <1>7 DEF BeginDevelop, Develop, Improve
\* The lease is granted when it is free or the issue's own; another merger would be a run
\* of the same issue.
<1>8. ASSUME NEW t \in Threads, PreMerge(t) PROVE MergeInv'
  BY <1>8 DEF PreMerge, Grantable, SlotInv, SingleExecution, JobNamed, Named
<1>9. ASSUME NEW t \in Threads, UnMerge(t) PROVE MergeInv'
  BY <1>9 DEF UnMerge, Unwind, SlotInv, SingleExecution
<1>10. ASSUME NEW t \in Threads, Merge(t) \/ Report(t) \/ Finish(t) PROVE MergeInv'
  BY <1>10 DEF Merge, Report, Finish, AfterFinish, Unwind
<1>11. ASSUME NEW t \in Threads, Cleanup(t) \/ UnLease(t) \/ UnReserve(t) PROVE MergeInv'
  BY <1>11 DEF Cleanup, UnLease, UnReserve, AfterFinish, Unwind
<1>12. ASSUME NEW t \in Ops, NEW at \in Outside, NEW i \in Issues \cup {None}, NEW a, NEW mode, NEW origin,
              Start(t, at, i, a, mode, origin), UNCHANGED mergeLease
       PROVE  MergeInv'
  BY <1>12 DEF Start
<1>13. ASSUME Command PROVE MergeInv'
  <2>1. ASSUME NEW t \in Ops, NEW i \in Issues, NEW a \in Picks, NEW mode \in Modes,
               CmdRun(t, i, a, mode) \/ CmdContinue(t, i, a, mode)
        PROVE  MergeInv'
    BY <2>1, <1>12 DEF CmdRun, CmdContinue
  <2>2. ASSUME NEW t \in Ops, NEW i \in Issues, CmdAllow(t, i) PROVE MergeInv'
    BY <2>2, <1>12 DEF CmdAllow
  <2>3. ASSUME NEW t \in Ops, CmdTick(t) PROVE MergeInv'
    BY <2>3, <1>12 DEF CmdTick
  <2>4. CASE UNCHANGED <<mergeLease, pc, job>>
    BY <2>4
  <2> QED
    BY <1>13, <2>1, <2>2, <2>3, <2>4 DEF Command, CmdDeny, CmdCancel, CmdSetActive
<1>14. CASE Crash
  BY <1>14 DEF Crash, FreshPc
<1>15. CASE UNCHANGED <<mergeLease, pc, job>>
  BY <1>15
<1> QED
  BY <1>1, <1>2, <1>3, <1>4, <1>5, <1>6, <1>7, <1>8, <1>9, <1>10, <1>11, <1>13, <1>14, <1>15
  DEF Next, Step, LoopStep, Environment, SetAvail, Expire, Reapable, Reap

\* As long as no lease runs out under its owner and no command arrives before Recover, merges
\* into the dev branch are serialized.
THEOREM MergesSerialized ==
    ASSUME ~LeaseMayExpire, ~EarlyCommands
    PROVE  Spec => []MergeExclusive
<1>1. Init => SlotInv /\ MergeInv
  BY ThreadsAssumption
  DEF Init, FreshPc, SlotInv, SlotHeld, SingleExecution, MergeInv, MergerHasLease, QuietBoot, Threads,
      Running
<1>2. TypeInv /\ SlotInv /\ MergeInv /\ [Next]_vars => MergeInv'
  BY MergeInductive
<1>3. SlotInv /\ MergeInv => MergeExclusive
  BY DEF SlotInv, SingleExecution, MergeInv, MergerHasLease, MergeExclusive, Running
<1> QED
  BY <1>1, <1>2, <1>3, TypeCorrect, SlotInductive, PTL DEF Spec
-----------------------------------------------------------------------------
\* No operator asks for a parallel run without picking its account.
PickedIfParallel == "parallel" \in Modes => None \notin Picks

\* A forced run has a picked account, so releaseRuntime is skipped only by a run that owns none ...
ForceIsPicked == \A t \in Threads : job[t].force => job[t].account # None
\* ... and a run owns nothing when it leaves.
LeavesNothing == \A t \in Threads : pc[t] = "leave" => ~Owns(t)
\* The lease goes before the reservation does.
LeaseGoneFirst == \A t \in Threads : pc[t] = "unreserve" => acctLease[acct[t]] # Issue(t)
ReleaseInv ==
    ForceIsPicked /\ LeavesNothing /\ LeaseGoneFirst /\ NoOrphanReservation /\ NoOrphanLease

\* What a step has to leave alone: the reservations and leases, and of each owner the account and
\* the issue.
LEMMA OwnersKept ==
    ASSUME NoOrphanReservation, NoOrphanLease,
           UNCHANGED <<reserved, acctLease>>, Recovered' => Recovered,
           \A t \in Threads : Owns(t) => Owns(t)' /\ acct'[t] = acct[t] /\ Issue(t)' = Issue(t)
    PROVE  NoOrphanReservation' /\ NoOrphanLease'
<1>1. NoOrphanReservation'
  BY DEF NoOrphanReservation
<1>2. NoOrphanLease'
  BY DEF NoOrphanLease
<1> QED BY <1>1, <1>2

\* A run gives up the lease of its account, then the reservation, then its slot, on every path.
LEMMA ReleaseInductive ==
    ASSUME PickedIfParallel
    PROVE  TypeInv /\ SlotInv /\ AcctInv /\ ReleaseInv /\ [Next]_vars => ReleaseInv'
<1> USE ThreadsAssumption
    DEF TypeInv, TypeOK, Threads, Running, Outside, AcctInv, AcctInRun, ReleasesOwn, OwnedIsReserved,
        ReleaseInv, ForceIsPicked, LeavesNothing, LeaseGoneFirst, Recovered,
        Owns, Forced, At, Issue, durable, memory, loopVars, env, thread, vars
<1> SUFFICES ASSUME TypeInv, SlotInv, AcctInv, ReleaseInv, [Next]_vars PROVE ReleaseInv'
  OBVIOUS
<1>0. AccountExclusive
  BY OwnedOnce
\* Steps outside a run: the thread owns nothing.
<1>outside. ASSUME NEW t \in Threads, pc[t] \in Outside \ {"start", "boot"},
            NEW x \in Outside \ {"start", "boot"}, pc' = [pc EXCEPT ![t] = x],
            NEW j, job' = [job EXCEPT ![t] = j], j.force => j.account # None,
            UNCHANGED <<reserved, acctLease, acct>>
      PROVE  ReleaseInv'
  <2>1. acct[t] = None /\ ~Owns(t)
    BY <1>outside
  <2>2. Recovered' => Recovered
    BY <1>outside
  <2>3. \A u \in Threads : u # t => pc'[u] = pc[u] /\ job'[u] = job[u]
    BY <1>outside
  <2>4. \A u \in Threads : Owns(u) => Owns(u)' /\ acct'[u] = acct[u] /\ Issue(u)' = Issue(u)
    BY <1>outside, <2>1, <2>3
  <2>5. NoOrphanReservation' /\ NoOrphanLease'
    BY <1>outside, <2>2, <2>4, OwnersKept
  <2>6. ForceIsPicked' /\ LeavesNothing' /\ LeaseGoneFirst'
    BY <1>outside, <2>3
  <2> QED
    BY <2>5, <2>6
<1>1. ASSUME NEW t \in Threads, Reset(t) \/ Queued(t) \/ Register(t) PROVE ReleaseInv'
  BY <1>1, OwnersKept DEF Reset, Queued, Register, NoJob
<1>2. ASSUME NEW t \in Threads, LoadIssue(t) \/ GetIssue(t) \/ Claim(t) PROVE ReleaseInv'
  <2>1. UNCHANGED <<job, acct, reserved, acctLease>>
    BY <1>2 DEF LoadIssue, GetIssue, Claim
  <2>2. pc[t] \in {"load", "get", "claim"}
    BY <1>2 DEF LoadIssue, GetIssue, Claim
  <2>3. Return(t) \in {"idle", "resume", "unregister"}
    BY DEF Return
  <2>4. PICK x \in {"get", "claim", "enter", "wait", "idle", "resume", "unregister"} :
               pc' = [pc EXCEPT ![t] = x]
    BY <1>2, <2>3 DEF LoadIssue, GetIssue, Claim
  <2>5. job' = [job EXCEPT ![t] = job[t]] /\ (job[t].force => job[t].account # None)
    BY <2>1
  <2> QED
    BY <2>1, <2>2, <2>4, <2>5, <1>outside
<1>3. ASSUME NEW t \in Threads, Scan(t) \/ Unregister(t) PROVE ReleaseInv'
  <2>1. UNCHANGED <<acct, reserved, acctLease>> /\ pc[t] \in {"scan", "unregister"}
    BY <1>3 DEF Scan, Unregister
  <2>2. PICK x \in {"claim", "wait", "idle"} : pc' = [pc EXCEPT ![t] = x]
    BY <1>3 DEF Scan, Unregister
  <2>3. \/ job' = [job EXCEPT ![t] = NoJob]
        \/ job' = [job EXCEPT ![t] = job[t]]
        \/ \E i \in Eligible : job' = [job EXCEPT ![t] = [job[t] EXCEPT !.issue = i]]
    BY <1>3 DEF Scan, Unregister
  <2>4. ~NoJob.force
    BY DEF NoJob
  <2>5. ASSUME NEW i PROVE [job[t] EXCEPT !.issue = i].force = job[t].force
                           /\ [job[t] EXCEPT !.issue = i].account = job[t].account
    BY DEF Job
  <2>6. job[t].force => job[t].account # None
    OBVIOUS
  <2>7. CASE job' = [job EXCEPT ![t] = NoJob]
    BY <2>1, <2>2, <2>4, <2>7, <1>outside
  <2>8. CASE job' = [job EXCEPT ![t] = job[t]]
    BY <2>1, <2>2, <2>6, <2>8, <1>outside
  <2>9. ASSUME NEW i \in Eligible, job' = [job EXCEPT ![t] = [job[t] EXCEPT !.issue = i]]
        PROVE  ReleaseInv'
    <3> DEFINE j == [job[t] EXCEPT !.issue = i]
    <3>1. job' = [job EXCEPT ![t] = j] /\ (j.force => j.account # None)
      BY <2>9, <2>5, <2>6
    <3> HIDE DEF j
    <3> QED
      BY <2>1, <2>2, <3>1, <1>outside
  <2> QED
    BY <2>3, <2>7, <2>8, <2>9
<1>4. CASE Boot
  BY <1>4 DEF Boot, NoOrphanLease, NoOrphanReservation, JobNamed, Named
<1>5. ASSUME RunStart \/ Drain \/ Wake PROVE ReleaseInv'
  BY <1>5, OwnersKept DEF RunStart, Drain, Wake
<1>resume. CASE Resume
  <2>1. UNCHANGED <<acct, reserved, acctLease>> /\ pc[Loop] = "resume"
    BY <1>resume DEF Resume
  <2>2. PICK x \in {"enter", "resume", "drain"} : pc' = [pc EXCEPT ![Loop] = x]
    BY <1>resume DEF Resume
  <2>3. \/ UNCHANGED job
        \/ \E i \in todo : job' = [job EXCEPT ![Loop].issue = i]
    BY <1>resume DEF Resume
  <2>4. CASE UNCHANGED job
    <3>1. job' = [job EXCEPT ![Loop] = job[Loop]] /\ (job[Loop].force => job[Loop].account # None)
      BY <2>4
    <3> QED
      BY <2>1, <2>2, <3>1, <1>outside
  <2>5. ASSUME NEW i \in todo, job' = [job EXCEPT ![Loop].issue = i]
        PROVE  ReleaseInv'
    <3> DEFINE j == [job[Loop] EXCEPT !.issue = i]
    <3>1. j.force => j.account # None
      BY DEF Job
    <3>2. job' = [job EXCEPT ![Loop] = j]
      BY <2>5
    <3> HIDE DEF j
    <3> QED
      BY <2>1, <2>2, <3>1, <3>2, <1>outside
  <2> QED
    BY <2>3, <2>4, <2>5
<1>6. ASSUME NEW t \in Threads, Enter(t) \/ Leave(t) PROVE ReleaseInv'
  BY <1>6, OwnersKept DEF Enter, Leave, Return
\* A new reservation has an owner, and takes none from another.
<1>7. ASSUME NEW t \in Threads, Reserve(t) PROVE ReleaseInv'
  <2>1. ForceIsPicked' /\ LeavesNothing' /\ LeaseGoneFirst'
    BY <1>7 DEF Reserve, Candidates
  <2>2. NoOrphanReservation'
    BY <1>7 DEF Reserve, Candidates, NoOrphanReservation
  <2>3. NoOrphanLease'
    BY <1>7 DEF Reserve, Candidates, NoOrphanLease
  <2> QED
    BY <2>1, <2>2, <2>3
\* A lease granted is its owner's; one denied was another's, who keeps it.
<1>8. ASSUME NEW t \in Threads, Lease(t) PROVE ReleaseInv'
  <2>1. ForceIsPicked' /\ LeavesNothing' /\ LeaseGoneFirst'
    BY <1>8, <1>0 DEF Lease, AccountExclusive
  <2>2. NoOrphanReservation'
    BY <1>8 DEF Lease, NoOrphanReservation
  <2>3. NoOrphanLease'
    BY <1>8 DEF Lease, NoOrphanLease, Grantable
  <2> QED
    BY <2>1, <2>2, <2>3
<1>9. ASSUME NEW t \in Threads, Defer(t) \/ BeginDevelop(t) \/ Develop(t) \/ Improve(t) \/ PreMerge(t)
      PROVE  ReleaseInv'
  BY <1>9, OwnersKept DEF Defer, BeginDevelop, Develop, Improve, PreMerge, Unwind
<1>10. ASSUME NEW t \in Threads, Merge(t) \/ Report(t) \/ Finish(t) \/ Cleanup(t) \/ UnMerge(t)
       PROVE  ReleaseInv'
  BY <1>10, OwnersKept DEF Merge, Report, Finish, Cleanup, UnMerge, AfterFinish, Unwind
\* releaseRuntime: the lease ...
<1>11. ASSUME NEW t \in Threads, UnLease(t) PROVE ReleaseInv'
  <2>1. ForceIsPicked' /\ LeavesNothing' /\ LeaseGoneFirst'
    BY <1>11 DEF UnLease, JobNamed, Named
  <2>2. NoOrphanReservation'
    BY <1>11 DEF UnLease, NoOrphanReservation
  <2>3. NoOrphanLease'
    BY <1>11 DEF UnLease, NoOrphanLease
  <2> QED
    BY <2>1, <2>2, <2>3
\* ... then the reservation, which nobody else has.
<1>12. ASSUME NEW t \in Threads, UnReserve(t) PROVE ReleaseInv'
  <2>1. ForceIsPicked' /\ LeavesNothing' /\ LeaseGoneFirst'
    BY <1>12 DEF UnReserve
  <2>2. NoOrphanReservation'
    BY <1>12 DEF UnReserve, NoOrphanReservation
  <2>3. NoOrphanLease'
    BY <1>12, <1>0 DEF UnReserve, NoOrphanLease, AccountExclusive
  <2> QED
    BY <2>1, <2>2, <2>3
\* Commands start idle threads, which own nothing.
<1>13. ASSUME NEW t \in Ops, NEW at \in Outside, NEW i \in Issues \cup {None}, NEW a, NEW mode, NEW origin,
              mode = "parallel" => a # None,
              Start(t, at, i, a, mode, origin), UNCHANGED <<reserved, acctLease>>
       PROVE  ReleaseInv'
  BY <1>13, OwnersKept DEF Start
<1>14. ASSUME Command PROVE ReleaseInv'
  <2>1. ASSUME NEW t \in Ops, NEW i \in Issues, NEW a \in Picks, NEW mode \in Modes,
               CmdRun(t, i, a, mode) \/ CmdContinue(t, i, a, mode)
        PROVE  ReleaseInv'
    <3>1. mode = "parallel" => a # None
      BY DEF PickedIfParallel
    <3> QED
      BY <2>1, <3>1, <1>13 DEF CmdRun, CmdContinue
  <2>2. ASSUME NEW t \in Ops, NEW i \in Issues, CmdAllow(t, i) PROVE ReleaseInv'
    BY <2>2, <1>13 DEF CmdAllow
  <2>3. ASSUME NEW t \in Ops, CmdTick(t) PROVE ReleaseInv'
    BY <2>3, <1>13 DEF CmdTick
  <2>4. CASE UNCHANGED <<reserved, acctLease, pc, job, acct>>
    BY <2>4, OwnersKept
  <2> QED
    BY <1>14, <2>1, <2>2, <2>3, <2>4 DEF Command, CmdDeny, CmdCancel, CmdSetActive
\* A lease that runs out leaves nothing to own; a crash leaves the leases to Recover.
<1>15. CASE Expire
  BY <1>15, OwnersKept DEF Expire, NoOrphanReservation, NoOrphanLease, JobNamed, Named
<1>16. CASE Crash
  BY <1>16 DEF Crash, FreshPc, NobodyIn, NoJob, NoOrphanReservation, NoOrphanLease
<1>17. CASE UNCHANGED <<reserved, acctLease, pc, job, acct>>
  BY <1>17, OwnersKept
<1> HIDE DEF ReleaseInv
<1> QED
  BY <1>1, <1>2, <1>3, <1>4, <1>5, <1>resume, <1>6, <1>7, <1>8, <1>9, <1>10, <1>11, <1>12, <1>14, <1>15, <1>16, <1>17
  DEF Next, Step, LoopStep, Environment, SetAvail, Reapable, Reap

\* Whatever fails, a reservation always belongs to a live run that uses the account, provided
\* parallel runs have a picked account (VioParallel.cfg shows what one without it leaves behind).
THEOREM NoReservationOrphaned ==
    ASSUME PickedIfParallel
    PROVE  Spec => []NoOrphanReservation
<1>1. Init => SlotInv /\ AcctInv /\ ReleaseInv
  BY ThreadsAssumption
  DEF Init, FreshPc, NobodyIn, NoJob, SlotInv, SlotHeld, SingleExecution, AcctInv, AcctInRun, ReleasesOwn,
      OwnedIsReserved, ReleaseInv, ForceIsPicked, LeavesNothing, LeaseGoneFirst, NoOrphanReservation,
      NoOrphanLease, Owns, Threads, Running
<1>2. TypeInv /\ SlotInv /\ AcctInv /\ ReleaseInv /\ [Next]_vars => ReleaseInv'
  BY ReleaseInductive
<1>3. ReleaseInv => NoOrphanReservation
  BY DEF ReleaseInv
<1> QED
  BY <1>1, <1>2, <1>3, TypeCorrect, SlotInductive, AcctInductive, PTL DEF Spec

\* ... and once Recover has released what a killed run left behind, so does every account lease:
\* crashes, expiry and early commands included.
THEOREM NoLeaseOrphaned ==
    ASSUME PickedIfParallel
    PROVE  Spec => []NoOrphanLease
<1>1. Init => SlotInv /\ AcctInv /\ ReleaseInv
  BY ThreadsAssumption
  DEF Init, FreshPc, NobodyIn, NoJob, SlotInv, SlotHeld, SingleExecution, AcctInv, AcctInRun, ReleasesOwn,
      OwnedIsReserved, ReleaseInv, ForceIsPicked, LeavesNothing, LeaseGoneFirst, NoOrphanReservation,
      NoOrphanLease, Owns, Threads, Running
<1>2. TypeInv /\ SlotInv /\ AcctInv /\ ReleaseInv /\ [Next]_vars => ReleaseInv'
  BY ReleaseInductive
<1>3. ReleaseInv => NoOrphanLease
  BY DEF ReleaseInv
<1> QED
  BY <1>1, <1>2, <1>3, TypeCorrect, SlotInductive, AcctInductive, PTL DEF Spec

-----------------------------------------------------------------------------
\* A worker that reported the task complete did so in the worktree, which is still there.
DevelopedHere == \A t \in lastOK : pc[t] = "improve" /\ Issue(t) \in worktree
WorktreeInv == reaping = None /\ DevelopedHere /\ WorktreePresent

\* Without the janitor only the run of an issue removes the issue's worktree, at its end.
LEMMA WorktreeInductive ==
    ASSUME ~Janitor
    PROVE  TypeInv /\ SlotInv /\ WorktreeInv /\ [Next]_vars => WorktreeInv'
<1> USE ThreadsAssumption
    DEF TypeInv, TypeOK, Threads, WorktreeInv, DevelopedHere, WorktreePresent, At, Issue,
        durable, memory, loopVars, env, thread, vars
<1> SUFFICES ASSUME TypeInv, SlotInv, WorktreeInv, [Next]_vars PROVE WorktreeInv'
  OBVIOUS
<1>1. ASSUME NEW t \in Threads, Reset(t) \/ Queued(t) \/ Register(t) PROVE WorktreeInv'
  BY <1>1 DEF Reset, Queued, Register
<1>2. ASSUME NEW t \in Threads, LoadIssue(t) \/ GetIssue(t) \/ Claim(t) PROVE WorktreeInv'
  BY <1>2 DEF LoadIssue, GetIssue, Claim, Return
<1>3. ASSUME NEW t \in Threads, Scan(t) \/ Unregister(t) \/ Enter(t) \/ Leave(t) PROVE WorktreeInv'
  BY <1>3 DEF Scan, Unregister, Enter, Leave, Return
<1>4. ASSUME RunStart \/ Boot \/ Resume \/ Drain \/ Wake PROVE WorktreeInv'
  BY <1>4 DEF RunStart, Boot, Resume, Drain, Wake
<1>5. ASSUME NEW t \in Threads, Reserve(t) \/ Lease(t) \/ Defer(t) PROVE WorktreeInv'
  BY <1>5 DEF Reserve, Lease, Defer, Unwind
\* Developing makes the worktree; improving goes on to the merge only in one.
<1>6. ASSUME NEW t \in Threads, BeginDevelop(t) \/ Develop(t) \/ PreMerge(t) PROVE WorktreeInv'
  BY <1>6 DEF BeginDevelop, Develop, PreMerge
<1>7. ASSUME NEW t \in Threads, Improve(t) PROVE WorktreeInv'
  BY <1>7 DEF Improve
<1>8. ASSUME NEW t \in Threads, Merge(t) \/ Report(t) \/ Finish(t) PROVE WorktreeInv'
  BY <1>8 DEF Merge, Report, Finish, AfterFinish, Unwind
\* The run that removes the worktree is the only run of its issue.
<1>9. ASSUME NEW t \in Threads, Cleanup(t) PROVE WorktreeInv'
  BY <1>9 DEF Cleanup, AfterFinish, Unwind, SlotInv, SingleExecution, Running
<1>10. ASSUME NEW t \in Threads, UnMerge(t) \/ UnLease(t) \/ UnReserve(t) PROVE WorktreeInv'
  BY <1>10 DEF UnMerge, UnLease, UnReserve, Unwind
<1>11. ASSUME NEW t \in Ops, NEW at \in Outside, NEW i \in Issues \cup {None}, NEW a, NEW mode, NEW origin,
              Start(t, at, i, a, mode, origin), UNCHANGED <<worktree, reaping>>
       PROVE  WorktreeInv'
  BY <1>11 DEF Start, Outside
<1>12. ASSUME Command PROVE WorktreeInv'
  <2>1. ASSUME NEW t \in Ops, NEW i \in Issues, NEW a \in Picks, NEW mode \in Modes,
               CmdRun(t, i, a, mode) \/ CmdContinue(t, i, a, mode)
        PROVE  WorktreeInv'
    BY <2>1, <1>11 DEF CmdRun, CmdContinue, Outside
  <2>2. ASSUME NEW t \in Ops, NEW i \in Issues, CmdAllow(t, i) PROVE WorktreeInv'
    BY <2>2, <1>11 DEF CmdAllow, Outside
  <2>3. ASSUME NEW t \in Ops, CmdTick(t) PROVE WorktreeInv'
    BY <2>3, <1>11 DEF CmdTick, Outside
  <2>4. CASE UNCHANGED <<worktree, reaping, pc, job, lastOK>>
    BY <2>4
  <2> QED
    BY <1>12, <2>1, <2>2, <2>3, <2>4 DEF Command, CmdDeny, CmdCancel, CmdSetActive
<1>13. CASE Crash
  BY <1>13 DEF Crash, FreshPc
<1>14. CASE UNCHANGED <<worktree, reaping, pc, job, lastOK>>
  BY <1>14
<1> QED
  BY <1>1, <1>2, <1>3, <1>4, <1>5, <1>6, <1>7, <1>8, <1>9, <1>10, <1>12, <1>13, <1>14
  DEF Next, Step, LoopStep, Environment, SetAvail, Expire, Reapable, Reap

\* With the janitor off, a run that is about to merge, or merges, has its worktree: no other run
\* of the issue, command, crash or expiry takes it away.
THEOREM WorktreeStays ==
    ASSUME ~Janitor
    PROVE  Spec => []WorktreePresent
<1>1. Init => SlotInv /\ WorktreeInv
  BY ThreadsAssumption
  DEF Init, FreshPc, SlotInv, SlotHeld, SingleExecution, WorktreeInv, DevelopedHere, WorktreePresent,
      Threads, Running
<1>2. TypeInv /\ SlotInv /\ WorktreeInv /\ [Next]_vars => WorktreeInv'
  BY WorktreeInductive
<1>3. WorktreeInv => WorktreePresent
  BY DEF WorktreeInv
<1> QED
  BY <1>1, <1>2, <1>3, TypeCorrect, SlotInductive, PTL DEF Spec
=============================================================================
