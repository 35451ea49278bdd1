------------------------------ MODULE IssueFiler ------------------------------
(***************************************************************************)
(* Faults turned into Jira bugs: the device monitor                        *)
(* (internal/devicemon, cmd/cwv2/devicemonitor.go) and the Sentry sync     *)
(* (cmd/cwv2/sentry_sync.go), both through the client of internal/jira.    *)
(* Filing searches for the dedup label, creates the issue, and creates it  *)
(* again without a priority after any error.  A request may fail before    *)
(* Jira acts on it or after (network error, undecodable answer).           *)
(*                                                                         *)
(* The monitor loop scans the devices one after the other; a recheck is a  *)
(* goroutine of its own.  Syncs run from the loop and on command, so two   *)
(* may overlap.  A label is <<port, signature>> or <<Sentry id>>.          *)
(***************************************************************************)
EXTENDS Integers, Sequences, FiniteSets, Functions

CONSTANTS
    Devices,        \* currentDevices(): a sequence of ports
    Sigs,           \* fault signatures of the analyzer script
    Errors,         \* Sentry issues
    Orgs,           \* configured Sentry organisations
    Checkers,       \* CheckOne callers: the scan loop and rechecks
    ScanLoop,       \* the member of Checkers that scans
    Syncs,          \* sentrySync callers
    Heaps,          \* heap_min readings
    HistCap, LeakChecks, LeakDrop,  \* 48, 6 and 40000 in the code
    MaxCreated,     \* sentrySync's max
    None,
    MaxRuns,        \* bound on scans, rechecks and syncs
    MaxFaults       \* bound on restarts and deletions

VARIABLES
    jc,         \* is a Jira client configured?
    bugs,       \* OpenBugs per port
    trend,      \* HeapTrend per port
    leaked,     \* LeakFlagged per port
    th,         \* the goroutines
    issues,     \* number of issues in Jira per label
    runs, faults,
    filed,      \* history: labels an issue was ever created for
    excused,    \* history: labels whose search failed or whose create was done and
                \* answered with an error
    gaveUp,     \* history: labels whose second create failed
    overlap     \* history: did two syncs overlap?

mon == <<bugs, trend, leaked>>
vars == <<jc, bugs, trend, leaked, th, issues, runs, faults, filed, excused, gaveUp, overlap>>

Ports == Range(Devices)
AllSigs == Sigs \cup {"setup_incomplete", "heap_leak"}
Threads == Checkers \cup Syncs

\* devmonLabel, and sentrySync's idLabel
devmonLabel(p, s) == <<p, s>>
idLabel(e) == <<e>>
Labels == {devmonLabel(p, s) : p \in Ports, s \in AllSigs} \cup {idLabel(e) : e \in Errors}

TypeOK ==
    /\ jc \in BOOLEAN /\ overlap \in BOOLEAN
    /\ bugs \in [Ports -> SUBSET AllSigs] /\ leaked \in [Ports -> BOOLEAN]
    /\ \A p \in Ports : Range(trend[p]) \subseteq Heaps /\ Len(trend[p]) <= HistCap
    /\ DOMAIN th = Threads /\ issues \in [Labels -> Nat]
    /\ filed \subseteq Labels /\ excused \subseteq Labels /\ gaveUp \subseteq Labels
    /\ runs \in 0..MaxRuns /\ faults \in 0..MaxFaults

Blank == bugs = [p \in Ports |-> {}] /\ trend = [p \in Ports |-> <<>>] /\ leaked = [p \in Ports |-> FALSE]

Init ==
    /\ jc \in BOOLEAN /\ Blank
    /\ th = [t \in Threads |-> None] /\ issues = [l \in Labels |-> 0]
    /\ runs = 0 /\ faults = 0
    /\ filed = {} /\ excused = {} /\ gaveUp = {} /\ overlap = FALSE

At(t, pc) == th[t] # None /\ th[t].pc = pc
Goes(t, r) == th' = [th EXCEPT ![t] = r]

\* A goroutine with devices still to check and labels to file.
Loop(ds, labels) == [pc |-> "loop", devices |-> ds, todo |-> labels, label |-> None, created |-> 0]

-----------------------------------------------------------------------------
(* The monitor. *)

\* scan visits every device; devicemonitor.recheck starts `go mon.CheckOne`.
StartCheck(t, ds) ==
    /\ th[t] = None /\ runs < MaxRuns /\ runs' = runs + 1
    /\ Goes(t, Loop(ds, {}))
    /\ UNCHANGED <<jc, mon, issues, faults, filed, excused, gaveUp, overlap>>

Checks(t) ==
    IF t = ScanLoop THEN StartCheck(t, Devices)
    ELSE \E p \in Ports : StartCheck(t, <<p>>)

\* What a capture reports beside the heap.  A failed one is a warning without findings; a
\* boot that never completes its setup is a bug of its own.
Captures ==
    [severity : {"ok", "warn", "bug"}, stuck : BOOLEAN, findings : SUBSET Sigs]

Reported(c) ==
    IF c.severity = "bug" THEN c.findings
    ELSE IF c.stuck THEN c.findings \cup {"setup_incomplete"} ELSE {}

Appended(tr, h) ==
    IF h = None THEN tr
    ELSE LET all == Append(tr, h) IN SubSeq(all, Len(all) - (IF Len(all) > HistCap THEN HistCap ELSE Len(all)) + 1, Len(all))

\* cross-cycle leak: the heap fell by more than LeakDrop, with integer averages
Leaks(tr) ==
    LET n == Len(tr) IN
    n >= LeakChecks /\ (tr[1] + tr[2]) \div 2 - (tr[n - 1] + tr[n]) \div 2 > LeakDrop

NewBugs(p, sigs) == sigs \ bugs[p]

\* The signatures are not remembered before they are filed.
Nothing(p, sigs) == {}

\* What becomes known of the port.
Marked(p, sigs) == sigs

\* CheckOne: an absent port ends the check; otherwise the result is recorded and
\* the new signatures are marked in one critical section, and filed after it.
CheckOne(t) ==
    /\ At(t, "loop") /\ th[t].todo = {} /\ th[t].devices # <<>>
    /\ LET p == Head(th[t].devices) IN
       \/ Goes(t, [th[t] EXCEPT !.devices = Tail(@)]) /\ UNCHANGED mon
       \/ \E sigs \in {Reported(c) : c \in Captures}, heap \in Heaps \cup {None} :
          LET new == NewBugs(p, sigs)
              tr == Appended(trend[p], heap)
              leak == ~leaked[p] /\ Leaks(tr)
              all == new \cup (IF leak THEN {"heap_leak"} ELSE {})
          IN  /\ trend' = [trend EXCEPT ![p] = tr]
              /\ leaked' = [leaked EXCEPT ![p] = @ \/ leak]
              /\ bugs' = [bugs EXCEPT ![p] = @ \cup Marked(p, all)]
              /\ Goes(t, Loop(Tail(th[t].devices), {devmonLabel(p, s) : s \in all}))
    /\ UNCHANGED <<jc, issues, runs, faults, filed, excused, gaveUp, overlap>>

-----------------------------------------------------------------------------
(* The Sentry sync. *)

\* recentFromAll: the issues of the organisations that answered, without
\* repetition; an error only if none did.  Without Jira there is no sync.
StartSync(t) ==
    /\ th[t] = None /\ jc /\ runs < MaxRuns /\ runs' = runs + 1
    /\ overlap' = (overlap \/ \E s \in Syncs \ {t} : th[s] # None)
    /\ \E seen \in [Orgs -> (SUBSET Errors) \cup {None}] :
          LET ok == {o \in Orgs : seen[o] # None} IN
          IF ok = {} THEN th' = th
          ELSE Goes(t, Loop(<<>>, {idLabel(e) : e \in UNION {seen[o] : o \in ok}}))
    /\ UNCHANGED <<jc, mon, issues, faults, filed, excused, gaveUp>>

-----------------------------------------------------------------------------
(* Filing. *)

\* The end of the loop over new bugs or issues; a sync stops at its cap.
LoopEnds(t) == th[t].todo = {} \/ (t \in Syncs /\ th[t].created >= MaxCreated)

End(t) ==
    /\ At(t, "loop") /\ LoopEnds(t) /\ th[t].devices = <<>> /\ Goes(t, None)
    /\ UNCHANGED <<jc, mon, issues, runs, faults, filed, excused, gaveUp, overlap>>

\* The dedup search is dropped.
Never(l) == FALSE

\* "already ticketed"
Ticketed(l) == issues[l] > 0

\* The search for the label; an error counts as "not found".  onBug returns
\* before it if there is no Jira.
Search(t) ==
    /\ At(t, "loop") /\ ~LoopEnds(t)
    /\ \E l \in th[t].todo :
       LET rest == [th[t] EXCEPT !.todo = @ \ {l}] IN
       \/ /\ Goes(t, IF ~jc \/ Ticketed(l) THEN rest ELSE [rest EXCEPT !.pc = "create", !.label = l])
          /\ UNCHANGED excused
       \/ /\ jc
          /\ Goes(t, [rest EXCEPT !.pc = "create", !.label = l])
          /\ excused' = excused \cup {l}
    /\ UNCHANGED <<jc, mon, issues, runs, faults, filed, gaveUp, overlap>>

\* Jira has one more issue with the label.
Adds(l) == issues' = [issues EXCEPT ![l] = @ + 1] /\ filed' = filed \cup {l}

Created(t) == Goes(t, [th[t] EXCEPT !.pc = "loop", !.label = None, !.created = @ + 1])

\* CreateIssue with a priority: any error leads to a second request.
Create(t) ==
    /\ At(t, "create")
    /\ LET l == th[t].label IN
       \/ Adds(l) /\ Created(t) /\ UNCHANGED excused
       \/ Adds(l) /\ excused' = excused \cup {l} /\ Goes(t, [th[t] EXCEPT !.pc = "again"])
       \/ UNCHANGED <<issues, filed, excused>> /\ Goes(t, [th[t] EXCEPT !.pc = "again"])
    /\ UNCHANGED <<jc, mon, runs, faults, gaveUp, overlap>>

\* CreateIssue without one: an error is logged by onBug and ends a sync.
CreateAgain(t) ==
    /\ At(t, "again")
    /\ LET l == th[t].label
           failed == /\ gaveUp' = gaveUp \cup {l}
                     /\ Goes(t, IF t \in Syncs THEN None ELSE [th[t] EXCEPT !.pc = "loop", !.label = None])
       IN
       \/ Adds(l) /\ Created(t) /\ UNCHANGED <<excused, gaveUp>>
       \/ Adds(l) /\ excused' = excused \cup {l} /\ failed
       \/ UNCHANGED <<issues, filed, excused>> /\ failed
    /\ UNCHANGED <<jc, mon, runs, faults, overlap>>

-----------------------------------------------------------------------------
(* The environment. *)

\* jira.delete: the operator deletes an issue for good.
DeleteIssue(l) ==
    /\ jc /\ issues[l] > 0 /\ faults < MaxFaults /\ faults' = faults + 1
    /\ issues' = [issues EXCEPT ![l] = @ - 1]
    /\ UNCHANGED <<jc, mon, th, runs, filed, excused, gaveUp, overlap>>

\* A restart: the monitor keeps nothing; a create under way may still be done.
Restart ==
    /\ faults < MaxFaults /\ faults' = faults + 1
    /\ bugs' = [p \in Ports |-> {}] /\ trend' = [p \in Ports |-> <<>>] /\ leaked' = [p \in Ports |-> FALSE]
    /\ th' = [t \in Threads |-> None]
    /\ \/ UNCHANGED <<issues, filed>>
       \/ \E t \in Threads : (At(t, "create") \/ At(t, "again")) /\ Adds(th[t].label)
    /\ UNCHANGED <<jc, runs, excused, gaveUp, overlap>>

Next ==
    \/ \E t \in Checkers : Checks(t) \/ CheckOne(t)
    \/ \E t \in Syncs : StartSync(t)
    \/ \E t \in Threads : End(t) \/ Search(t) \/ Create(t) \/ CreateAgain(t)
    \/ \E l \in Labels : DeleteIssue(l)
    \/ Restart

Spec == Init /\ [][Next]_vars

-----------------------------------------------------------------------------
(* Properties. *)

InFlight(l) ==
    \E t \in Threads : th[t] # None /\
        (l \in th[t].todo \/ th[t].label = l)

\* A fault the monitor considers known is not forgotten: an issue was filed for it,
\* or its filing is under way, or both creates failed, or there is no Jira
\* (CheckOne marks the signature before it is filed and never looks at it again).
FaultFiled ==
    \A p \in Ports : \A s \in bugs[p] :
        LET l == devmonLabel(p, s) IN l \in filed \/ l \in gaveUp \/ InFlight(l) \/ ~jc

\* "Only ONE ticket per (device,fault)", also across restarts, scans racing
\* rechecks and deletions, as long as Jira answered its search and its create; the
\* same of a Sentry issue unless two syncs overlapped.
OneTicket ==
    \A l \in Labels : issues[l] > 1 =>
        l \in excused \/ (overlap /\ \E e \in Errors : l = idLabel(e))

\* Both: a fault the monitor or the sync took up is filed or will be, and filed once.
NeitherLostNorTwice == FaultFiled /\ OneTicket
=============================================================================
