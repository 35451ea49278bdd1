-------------------------- MODULE AssignmentEngine --------------------------
(***************************************************************************)
(* internal/assignment: the vertical-slice engine.  One goroutine claims   *)
(* an issue and drives its Assignment to a terminal state; after a restart *)
(* Resume drives every unfinished one.                                     *)
(*                                                                         *)
(* The store holds the issue, the state and the attempt, nothing else.     *)
(* `cur` is the *Assignment in the engine's hands; it is written back by   *)
(* Store.Save and lost by a crash or by a Save that fails.                 *)
(***************************************************************************)
EXTENDS Naturals

CONSTANTS
    Issues,         \* issues the work query returns
    None,           \* no issue in hand
    MaxAttempts,    \* the retry cap
    CallsMayFail,   \* git, Jira or the worker may fail, a merge may conflict
    SaveMayFail,    \* Store.Save may return an error
    MaxCrashes      \* bound on crashes and restarts

ASSUME AttemptsAssumption == MaxAttempts \in Nat \ {0}
ASSUME FlagsAssumption ==
    CallsMayFail \in BOOLEAN /\ SaveMayFail \in BOOLEAN /\ MaxCrashes \in Nat

VARIABLES
    store,      \* assignment.Store: state and attempt of each issue
    branches,   \* issues whose agent/<issue> branch exists
    worktrees,  \* issues whose worktree exists
    merged,     \* issues merged into DevBranch
    runs,       \* how often the worker was run for the issue
    cur,        \* the Assignment being driven
    todo,       \* Resume's list of unfinished issues
    pc,         \* the engine's next step
    dropped,    \* history: a Save has failed since the last restart
    crashes     \* crashes so far

vars == <<store, branches, worktrees, merged, runs, cur, todo, pc, dropped, crashes>>
repo == <<branches, worktrees, merged>>

Terminal == {"done", "failed"}
States == {"claimed", "developing", "qa", "merging"} \cup Terminal
Record == [state : States \cup {"absent"}, attempt : 0..MaxAttempts]
Absent == [state |-> "absent", attempt |-> 0]
Assignment == [issue : Issues, state : States, attempt : 0..MaxAttempts]

ASSUME NoneAssumption == None \notin Assignment

TypeOK ==
    /\ store \in [Issues -> Record]
    /\ branches \subseteq Issues /\ worktrees \subseteq Issues /\ merged \subseteq Issues
    /\ runs \in [Issues -> Nat]
    /\ cur \in Assignment \cup {None}
    /\ todo \subseteq Issues
    /\ pc \in {"boot", "next", "branch", "worktree", "drive", "commit", "prune", "close"}
    /\ dropped \in BOOLEAN /\ crashes \in 0..MaxCrashes

Init ==
    /\ store = [i \in Issues |-> Absent]
    /\ branches = {} /\ worktrees = {} /\ merged = {}
    /\ runs = [i \in Issues |-> 0]
    /\ cur = None /\ todo = {} /\ pc = "boot" /\ dropped = FALSE /\ crashes = 0

Unfinished(i) == store[i].state \notin Terminal \cup {"absent"}

\* Store.Save(a); on success the engine goes on at `next` with the saved Assignment, or with
\* nothing in hand once that is terminal; on error the call returns, with Resume's list.
Save(a, next) ==
    \/ /\ store' = [store EXCEPT ![a.issue] = [state |-> a.state, attempt |-> a.attempt]]
       /\ IF a.state \in Terminal
          THEN cur' = None /\ pc' = "next"
          ELSE cur' = a /\ pc' = next
       /\ UNCHANGED <<todo, dropped>>
    \/ /\ SaveMayFail
       /\ UNCHANGED store
       /\ cur' = None /\ pc' = "next" /\ todo' = {} /\ dropped' = TRUE

Fail == Save([cur EXCEPT !.state = "failed"], "next")

-----------------------------------------------------------------------------
\* As if nothing were resumed after a restart.
BootForgets ==
    /\ pc = "boot" /\ pc' = "next"
    /\ UNCHANGED <<store, repo, runs, cur, todo, dropped, crashes>>

\* Resume, after a restart: list the unfinished assignments ...
Boot ==
    /\ pc = "boot" /\ pc' = "next"
    /\ todo' = {i \in Issues : Unfinished(i)}
    /\ UNCHANGED <<store, repo, runs, cur, dropped, crashes>>

\* ... and drive each from its last saved state.
Resume(i) ==
    /\ pc = "next" /\ i \in todo
    /\ todo' = todo \ {i}
    /\ cur' = [issue |-> i, state |-> store[i].state, attempt |-> store[i].attempt]
    /\ pc' = "drive"
    /\ UNCHANGED <<store, repo, runs, dropped, crashes>>

\* As if only unfinished assignments locked their issue.
ClaimAgain(i) ==
    /\ pc = "next" /\ todo = {}
    /\ ~Unfinished(i)
    /\ Save([issue |-> i, state |-> "claimed", attempt |-> 0], "branch")
    /\ UNCHANGED <<repo, runs, crashes>>

\* ClaimAndRun: an issue without an Assignment is claimed, before anything else happens.
Claim(i) ==
    /\ pc = "next" /\ todo = {}
    /\ store[i].state = "absent"
    /\ Save([issue |-> i, state |-> "claimed", attempt |-> 0], "branch")
    /\ UNCHANGED <<repo, runs, crashes>>

\* claim: fetch and CreateBranch ...
CreateBranch ==
    /\ pc = "branch"
    /\ \/ branches' = branches \cup {cur.issue} /\ pc' = "worktree"
          /\ UNCHANGED <<store, cur, todo, dropped>>
       \/ CallsMayFail /\ UNCHANGED branches /\ Fail
    /\ UNCHANGED <<worktrees, merged, runs, crashes>>

\* ... then AddWorktree.
AddWorktree ==
    /\ pc = "worktree"
    /\ \/ worktrees' = worktrees \cup {cur.issue} /\ pc' = "drive"
          /\ UNCHANGED <<store, cur, todo, dropped>>
       \/ CallsMayFail /\ UNCHANGED worktrees /\ Fail
    /\ UNCHANGED <<branches, merged, runs, crashes>>

\* a.Attempt++ and the next state
Attempted(s) == [issue |-> cur.issue, state |-> s, attempt |-> cur.attempt + 1]

\* As if the attempt were not counted in the saved record.
RetryUncounted ==
    IF cur.attempt + 1 < MaxAttempts
    THEN Save([cur EXCEPT !.state = "developing"], "drive")
    ELSE Save(Attempted("failed"), "next")

\* retryOrFail: one more attempt from developing, or failed.
RetryOrFail ==
    IF cur.attempt + 1 < MaxAttempts
    THEN Save(Attempted("developing"), "drive")
    ELSE Save(Attempted("failed"), "next")

Driving(s) == pc = "drive" /\ cur.state = s

\* drive: claimed, and the QA hand-over, which always passes.
DriveOn ==
    /\ \/ Driving("claimed") /\ Save([cur EXCEPT !.state = "developing"], "drive")
       \/ Driving("qa") /\ Save([cur EXCEPT !.state = "merging"], "drive")
    /\ UNCHANGED <<repo, runs, crashes>>

\* develop: the worker is run, unless Jira fails first; its failure counts as an attempt.
RunWorker ==
    /\ Driving("developing")
    /\ \/ /\ runs' = [runs EXCEPT ![cur.issue] = @ + 1]
          /\ pc' = "commit"
          /\ UNCHANGED <<store, cur, todo, dropped>>
       \/ /\ CallsMayFail
          /\ runs' \in {runs, [runs EXCEPT ![cur.issue] = @ + 1]}
          /\ RetryOrFail
    /\ UNCHANGED <<repo, crashes>>

\* develop: the files are committed in the worktree, which nothing recreates.
Commit ==
    /\ pc = "commit"
    /\ \/ cur.issue \in worktrees /\ Save([cur EXCEPT !.state = "qa"], "drive")
       \/ cur.issue \notin worktrees /\ RetryOrFail
       \/ CallsMayFail /\ RetryOrFail
    /\ UNCHANGED <<repo, runs, crashes>>

\* As if a conflict did not stop the hand-over.
MergeRegardless ==
    /\ Driving("merging")
    /\ merged' \in {merged, merged \cup {cur.issue}} /\ pc' = "prune"
    /\ UNCHANGED <<store, cur, todo, dropped, branches, worktrees, runs, crashes>>

\* handOffToMerge: the branch is merged, conflicts, or is not there ...
Merge ==
    /\ Driving("merging")
    /\ \/ /\ cur.issue \in branches
          /\ merged' = merged \cup {cur.issue} /\ pc' = "prune"
          /\ UNCHANGED <<store, cur, todo, dropped>>
       \/ /\ CallsMayFail \/ cur.issue \notin branches
          /\ UNCHANGED merged
          /\ RetryOrFail
    /\ UNCHANGED <<branches, worktrees, runs, crashes>>

\* ... worktree and branch are removed (errors are ignored) ...
Prune ==
    /\ pc = "prune" /\ pc' = "close"
    /\ \/ worktrees' = worktrees \ {cur.issue} /\ branches' = branches \ {cur.issue}
       \/ CallsMayFail /\ UNCHANGED <<worktrees, branches>>
    /\ UNCHANGED <<store, merged, runs, cur, todo, dropped, crashes>>

\* ... and the Assignment is done.
Close ==
    /\ pc = "close"
    /\ Save([cur EXCEPT !.state = "done"], "next")
    /\ UNCHANGED <<repo, runs, crashes>>

\* The process dies and is started again.
Crash ==
    /\ crashes < MaxCrashes /\ crashes' = crashes + 1
    /\ cur' = None /\ todo' = {} /\ pc' = "boot" /\ dropped' = FALSE
    /\ UNCHANGED <<store, repo, runs>>

Step ==
    \/ Boot
    \/ \E i \in Issues : Resume(i) \/ Claim(i)
    \/ CreateBranch \/ AddWorktree \/ DriveOn \/ RunWorker \/ Commit \/ Merge \/ Prune \/ Close

Next == Step \/ Crash

Spec == Init /\ [][Next]_vars

\* The engine's goroutine goes on as long as it can.
FairSpec == Spec /\ WF_vars(Step)

-----------------------------------------------------------------------------
\* The worker is run at most once per counted attempt, plus once for every restart: a
\* failing issue cannot use the worker without bound (Assignment.Attempt).
RunsBounded ==
    \A i \in Issues : runs[i] <= MaxAttempts + crashes

\* An Assignment is done only if its branch was merged.
DoneIsMerged == \A i \in Issues : store[i].state = "done" => i \in merged

\* A finished Assignment is never touched again, whatever the crashes (Law 19).
FinishedStays ==
    [][\A i \in Issues : store[i].state \in Terminal => store'[i] = store[i]]_vars

\* Every claimed issue reaches a terminal state, across crashes, unless a Save failed: then
\* it is left where it was until the next restart.
Finishes == \A i \in Issues : Unfinished(i) ~> (~Unfinished(i) \/ dropped)
=============================================================================
