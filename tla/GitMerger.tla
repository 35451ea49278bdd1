----------------------------- MODULE GitMerger ------------------------------
(***************************************************************************)
(* internal/adapters/git over internal/git: the engine's one clone, the    *)
(* worktree branches of the issues, and the merge of a branch into the     *)
(* integration branch of the remote.                                       *)
(*                                                                         *)
(* A branch is represented by the set of commits reachable from its tip:   *)
(* <<i, 0>> is the work of issue i, <<i, n>> the merge commit of the n-th  *)
(* attempt to merge it, <<External, n>> a commit pushed by somebody else.  *)
(* A push is never forced, so it is accepted when the remote's commits are *)
(* all among those pushed.                                                 *)
(***************************************************************************)
EXTENDS Naturals, FiniteSets

CONSTANTS
    Issues,         \* issue keys
    External,       \* committer of the commits that do not come from this engine
    MaxAttempts,    \* attempts of one Merge call (4 in the code)
    Serialized,     \* the merge lease admits one Merge at a time
    CallsMayFail,   \* fetch, reset or merge may return an error other than a conflict
    AckMayBeLost,   \* a push may be applied by the remote and still return an error
    MaxExternal,    \* bound on external pushes
    MaxCrashes      \* bound on crashes

ASSUME IssuesAssumption == External \notin Issues
ASSUME AttemptsAssumption == MaxAttempts \in Nat \ {0}
ASSUME BoundsAssumption == MaxExternal \in Nat /\ MaxCrashes \in Nat
ASSUME FlagsAssumption == {Serialized, CallsMayFail, AckMayBeLost} \subseteq BOOLEAN

VARIABLES
    origin,     \* the remote's integration branch
    tracking,   \* origin/<devBranch> in the clone
    dev,        \* <devBranch> in the clone, checked out in its main worktree
    branch,     \* agent/<issue>, if the issue has a workspace
    workspace,  \* issues with a worktree and branch
    pc,         \* what is happening to the issue
    attempt,    \* attempts the issue's Merge call has used up
    result,     \* what Merge last answered for the issue
    pushes,     \* external pushes so far
    crashes     \* crashes so far

vars == <<origin, tracking, dev, branch, workspace, pc, attempt, result, pushes, crashes>>

Merging == {"fetch", "reset", "merge", "push"}
Steps == {"idle", "develop", "verified", "answered"} \cup Merging
Results == {"none", "merged", "conflict", "error"}
Commits ==
    (Issues \X (0..(MaxCrashes + 1) * MaxAttempts)) \cup ({External} \X (1..MaxExternal))

TypeOK ==
    /\ origin \subseteq Commits /\ tracking \subseteq Commits /\ dev \subseteq Commits
    /\ branch \in [Issues -> SUBSET Commits]
    /\ workspace \subseteq Issues
    /\ pc \in [Issues -> Steps]
    /\ attempt \in [Issues -> 0..MaxAttempts - 1]
    /\ result \in [Issues -> Results]
    /\ pushes \in 0..MaxExternal /\ crashes \in 0..MaxCrashes

Init ==
    /\ origin = {} /\ tracking = {} /\ dev = {}
    /\ branch = [i \in Issues |-> {}] /\ workspace = {}
    /\ pc = [i \in Issues |-> "idle"] /\ attempt = [i \in Issues |-> 0]
    /\ result = [i \in Issues |-> "none"]
    /\ pushes = 0 /\ crashes = 0

At(i, here, next) == pc[i] = here /\ pc' = [pc EXCEPT ![i] = next]
Work(i) == <<i, 0>>
MergeCommit(i) == <<i, crashes * MaxAttempts + attempt[i] + 1>>

-----------------------------------------------------------------------------
\* EnsureWorkspace: a best-effort fetch, then AddWorktree, which reuses the issue's branch
\* or creates it from the clone's own integration branch.
EnsureWorkspace(i) ==
    /\ At(i, "idle", "develop")
    /\ tracking' \in {origin} \cup (IF CallsMayFail THEN {tracking} ELSE {})
    /\ workspace' = workspace \cup {i}
    /\ branch' = [branch EXCEPT ![i] = IF i \in workspace THEN @ ELSE dev]
    /\ UNCHANGED <<origin, dev, attempt, result, pushes, crashes>>

\* Developer.Develop commits the worker's files; the branch is then verified.
Commit(i) ==
    /\ At(i, "develop", "verified")
    /\ branch' = [branch EXCEPT ![i] = @ \cup {Work(i)}]
    /\ UNCHANGED <<origin, tracking, dev, workspace, attempt, result, pushes, crashes>>

\* Merger.Merge is called under the merge lease.
Begin(i) ==
    /\ Serialized => \A j \in Issues : pc[j] \notin Merging
    /\ At(i, "verified", "fetch")
    /\ attempt' = [attempt EXCEPT ![i] = 0]
    /\ UNCHANGED <<origin, tracking, dev, branch, workspace, result, pushes, crashes>>

\* The answer of Merge.
Answer(i, r) ==
    /\ pc' = [pc EXCEPT ![i] = "answered"]
    /\ result' = [result EXCEPT ![i] = r]
    /\ UNCHANGED attempt

\* As if the attempts were not counted.
RetryForever(i) ==
    /\ pc' = [pc EXCEPT ![i] = "fetch"]
    /\ UNCHANGED <<attempt, result>>

\* lastErr = err; continue - until the attempts are used up.
Retry(i) ==
    IF attempt[i] + 1 < MaxAttempts
    THEN /\ pc' = [pc EXCEPT ![i] = "fetch"]
         /\ attempt' = [attempt EXCEPT ![i] = @ + 1]
         /\ UNCHANGED result
    ELSE Answer(i, "error")

Advance(i, next) ==
    /\ pc' = [pc EXCEPT ![i] = next]
    /\ UNCHANGED <<attempt, result>>

Fetch(i) ==
    /\ pc[i] = "fetch"
    /\ \/ tracking' = origin /\ Advance(i, "reset")
       \/ CallsMayFail /\ UNCHANGED tracking /\ Retry(i)
    /\ UNCHANGED <<origin, dev, branch, workspace, pushes, crashes>>

\* reset --hard origin/<devBranch>: the clone's branch is whatever was last fetched.
Reset(i) ==
    /\ pc[i] = "reset"
    /\ \/ dev' = tracking /\ Advance(i, "merge")
       \/ CallsMayFail /\ UNCHANGED dev /\ Retry(i)
    /\ UNCHANGED <<origin, tracking, branch, workspace, pushes, crashes>>

\* merge --no-ff: nothing to do if the branch is already contained, else a merge commit, or
\* (if both sides moved) a conflict, which is aborted and answered at once.
MergeBranch(i) ==
    /\ pc[i] = "merge"
    /\ \/ /\ branch[i] \subseteq dev
          /\ UNCHANGED dev /\ Advance(i, "push")
       \/ /\ ~(branch[i] \subseteq dev)
          /\ dev' = dev \cup branch[i] \cup {MergeCommit(i)}
          /\ Advance(i, "push")
       \/ /\ ~(branch[i] \subseteq dev) /\ ~(dev \subseteq branch[i])
          /\ UNCHANGED dev /\ Answer(i, "conflict")
       \/ CallsMayFail /\ UNCHANGED dev /\ Retry(i)
    /\ UNCHANGED <<origin, tracking, branch, workspace, pushes, crashes>>

\* As if the push were best effort (what Merge's first comment says).
PushBestEffort(i) ==
    /\ pc[i] = "push"
    /\ origin' = IF origin \subseteq dev THEN dev ELSE origin
    /\ tracking' = origin' /\ Answer(i, "merged")
    /\ UNCHANGED <<dev, branch, workspace, pushes, crashes>>

\* As if the push were forced.
PushForced(i) ==
    /\ pc[i] = "push"
    /\ origin' = dev /\ tracking' = dev
    /\ Answer(i, "merged")
    /\ UNCHANGED <<dev, branch, workspace, pushes, crashes>>

\* push: accepted if it is a fast-forward, rejected otherwise; either way an error retries.
Push(i) ==
    /\ pc[i] = "push"
    /\ \/ /\ origin \subseteq dev
          /\ origin' = dev /\ tracking' = dev
          /\ Answer(i, "merged")
       \/ /\ origin \subseteq dev /\ AckMayBeLost
          /\ origin' = dev /\ UNCHANGED tracking
          /\ Retry(i)
       \/ /\ ~(origin \subseteq dev) \/ CallsMayFail
          /\ UNCHANGED <<origin, tracking>>
          /\ Retry(i)
    /\ UNCHANGED <<dev, branch, workspace, pushes, crashes>>

\* The orchestrator's finish removes the workspace, whatever Merge answered.
Cleanup(i) ==
    /\ pc[i] = "answered" /\ i \in workspace
    /\ workspace' = workspace \ {i}
    /\ branch' = [branch EXCEPT ![i] = {}]
    /\ UNCHANGED <<origin, tracking, dev, pc, attempt, result, pushes, crashes>>

-----------------------------------------------------------------------------
\* Somebody else pushes to the integration branch.
ExternalPush ==
    /\ pushes < MaxExternal /\ pushes' = pushes + 1
    /\ origin' = origin \cup {<<External, pushes + 1>>}
    /\ UNCHANGED <<tracking, dev, branch, workspace, pc, attempt, result, crashes>>

\* The process dies; Recover drives every unfinished issue from the start again.
Crash ==
    /\ crashes < MaxCrashes /\ crashes' = crashes + 1
    /\ pc' = [i \in Issues |-> IF pc[i] = "answered" THEN "answered" ELSE "idle"]
    /\ attempt' = [i \in Issues |-> 0]
    /\ UNCHANGED <<origin, tracking, dev, branch, workspace, result, pushes>>

Step(i) ==
    \/ EnsureWorkspace(i) \/ Commit(i) \/ Begin(i) \/ Fetch(i) \/ Reset(i)
    \/ MergeBranch(i) \/ Push(i) \/ Cleanup(i)

Next ==
    \/ \E i \in Issues : Step(i)
    \/ ExternalPush
    \/ Crash

Spec == Init /\ [][Next]_vars

\* Every git command returns and every run goes on.
FairSpec == Spec /\ \A i \in Issues : WF_vars(Step(i))

-----------------------------------------------------------------------------
\* An issue for which Merge answers "merged" is on the remote's integration branch, and
\* stays there, whoever pushes in between (Merge: "merged + pushed cleanly").
MergedIsPushed == \A i \in Issues : result[i] = "merged" => Work(i) \in origin

\* The clone never pushes over somebody else's commits, and keeps what it fetched of them:
\* once an external commit is on the remote it remains there (docs/07_Git.md G-5).
ExternalKept == \A n \in 1..pushes : <<External, n>> \in origin

\* Every Merge call answers, however often the remote moves (four attempts).
MergeAnswers == \A i \in Issues : (pc[i] \in Merging) ~> (pc[i] \notin Merging)
=============================================================================
