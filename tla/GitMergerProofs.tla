-------------------------- MODULE GitMergerProofs ---------------------------
(***************************************************************************)
(* Under the merge lease, what Merge calls merged is on the remote.        *)
(*                                                                         *)
(* The branch that is being pushed must hold the issue's work when the     *)
(* push is accepted.  Between its merge and its push the clone's           *)
(* integration branch is changed by no other Merge call, which is where    *)
(* the lease is needed: a second call would reset it.                      *)
(***************************************************************************)
EXTENDS GitMerger, TLAPS

\* The commits the engine and others make are within the bounds of Commits.
LEMMA CommitsInRange ==
  ASSUME TypeOK
  PROVE  /\ \A i \in Issues : Work(i) \in Commits /\ MergeCommit(i) \in Commits
         /\ pushes < MaxExternal => <<External, pushes + 1>> \in Commits
  <1> USE AttemptsAssumption, BoundsAssumption DEF TypeOK
  <1>1. ASSUME NEW i \in Issues
        PROVE  crashes * MaxAttempts + attempt[i] + 1 \in 0..(MaxCrashes + 1) * MaxAttempts
    <2>1. crashes * MaxAttempts \in Nat /\ MaxCrashes * MaxAttempts \in Nat
      OBVIOUS
    <2>2. crashes * MaxAttempts <= MaxCrashes * MaxAttempts
      OBVIOUS
    <2>3. (MaxCrashes + 1) * MaxAttempts = MaxCrashes * MaxAttempts + MaxAttempts
      OBVIOUS
    <2>4. attempt[i] \in Nat /\ attempt[i] + 1 <= MaxAttempts
      OBVIOUS
    <2> QED
      BY <2>1, <2>2, <2>3, <2>4
  <1>2. ASSUME NEW i \in Issues PROVE Work(i) \in Commits
    BY (MaxCrashes + 1) * MaxAttempts \in Nat DEF Work, Commits
  <1> QED
    BY <1>1, <1>2 DEF MergeCommit, Commits

\* Merge's answer and its next attempt keep the types of what they write.
LEMMA RetryTypes ==
  ASSUME TypeOK, NEW i \in Issues,
         \/ Retry(i)
         \/ \E r \in Results : Answer(i, r)
         \/ \E s \in Steps : Advance(i, s)
  PROVE  /\ pc' \in [Issues -> Steps] /\ result' \in [Issues -> Results]
         /\ attempt' \in [Issues -> 0..MaxAttempts - 1]
  BY AttemptsAssumption
  DEF TypeOK, Retry, Answer, Advance, Steps, Merging, Results

\* Every step of the adapters and of their surroundings keeps the types.
LEMMA TypeInductive ==
  ASSUME TypeOK, [Next]_vars
  PROVE  TypeOK'
  <1> USE AttemptsAssumption, BoundsAssumption, CommitsInRange DEF TypeOK
  <1>1. ASSUME NEW i \in Issues, EnsureWorkspace(i) PROVE TypeOK'
    BY <1>1 DEF EnsureWorkspace, At, Steps
  <1>2. ASSUME NEW i \in Issues, Commit(i) PROVE TypeOK'
    BY <1>2 DEF Commit, At, Steps
  <1>3. ASSUME NEW i \in Issues, Begin(i) PROVE TypeOK'
    BY <1>3 DEF Begin, At, Steps, Merging
  <1>4. ASSUME NEW i \in Issues, Fetch(i) PROVE TypeOK'
    BY <1>4, RetryTypes DEF Fetch, Steps, Merging
  <1>5. ASSUME NEW i \in Issues, Reset(i) PROVE TypeOK'
    BY <1>5, RetryTypes DEF Reset, Steps, Merging
  <1>6. ASSUME NEW i \in Issues, MergeBranch(i) PROVE TypeOK'
    BY <1>6, RetryTypes DEF MergeBranch, Steps, Merging, Results
  <1>7. ASSUME NEW i \in Issues, Push(i) PROVE TypeOK'
    BY <1>7, RetryTypes DEF Push, Results
  <1>8. ASSUME NEW i \in Issues, Cleanup(i) PROVE TypeOK'
    BY <1>8 DEF Cleanup
  <1>9. CASE ExternalPush
    BY <1>9 DEF ExternalPush
  <1>10. CASE Crash
    BY <1>10 DEF Crash, Steps
  <1>11. CASE UNCHANGED vars
    BY <1>11 DEF vars
  <1> QED
    BY <1>1, <1>2, <1>3, <1>4, <1>5, <1>6, <1>7, <1>8, <1>9, <1>10, <1>11
    DEF Next, Step

\* Every state of the clone and the remote is well typed.
THEOREM TypeCorrect == Spec => []TypeOK
  <1>1. Init => TypeOK
    BY AttemptsAssumption, BoundsAssumption DEF Init, TypeOK, Steps, Results
  <1>2. TypeOK /\ [Next]_vars => TypeOK'
    BY TypeInductive
  <1> QED
    BY <1>1, <1>2, PTL DEF Spec

-----------------------------------------------------------------------------
\* The merge lease at work.
OneMerge ==
    \A i, j \in Issues : pc[i] \in Merging /\ pc[j] \in Merging => i = j

\* The work is on the branch from the commit on, and on the clone's integration branch
\* from the merge until the push.
Carried ==
    \A i \in Issues :
        /\ pc[i] \in {"verified"} \cup Merging => Work(i) \in branch[i]
        /\ pc[i] = "push" => Work(i) \in dev

PushInv == TypeOK /\ OneMerge /\ Carried /\ MergedIsPushed

\* After a retry or an answer, the issue starts over or has left the merge; no other issue
\* is affected.
LEMMA RetryEffect ==
  ASSUME TypeOK, NEW i \in Issues, Retry(i)
  PROVE  /\ \A j \in Issues \ {i} : pc'[j] = pc[j] /\ result'[j] = result[j]
         /\ pc'[i] \in {"fetch", "answered"}
         /\ result'[i] \in {result[i], "error"}
  BY DEF TypeOK, Retry, Answer

\* With the merge lease in force, PushInv is preserved by every step of the clone: this is
\* where serialization of Merger.Merge keeps reset --hard from discarding a merge.
LEMMA PushInductive ==
  ASSUME Serialized, PushInv, [Next]_vars
  PROVE  PushInv'
  <1> USE DEF PushInv, OneMerge, Carried, MergedIsPushed, Merging
  <1>0. TypeOK'
    BY TypeInductive
  <1>1. ASSUME NEW i \in Issues, EnsureWorkspace(i) PROVE PushInv'
    BY <1>0, <1>1 DEF EnsureWorkspace, At, TypeOK
  <1>2. ASSUME NEW i \in Issues, Commit(i) PROVE PushInv'
    BY <1>0, <1>2 DEF Commit, At, TypeOK
  <1>3. ASSUME NEW i \in Issues, Begin(i) PROVE PushInv'
    BY <1>0, <1>3 DEF Begin, At, TypeOK
  <1>4. ASSUME NEW i \in Issues, Fetch(i) PROVE PushInv'
    BY <1>0, <1>4, RetryEffect DEF Fetch, Advance, TypeOK
  <1>5. ASSUME NEW i \in Issues, Reset(i) PROVE PushInv'
    BY <1>0, <1>5, RetryEffect DEF Reset, Advance, TypeOK
  <1>6. ASSUME NEW i \in Issues, MergeBranch(i) PROVE PushInv'
    BY <1>0, <1>6, RetryEffect DEF MergeBranch, Advance, Answer, TypeOK
  <1>7. ASSUME NEW i \in Issues, Push(i) PROVE PushInv'
    BY <1>0, <1>7, RetryEffect DEF Push, Answer, TypeOK
  <1>8. ASSUME NEW i \in Issues, Cleanup(i) PROVE PushInv'
    BY <1>0, <1>8 DEF Cleanup, TypeOK
  <1>9. CASE ExternalPush
    BY <1>0, <1>9 DEF ExternalPush
  <1>10. CASE Crash
    BY <1>0, <1>10 DEF Crash
  <1>11. CASE UNCHANGED vars
    BY <1>11 DEF vars, TypeOK, Work
  <1> QED
    BY <1>1, <1>2, <1>3, <1>4, <1>5, <1>6, <1>7, <1>8, <1>9, <1>10, <1>11
    DEF Next, Step

\* For any number of issues, external pushes, lost acknowledgements and crashes: if the
\* merge lease serializes Merger.Merge, an issue answered "merged" is on the remote's
\* integration branch for good.
THEOREM MergedStaysPushed == ASSUME Serialized PROVE Spec => []MergedIsPushed
  <1>1. Init => PushInv
    BY AttemptsAssumption, BoundsAssumption
    DEF Init, PushInv, TypeOK, OneMerge, Carried, MergedIsPushed, Steps, Merging, Results
  <1>2. PushInv /\ [Next]_vars => PushInv'
    BY PushInductive
  <1>3. PushInv => MergedIsPushed
    BY DEF PushInv
  <1> QED
    BY <1>1, <1>2, <1>3, PTL DEF Spec
-----------------------------------------------------------------------------
\* The remote's integration branch only grows: a push is accepted only as a fast-forward, so
\* no Merge call, serialized or not, takes a commit away from it.
LEMMA RemoteGrows ==
  ASSUME [Next]_vars
  PROVE  origin \subseteq origin'
  <1>1. ASSUME NEW i \in Issues, Push(i) PROVE origin \subseteq origin'
    BY <1>1 DEF Push
  <1>2. CASE ExternalPush
    BY <1>2 DEF ExternalPush
  <1>3. CASE UNCHANGED origin
    BY <1>3
  <1> QED
    BY <1>1, <1>2, <1>3
    DEF Next, Step, EnsureWorkspace, Commit, Begin, Fetch, Reset, MergeBranch, Cleanup, Crash, vars

\* Whatever two Merge calls do to the shared clone at once, and wherever the process dies,
\* a commit somebody else pushed stays on the remote: no serialization is needed for this.
THEOREM ExternalStaysPushed == Spec => []ExternalKept
  <1>1. Init => TypeOK /\ ExternalKept
    BY AttemptsAssumption, BoundsAssumption DEF Init, TypeOK, Steps, Results, ExternalKept
  <1>2. TypeOK /\ ExternalKept /\ [Next]_vars => ExternalKept'
    <2> SUFFICES ASSUME TypeOK, ExternalKept, [Next]_vars PROVE ExternalKept'
      OBVIOUS
    <2>1. CASE ExternalPush
      BY <2>1, BoundsAssumption DEF ExternalPush, ExternalKept, TypeOK
    <2>2. CASE UNCHANGED pushes
      BY <2>2, RemoteGrows DEF ExternalKept
    <2> QED
      BY <2>1, <2>2
      DEF Next, Step, EnsureWorkspace, Commit, Begin, Fetch, Reset, MergeBranch, Push, Cleanup, Crash, vars
  <1> QED
    BY <1>1, <1>2, TypeCorrect, PTL DEF Spec
=============================================================================
