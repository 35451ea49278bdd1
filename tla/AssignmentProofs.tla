-------------------------- MODULE AssignmentProofs --------------------------
(***************************************************************************)
(* The worker's runs are bounded by the attempts and the restarts.         *)
(*                                                                         *)
(* RunsBounded is not inductive: it does not say that a run in progress    *)
(* has yet to be counted.  Counted does: an issue about to be developed    *)
(* (in hand, listed by Resume, or about to be listed after a restart) has  *)
(* had no more runs than counted attempts and restarts; one more run may   *)
(* be under way, or saved as qa, merging or done.                          *)
(***************************************************************************)
EXTENDS AssignmentEngine, TLAPS

\* The Assignment in hand is the one saved; it has attempts left, as has any unfinished one.
InHand ==
    /\ pc \in {"boot", "next"} <=> cur = None
    /\ cur # None =>
         /\ Unfinished(cur.issue)
         /\ store[cur.issue] = [state |-> cur.state, attempt |-> cur.attempt]
         /\ pc \in {"branch", "worktree"} => cur.state = "claimed"
         /\ pc = "commit" => cur.state = "developing"
         /\ pc \in {"prune", "close"} => cur.state = "merging"
         /\ cur.issue \notin todo
    /\ \A i \in todo : Unfinished(i)

AttemptsLeft ==
    \A i \in Issues :
        /\ store[i].state # "failed" => store[i].attempt < MaxAttempts
        /\ store[i].state = "absent" => store[i].attempt = 0

\* Runs whose outcome is in the record.
Settled(i) == runs[i] <= store[i].attempt + crashes

Counted ==
    /\ \A i \in Issues : runs[i] <= store[i].attempt + crashes + 1
    /\ \A i \in Issues : store[i].state \in {"absent", "failed"} => Settled(i)
    /\ pc = "boot" => \A i \in Issues : Settled(i)
    /\ \A i \in todo : Settled(i)
    /\ cur # None /\ pc # "commit" /\ cur.state \in {"claimed", "developing"} => Settled(cur.issue)

Merges ==
    /\ DoneIsMerged
    /\ pc \in {"prune", "close"} => cur.issue \in merged

RunInv == TypeOK /\ InHand /\ AttemptsLeft /\ Counted /\ Merges

USE AttemptsAssumption, FlagsAssumption, NoneAssumption

\* RunInv gives the bound, and that done means merged.
LEMMA RunInvSuffices == RunInv => RunsBounded /\ DoneIsMerged
  BY DEF RunInv, TypeOK, AttemptsLeft, Counted, Settled, Merges, RunsBounded, Record, States,
         Terminal

\* What Store.Save leaves behind: the record of one Assignment, or nothing in hand.
LEMMA SaveEffect ==
  ASSUME TypeOK, NEW a \in Assignment, NEW next, Save(a, next)
  PROVE  \/ /\ a.state \notin Terminal /\ cur' = a /\ cur' # None /\ pc' = next /\ todo' = todo
            /\ store'[a.issue] = [state |-> a.state, attempt |-> a.attempt]
            /\ \A i \in Issues \ {a.issue} : store'[i] = store[i]
            /\ store' \in [Issues -> Record]
         \/ /\ a.state \in Terminal /\ cur' = None /\ pc' = "next" /\ todo' = todo
            /\ store'[a.issue] = [state |-> a.state, attempt |-> a.attempt]
            /\ \A i \in Issues \ {a.issue} : store'[i] = store[i]
            /\ store' \in [Issues -> Record]
         \/ store' = store /\ cur' = None /\ pc' = "next" /\ todo' = {}
  BY DEF TypeOK, Save, Assignment, Record

LEMMA SaveFlag ==
  ASSUME TypeOK, NEW a, NEW next, Save(a, next)
  PROVE  dropped' \in BOOLEAN
  BY DEF TypeOK, Save

\* A step that ends in Store.Save(a), having run the worker for a's issue or merged it,
\* preserves RunInv if the record saved accounts for that.
LEMMA SaveStep ==
  ASSUME RunInv, NEW a \in Assignment, NEW next \in {"branch", "drive"}, Save(a, next),
         next = "branch" => a.state = "claimed",
         a.issue \notin todo,
         a.state # "failed" => a.attempt < MaxAttempts,
         a.state = "done" => a.issue \in merged,
         crashes' = crashes,
         branches' \subseteq Issues, worktrees' \subseteq Issues,
         merged' = merged,
         runs' \in [Issues -> Nat],
         \A j \in Issues \ {a.issue} : runs'[j] = runs[j],
         runs'[a.issue] <= a.attempt + crashes + 1,
         a.state \in {"claimed", "developing", "failed"} => runs'[a.issue] <= a.attempt + crashes,
         runs'[a.issue] <= store[a.issue].attempt + crashes + 1,
         store[a.issue].state \in {"absent", "failed"} =>
             runs'[a.issue] <= store[a.issue].attempt + crashes
  PROVE  RunInv'
  <1> USE DEF RunInv, TypeOK, Record
  <1>0. a.issue \in Issues /\ a.state \in States /\ a.attempt \in 0..MaxAttempts
    BY DEF Assignment
  <1>b. dropped' \in BOOLEAN
    BY SaveFlag
  <1>1. CASE /\ a.state \notin Terminal /\ cur' = a /\ cur' # None /\ pc' = next /\ todo' = todo
             /\ store'[a.issue] = [state |-> a.state, attempt |-> a.attempt]
             /\ \A i \in Issues \ {a.issue} : store'[i] = store[i]
             /\ store' \in [Issues -> Record]
    <2>1. TypeOK'
      BY <1>b, <1>1
    <2>2. InHand'
      BY <1>0, <1>1 DEF InHand, Unfinished, States, Terminal
    <2>3. AttemptsLeft'
      BY <1>0, <1>1 DEF AttemptsLeft, States, Terminal
    <2>4. Counted'
      <3>1. store'[a.issue].state = a.state /\ store'[a.issue].attempt = a.attempt
        BY <1>1
      <3>2. \A i \in Issues : /\ runs'[i] <= store'[i].attempt + crashes' + 1
                              /\ store'[i].state \in {"absent", "failed"} => Settled(i)'
        BY <1>0, <1>1, <3>1 DEF Counted, Settled, States, Terminal
      <3>3. \A i \in todo' : Settled(i)'
        BY <1>0, <1>1 DEF Counted, Settled
      <3> QED
        BY <1>0, <1>1, <3>1, <3>2, <3>3 DEF Counted, Settled
    <2>5. Merges'
      BY <1>0, <1>1 DEF Merges, DoneIsMerged, Terminal
    <2> QED
      BY <2>1, <2>2, <2>3, <2>4, <2>5
  <1>2. CASE /\ a.state \in Terminal /\ cur' = None /\ pc' = "next" /\ todo' = todo
             /\ store'[a.issue] = [state |-> a.state, attempt |-> a.attempt]
             /\ \A i \in Issues \ {a.issue} : store'[i] = store[i]
             /\ store' \in [Issues -> Record]
    <2>1. TypeOK'
      BY <1>b, <1>2
    <2>2. InHand'
      BY <1>0, <1>2 DEF InHand, Unfinished
    <2>3. AttemptsLeft'
      BY <1>0, <1>2 DEF AttemptsLeft, Terminal
    <2>4. Counted'
      <3>1. store'[a.issue].state = a.state /\ store'[a.issue].attempt = a.attempt
        BY <1>2
      <3>2. \A i \in Issues : /\ runs'[i] <= store'[i].attempt + crashes' + 1
                              /\ store'[i].state \in {"absent", "failed"} => Settled(i)'
        BY <1>0, <1>2, <3>1 DEF Counted, Settled, States, Terminal
      <3>3. \A i \in todo' : Settled(i)'
        BY <1>0, <1>2 DEF Counted, Settled
      <3> QED
        BY <1>0, <1>2, <3>1, <3>2, <3>3 DEF Counted, Settled
    <2>5. Merges'
      BY <1>0, <1>2 DEF Merges, DoneIsMerged
    <2> QED
      BY <2>1, <2>2, <2>3, <2>4, <2>5
  <1>3. CASE store' = store /\ cur' = None /\ pc' = "next" /\ todo' = {}
    <2>1. TypeOK' /\ InHand' /\ AttemptsLeft' /\ Merges'
      BY <1>b, <1>3 DEF InHand, AttemptsLeft, Merges, DoneIsMerged
    <2>2. Counted'
      BY <1>0, <1>3 DEF Counted, Settled
    <2> QED
      BY <2>1, <2>2
  <1> QED
    BY <1>1, <1>2, <1>3, SaveEffect

\* The Assignment in hand is unfinished, saved, and has attempts left.
LEMMA HandFacts ==
  ASSUME RunInv
  PROVE  cur # None =>
           /\ cur \in Assignment /\ cur.issue \in Issues /\ cur.state \in States \ Terminal
           /\ cur.attempt \in Nat /\ cur.attempt < MaxAttempts
           /\ store[cur.issue].state = cur.state /\ store[cur.issue].attempt = cur.attempt
           /\ cur.issue \notin todo
  <1> SUFFICES ASSUME cur # None PROVE
           /\ cur \in Assignment /\ cur.issue \in Issues /\ cur.state \in States \ Terminal
           /\ cur.attempt \in Nat /\ cur.attempt < MaxAttempts
           /\ store[cur.issue].state = cur.state /\ store[cur.issue].attempt = cur.attempt
           /\ cur.issue \notin todo
    OBVIOUS
  <1>1. cur \in Assignment
    BY DEF RunInv, TypeOK
  <1>2. cur.issue \in Issues /\ cur.state \in States /\ cur.attempt \in Nat
    BY <1>1 DEF Assignment
  <1>3. /\ store[cur.issue].state = cur.state /\ store[cur.issue].attempt = cur.attempt
        /\ cur.state \notin Terminal /\ cur.issue \notin todo
    BY DEF RunInv, InHand, Unfinished
  <1>4. cur.attempt < MaxAttempts
    BY <1>2, <1>3 DEF RunInv, AttemptsLeft, Terminal
  <1> QED
    BY <1>1, <1>2, <1>3, <1>4

\* retryOrFail after the worker may have run once more preserves RunInv.
LEMMA RetryStep ==
  ASSUME RunInv, cur # None, RetryOrFail,
         crashes' = crashes, UNCHANGED repo,
         runs' \in [Issues -> Nat],
         \A j \in Issues \ {cur.issue} : runs'[j] = runs[j],
         runs'[cur.issue] <= cur.attempt + crashes + 1
  PROVE  RunInv'
  <1>0. crashes \in Nat /\ runs'[cur.issue] \in Nat
    BY HandFacts DEF RunInv, TypeOK
  <1>1. CASE cur.attempt + 1 < MaxAttempts
    <2> DEFINE a == Attempted("developing")
    <2>1. /\ a \in Assignment /\ a.issue = cur.issue /\ a.state = "developing"
          /\ a.attempt = cur.attempt + 1
      BY <1>1, HandFacts DEF Attempted, Assignment, States, Terminal
    <2>2. Save(a, "drive")
      BY <1>1 DEF RetryOrFail
    <2> HIDE DEF a
    <2> QED
      BY <1>0, <1>1, <2>1, <2>2, HandFacts, SaveStep DEF repo, RunInv, TypeOK, States, Terminal
  <1>2. CASE ~(cur.attempt + 1 < MaxAttempts)
    <2> DEFINE a == Attempted("failed")
    <2>1. /\ a \in Assignment /\ a.issue = cur.issue /\ a.state = "failed"
          /\ a.attempt = cur.attempt + 1
      BY <1>2, HandFacts DEF Attempted, Assignment, States, Terminal
    <2>2. Save(a, "next")
      BY <1>2 DEF RetryOrFail
    <2>3. Save(a, "drive")
      BY <2>1, <2>2 DEF Save, Terminal
    <2> HIDE DEF a
    <2> QED
      BY <1>0, <1>2, <2>1, <2>3, HandFacts, SaveStep DEF repo, RunInv, TypeOK, States, Terminal
  <1> QED
    BY <1>1, <1>2

\* Saving the Assignment in hand with another state, nothing else having happened,
\* preserves RunInv.
LEMMA AdvanceStep ==
  ASSUME RunInv, cur # None, NEW s \in States, NEW next,
         Save([cur EXCEPT !.state = s], next),
         next = "drive" \/ s \in Terminal,
         crashes' = crashes, merged' = merged, runs' = runs,
         branches' \subseteq Issues, worktrees' \subseteq Issues,
         s = "done" => cur.issue \in merged,
         s \in {"claimed", "developing", "failed"} => Settled(cur.issue)
  PROVE  RunInv'
  <1> DEFINE a == [cur EXCEPT !.state = s]
  <1>1. a \in Assignment /\ a.issue = cur.issue /\ a.state = s /\ a.attempt = cur.attempt
    BY HandFacts DEF Assignment
  <1>2. Save(a, "drive")
    BY <1>1 DEF Save
  <1>3. runs[cur.issue] <= cur.attempt + crashes + 1
    BY HandFacts DEF RunInv, Counted
  <1> HIDE DEF a
  <1> QED
    BY <1>1, <1>2, <1>3, HandFacts, SaveStep DEF RunInv, TypeOK, Settled, States, Terminal

\* Every step of the engine, and a crash at any point, preserves RunInv.
LEMMA RunInductive ==
  ASSUME RunInv, [Next]_vars
  PROVE  RunInv'
  <1>1. CASE Boot
    BY <1>1 DEF Boot, repo, RunInv, TypeOK, Record, InHand, AttemptsLeft, Counted, Settled,
                Merges, DoneIsMerged, Unfinished
  <1>2. ASSUME NEW i \in Issues, Resume(i) PROVE RunInv'
    BY <1>2 DEF Resume, repo, RunInv, TypeOK, Record, InHand, AttemptsLeft, Counted, Settled,
                Merges, DoneIsMerged, Unfinished, Assignment, States, Terminal
  <1>3. ASSUME NEW i \in Issues, Claim(i) PROVE RunInv'
    <2> DEFINE a == [issue |-> i, state |-> "claimed", attempt |-> 0]
    <2>1. a \in Assignment /\ a.issue = i /\ a.state = "claimed" /\ a.attempt = 0
      BY DEF Assignment, States, Terminal
    <2>2. Save(a, "branch") /\ UNCHANGED <<repo, runs, crashes>> /\ i \notin todo
      BY <1>3 DEF Claim
    <2>3. runs[i] <= crashes /\ store[i].attempt = 0
      BY <1>3 DEF Claim, RunInv, TypeOK, Counted, Settled, AttemptsLeft
    <2> HIDE DEF a
    <2> QED
      BY <2>1, <2>2, <2>3, SaveStep DEF repo, RunInv, TypeOK
  <1>4. CASE CreateBranch
    <2>0. cur # None /\ cur.state = "claimed" /\ Settled(cur.issue)
      BY <1>4 DEF CreateBranch, RunInv, TypeOK, InHand, Counted
    <2>1. CASE Fail /\ UNCHANGED branches
      BY <1>4, <2>0, <2>1, AdvanceStep DEF CreateBranch, Fail, RunInv, TypeOK, States, Terminal
    <2>2. CASE ~(Fail /\ UNCHANGED branches)
      BY <1>4, <2>0, <2>2, HandFacts
      DEF CreateBranch, RunInv, TypeOK, InHand, AttemptsLeft, Counted, Settled, Merges,
          DoneIsMerged, Unfinished
    <2> QED
      BY <2>1, <2>2
  <1>5. CASE AddWorktree
    <2>0. cur # None /\ cur.state = "claimed" /\ Settled(cur.issue)
      BY <1>5 DEF AddWorktree, RunInv, TypeOK, InHand, Counted
    <2>1. CASE Fail /\ UNCHANGED worktrees
      BY <1>5, <2>0, <2>1, AdvanceStep DEF AddWorktree, Fail, RunInv, TypeOK, States, Terminal
    <2>2. CASE ~(Fail /\ UNCHANGED worktrees)
      BY <1>5, <2>0, <2>2, HandFacts
      DEF AddWorktree, RunInv, TypeOK, InHand, AttemptsLeft, Counted, Settled, Merges,
          DoneIsMerged, Unfinished
    <2> QED
      BY <2>1, <2>2
  <1>6. CASE DriveOn
    <2>1. cur # None /\ pc = "drive" /\ UNCHANGED <<repo, runs, crashes>>
      BY <1>6 DEF DriveOn, Driving, RunInv, InHand
    <2>2. CASE cur.state = "claimed" /\ Save([cur EXCEPT !.state = "developing"], "drive")
      <3>1. Settled(cur.issue)
        BY <2>1, <2>2 DEF RunInv, Counted
      <3> QED
        BY <2>1, <2>2, <3>1, AdvanceStep DEF repo, RunInv, TypeOK, States
    <2>3. CASE Save([cur EXCEPT !.state = "merging"], "drive")
      BY <2>1, <2>3, AdvanceStep DEF repo, RunInv, TypeOK, States
    <2> QED
      BY <1>6, <2>2, <2>3 DEF DriveOn, Driving
  <1>7. CASE RunWorker
    <2>1. /\ cur # None /\ cur.state = "developing" /\ pc = "drive" /\ Settled(cur.issue)
          /\ UNCHANGED <<repo, crashes>>
      BY <1>7 DEF RunWorker, Driving, RunInv, InHand, Counted
    <2>2. /\ runs' \in [Issues -> Nat]
          /\ \A j \in Issues \ {cur.issue} : runs'[j] = runs[j]
          /\ runs'[cur.issue] <= cur.attempt + crashes + 1
      BY <1>7, <2>1, HandFacts DEF RunWorker, RunInv, TypeOK, Settled
    <2>3. CASE RetryOrFail
      BY <2>1, <2>2, <2>3, RetryStep
    <2>4. CASE ~RetryOrFail
      <3>1. pc' = "commit" /\ UNCHANGED <<store, cur, todo, dropped>>
        BY <1>7, <2>4 DEF RunWorker
      <3>2. TypeOK' /\ InHand' /\ AttemptsLeft' /\ Merges'
        BY <2>1, <2>2, <3>1
        DEF repo, RunInv, TypeOK, InHand, AttemptsLeft, Merges, DoneIsMerged, Unfinished
      <3>3. Counted'
        BY <2>1, <2>2, <3>1, HandFacts
        DEF repo, RunInv, TypeOK, Record, Counted, Settled
      <3> QED
        BY <3>2, <3>3 DEF RunInv
    <2> QED
      BY <2>3, <2>4
  <1>8. CASE Commit
    <2>1. cur # None /\ UNCHANGED <<repo, runs, crashes>>
      BY <1>8 DEF Commit, RunInv, InHand
    <2>2. CASE RetryOrFail
      <3>1. runs[cur.issue] <= cur.attempt + crashes + 1
        BY <2>1, HandFacts DEF RunInv, Counted
      <3> QED
        BY <2>1, <2>2, <3>1, RetryStep DEF RunInv, TypeOK
    <2>3. CASE Save([cur EXCEPT !.state = "qa"], "drive")
      BY <2>1, <2>3, AdvanceStep DEF repo, RunInv, TypeOK, States
    <2> QED
      BY <1>8, <2>2, <2>3 DEF Commit
  <1>9. CASE Merge
    <2>1. /\ cur # None /\ cur.state = "merging" /\ pc = "drive"
          /\ UNCHANGED <<branches, worktrees, runs, crashes>>
      BY <1>9 DEF Merge, Driving, RunInv, InHand
    <2>2. CASE RetryOrFail /\ UNCHANGED merged
      <3>1. runs[cur.issue] <= cur.attempt + crashes + 1
        BY <2>1, HandFacts DEF RunInv, Counted
      <3> QED
        BY <2>1, <2>2, <3>1, RetryStep DEF repo, RunInv, TypeOK
    <2>3. CASE ~(RetryOrFail /\ UNCHANGED merged)
      BY <1>9, <2>1, <2>3, HandFacts
      DEF Merge, RunInv, TypeOK, InHand, AttemptsLeft, Counted, Settled, Merges, DoneIsMerged,
          Unfinished
    <2> QED
      BY <2>2, <2>3
  <1>10. CASE Prune
    BY <1>10, HandFacts
    DEF Prune, RunInv, TypeOK, InHand, AttemptsLeft, Counted, Settled, Merges, DoneIsMerged,
        Unfinished
  <1>11. CASE Close
    <2>1. cur # None /\ cur.issue \in merged /\ UNCHANGED <<repo, runs, crashes>>
      BY <1>11 DEF Close, RunInv, InHand, Merges
    <2> QED
      BY <1>11, <2>1, AdvanceStep DEF Close, repo, RunInv, TypeOK, States, Terminal
  <1>12. CASE Crash
    <2>1. /\ crashes < MaxCrashes /\ crashes' = crashes + 1
          /\ cur' = None /\ todo' = {} /\ pc' = "boot"
          /\ UNCHANGED <<store, repo, runs>>
      BY <1>12 DEF Crash
    <2>2. dropped' \in BOOLEAN
      BY <1>12, Zenon DEF Crash
    <2> QED
      BY <2>1, <2>2 DEF repo, RunInv, TypeOK, Record, InHand, AttemptsLeft, Counted, Settled,
                        Merges, DoneIsMerged, Unfinished
  <1>13. CASE UNCHANGED vars
    BY <1>13 DEF vars, repo, RunInv, TypeOK, Record, InHand, AttemptsLeft, Counted, Settled,
                 Merges, DoneIsMerged, Unfinished
  <1> QED
    BY <1>1, <1>2, <1>3, <1>4, <1>5, <1>6, <1>7, <1>8, <1>9, <1>10, <1>11, <1>12, <1>13
    DEF Next, Step

\* RunInv holds throughout.
LEMMA RunInvHolds == Spec => []RunInv
  <1>1. Init => RunInv
    <2>1. Init => dropped \in BOOLEAN
      BY Zenon DEF Init
    <2> QED
      BY <2>1 DEF Init, Absent, RunInv, TypeOK, Record, InHand, AttemptsLeft, Counted, Settled,
                  Merges, DoneIsMerged, Unfinished, Terminal
  <1>2. RunInv /\ [Next]_vars => RunInv'
    BY RunInductive
  <1> QED
    BY <1>1, <1>2, PTL DEF Spec

\* For any number of issues, any retry cap and any number of crashes, the worker is run for
\* an issue at most once per allowed attempt and once per restart.
THEOREM RunsStayBounded == Spec => []RunsBounded
  BY RunInvHolds, RunInvSuffices, PTL

\* ... and an Assignment is done only if its branch was merged.
THEOREM DoneMeansMerged == Spec => []DoneIsMerged
  BY RunInvHolds, RunInvSuffices, PTL

\* A finished Assignment is never written again: every Save is of the unfinished one in
\* hand or of an issue that had none.
THEOREM FinishedIsFinal == Spec => FinishedStays
  <1> DEFINE Kept == \A i \in Issues : store[i].state \in Terminal => store'[i] = store[i]
  <1>1. ASSUME RunInv, [Next]_vars PROVE Kept
    <2>1. ASSUME NEW a \in Assignment, NEW next, Save(a, next), ~(store[a.issue].state \in Terminal)
          PROVE  Kept
      BY <1>1, <2>1, SaveEffect DEF RunInv
    <2>2. ASSUME cur # None, NEW s \in States, NEW next, Save([cur EXCEPT !.state = s], next)
          PROVE  Kept
      <3>1. /\ [cur EXCEPT !.state = s] \in Assignment
            /\ [cur EXCEPT !.state = s].issue = cur.issue
        BY <1>1, <2>2, HandFacts DEF Assignment
      <3> QED
        BY <1>1, <2>1, <2>2, <3>1, HandFacts
    <2>3. ASSUME cur # None, RetryOrFail PROVE Kept
      <3>1. ASSUME NEW s \in {"developing", "failed"}
            PROVE  Attempted(s) \in Assignment /\ Attempted(s).issue = cur.issue
        BY <1>1, <2>3, HandFacts DEF Attempted, Assignment, States, Terminal
      <3> QED
        BY <1>1, <2>1, <2>3, <3>1, HandFacts DEF RetryOrFail
    <2>4. pc \notin {"boot", "next"} => cur # None
      BY <1>1 DEF RunInv, InHand
    <2>5. ASSUME NEW i \in Issues, Claim(i) PROVE Kept
      <3>1. /\ [issue |-> i, state |-> "claimed", attempt |-> 0] \in Assignment
            /\ [issue |-> i, state |-> "claimed", attempt |-> 0].issue = i
        BY DEF Assignment, States
      <3> QED
        BY <2>1, <2>5, <3>1 DEF Claim, Terminal
    <2>6. CASE CreateBranch \/ AddWorktree
      BY <2>2, <2>4, <2>6 DEF CreateBranch, AddWorktree, Fail, States, Terminal
    <2>7. CASE DriveOn \/ Close
      BY <2>2, <2>4, <2>7 DEF DriveOn, Driving, Close, States, Terminal
    <2>8. CASE RunWorker \/ Merge
      BY <2>3, <2>4, <2>8 DEF RunWorker, Merge, Driving
    <2>9. CASE Commit
      BY <2>2, <2>3, <2>4, <2>9 DEF Commit, States
    <2>10. CASE Boot \/ Prune \/ Crash \/ (\E i \in Issues : Resume(i)) \/ UNCHANGED vars
      BY <2>10 DEF Boot, Prune, Crash, Resume, vars
    <2> QED
      BY <1>1, <2>5, <2>6, <2>7, <2>8, <2>9, <2>10 DEF Next, Step
  <1>2. RunInv /\ [Next]_vars => [Kept]_vars
    BY <1>1
  <1> HIDE DEF Kept
  <1>3. Spec => [][Kept]_vars
    BY <1>2, RunInvHolds, PTL DEF Spec
  <1> QED
    BY <1>3 DEF FinishedStays, Kept
=============================================================================
