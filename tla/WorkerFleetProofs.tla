-------------------------- MODULE WorkerFleetProofs --------------------------
(***************************************************************************)
(* Rotation, retry and rest of the accounts, for every number of accounts  *)
(* and runs, every bound and every mix of automatic, picked and parallel   *)
(* runs.                                                                   *)
(*                                                                         *)
(* Rotation: an account at place k of the order of last use has been       *)
(* passed over at most Len(lru) - k times, since each selection that       *)
(* passes it over takes an account in front of it to the back (InTurn).    *)
(* Retry: what a run has seen depends on where it is (Retrying).  Rest: a  *)
(* refused account cools down at least as long as it is owed (Rests).      *)
(***************************************************************************)
EXTENDS WorkerFleet, SequenceTheorems, WellFoundedInduction, TLAPS

-----------------------------------------------------------------------------
(* The order of last use.                                                   *)

\* A nonempty set of naturals has a least one.
LEMMA LeastNatural ==
    ASSUME NEW T \in SUBSET Nat, T # {}
    PROVE  \E x \in T : \A y \in T : x <= y
<1> DEFINE R == OpToRel(<, Nat)
<1>1. IsWellFoundedOn(R, Nat)
  BY NatLessThanWellFounded, Zenon
<1>2. ASSUME NEW x \in Nat, NEW y \in Nat, y < x PROVE <<y, x>> \in R
  BY <1>2 DEF OpToRel
<1> HIDE DEF R
<1>3. PICK x \in T : \A y \in T : ~(<<y, x>> \in R)
  BY <1>1, WFMin
<1>4. ASSUME NEW y \in T PROVE x <= y
  <2>1. x \in Nat /\ y \in Nat /\ ~(<<y, x>> \in R)
    BY <1>3
  <2>2. ~(y < x)
    BY <2>1, <1>2
  <2> QED BY <2>1, <2>2
<1> QED BY <1>4

\* If an order has a member of T, FirstOf is the place of the first one.
LEMMA FirstExists ==
    ASSUME NEW S, NEW s \in Seq(S), NEW T, NEW i \in 1..Len(s), s[i] \in T
    PROVE  /\ FirstOf(s, T) \in 1..Len(s)
           /\ s[FirstOf(s, T)] \in T
           /\ \A j \in 1..FirstOf(s, T) - 1 : s[j] \notin T
<1> DEFINE P(k) == s[k] \in T /\ \A j \in 1..k - 1 : s[j] \notin T
<1>0. DOMAIN s = 1..Len(s) /\ Len(s) \in Nat
  OBVIOUS
<1>1. PICK k \in 1..Len(s) : P(k)
  <2> DEFINE K == {k \in 1..Len(s) : s[k] \in T}
  <2>1. K \in SUBSET Nat /\ K # {}
    BY <1>0
  <2>2. PICK k \in K : \A j \in K : k <= j
    BY <2>1, LeastNatural
  <2>3. ASSUME NEW j \in 1..k - 1 PROVE s[j] \notin T
    BY <1>0, <2>2
  <2> QED BY <2>2, <2>3
<1>2. P(FirstOf(s, T)) /\ FirstOf(s, T) \in DOMAIN s
  BY <1>0, <1>1 DEF FirstOf
<1> QED BY <1>0, <1>2

\* In t, a is behind those of s, and what was behind place i is one place further up.
MovedUp(s, i, a, t) ==
    /\ Len(t) = Len(s) /\ t[Len(s)] = a
    /\ \A j \in 1..i - 1 : t[j] = s[j]
    /\ \A j \in i..Len(s) - 1 : t[j] = s[j + 1]

\* The account at place i moves to the back and those behind it move up by one.
LEMMA MovedBack ==
    ASSUME NEW S, NEW s \in Seq(S), NEW i \in 1..Len(s), NEW a \in S,
           NEW t, t = Append(RemoveAt(s, i), a)
    PROVE  t \in Seq(S) /\ MovedUp(s, i, a, t)
<1> DEFINE u == SubSeq(s, 1, i - 1)
           v == SubSeq(s, i + 1, Len(s))
           w == u \o v
<1>0. Len(s) \in Nat /\ i \in Nat /\ 1 <= i /\ i <= Len(s) /\ \A j \in 1..Len(s) : s[j] \in S
  OBVIOUS
<1>1. u \in Seq(S) /\ Len(u) = i - 1 /\ \A j \in 1..i - 1 : u[j] = s[j]
  <2>1. \A j \in 1..i - 1 : s[j] \in S
    BY <1>0
  <2>2. u \in Seq(S) /\ Len(u) = (IF 1 <= i - 1 THEN i - 1 - 1 + 1 ELSE 0)
        /\ \A j \in 1..i - 1 - 1 + 1 : u[j] = s[1 + j - 1]
    BY <1>0, <2>1, SubSeqProperties
  <2> HIDE DEF u
  <2>3. \A j \in 1..i - 1 : u[j] = s[j]
    <3>1. ASSUME NEW j \in 1..i - 1 PROVE u[j] = s[j]
      <4>1. j \in 1..i - 1 - 1 + 1 /\ 1 + j - 1 = j
        BY <1>0
      <4> QED BY <2>2, <4>1
    <3> QED BY <3>1
  <2> QED BY <1>0, <2>2, <2>3
<1>2. v \in Seq(S) /\ Len(v) = Len(s) - i /\ \A j \in 1..Len(s) - i : v[j] = s[i + j]
  <2>1. \A j \in i + 1..Len(s) : s[j] \in S
    BY <1>0
  <2>2. v \in Seq(S) /\ Len(v) = (IF i + 1 <= Len(s) THEN Len(s) - (i + 1) + 1 ELSE 0)
        /\ \A j \in 1..Len(s) - (i + 1) + 1 : v[j] = s[i + 1 + j - 1]
    BY <1>0, <2>1, SubSeqProperties
  <2> HIDE DEF v
  <2>3. \A j \in 1..Len(s) - i : v[j] = s[i + j]
    <3>1. ASSUME NEW j \in 1..Len(s) - i PROVE v[j] = s[i + j]
      <4>1. j \in 1..Len(s) - (i + 1) + 1 /\ i + 1 + j - 1 = i + j
        BY <1>0
      <4> QED BY <2>2, <4>1
    <3> QED BY <3>1
  <2> QED BY <1>0, <2>2, <2>3
<1> HIDE DEF u, v
<1>3. /\ w \in Seq(S) /\ Len(w) = Len(s) - 1
      /\ \A j \in 1..Len(s) - 1 : w[j] = IF j <= i - 1 THEN u[j] ELSE v[j - (i - 1)]
  <2>1. /\ w \in Seq(S) /\ Len(w) = Len(u) + Len(v)
        /\ \A j \in 1..Len(u) + Len(v) : w[j] = IF j <= Len(u) THEN u[j] ELSE v[j - Len(u)]
    BY <1>1, <1>2, ConcatProperties
  <2>2. Len(u) + Len(v) = Len(s) - 1 /\ Len(u) = i - 1
    BY <1>0, <1>1, <1>2
  <2> HIDE DEF w
  <2> QED BY <2>1, <2>2
<1>4. RemoveAt(s, i) = w
  BY DEF RemoveAt, u, v
<1> HIDE DEF w
<1>5. /\ t \in Seq(S) /\ Len(t) = Len(w) + 1 /\ t[Len(w) + 1] = a
      /\ \A j \in 1..Len(w) : t[j] = w[j]
  BY <1>3, <1>4, AppendProperties
<1>6. Len(w) + 1 = Len(s) /\ Len(w) = Len(s) - 1
  BY <1>0, <1>3
<1>7. t \in Seq(S) /\ Len(t) = Len(s) /\ t[Len(s)] = a /\ \A j \in 1..Len(s) - 1 : t[j] = w[j]
  BY <1>5, <1>6
<1>8. ASSUME NEW j \in 1..i - 1 PROVE t[j] = s[j]
  <2>1. j \in 1..Len(s) - 1 /\ j <= i - 1
    BY <1>0
  <2> QED BY <1>1, <1>3, <1>7, <2>1
<1>9. ASSUME NEW j \in i..Len(s) - 1 PROVE t[j] = s[j + 1]
  <2>1. j \in 1..Len(s) - 1 /\ ~(j <= i - 1) /\ j - (i - 1) \in 1..Len(s) - i
        /\ i + (j - (i - 1)) = j + 1
    BY <1>0
  <2>2. t[j] = v[j - (i - 1)]
    BY <1>3, <1>7, <2>1
  <2> QED BY <1>2, <2>1, <2>2
<1> QED BY <1>7, <1>8, <1>9 DEF MovedUp

-----------------------------------------------------------------------------
(* The invariant.                                                           *)

\* Each place of the order of last use bounds how often its account was passed over.
InTurn == \A k \in 1..Len(lru) : passed[lru[k]] + k <= Len(lru)

\* A run that began has an account.
Holding == \A r \in Runs : pc[r] # "idle" => acct[r] \in Accounts

\* The attempts a run remembers: none outside a call, only failed infrastructure before an
\* attempt, and at most one more of any class after it.
AllInfra(s, n) == Len(s) <= n /\ \A i \in 1..Len(s) : s[i] = "infrastructure"
ButLast(s, n) ==
    Len(s) \in 1..n + 1 /\ \A i \in 1..Len(s) : i < Len(s) => s[i] = "infrastructure"
Retrying ==
    \A r \in Runs : /\ pc[r] \notin {"attempt", "settle"} => seen[r] = <<>>
                    /\ pc[r] = "attempt" => AllInfra(seen[r], MaxInfraRetries)
                    /\ pc[r] = "settle" => ButLast(seen[r], MaxInfraRetries)

\* The rest an account is owed is not longer than its cooldown.
Rests == \A a \in Accounts : refused[a] <= cool[a]

FleetTypes == TypeOK /\ lru \in Seq(Accounts)
FleetInv == FleetTypes /\ InTurn /\ Holding /\ Retrying /\ Rests

-----------------------------------------------------------------------------
(* Selection.                                                               *)

\* Every account has a place in the order of last use, and using it moves it to the back.
LEMMA UsedOrder ==
    ASSUME FleetTypes, NEW a \in Accounts
    PROVE  LET i == FirstOf(lru, {a})
           IN  /\ i \in 1..Len(lru)
               /\ Used(a) \in Seq(Accounts) /\ Len(Used(a)) = Len(lru)
               /\ Range(Used(a)) = Accounts /\ Used(a)[Len(lru)] = a
               /\ \A j \in 1..i - 1 : Used(a)[j] = lru[j]
               /\ \A j \in i..Len(lru) - 1 : Used(a)[j] = lru[j + 1]
<1> DEFINE i == FirstOf(lru, {a})
           t == Used(a)
<1>0. lru \in Seq(Accounts) /\ Range(lru) = Accounts /\ Len(lru) \in Nat /\ DOMAIN lru = 1..Len(lru)
  BY DEF FleetTypes, TypeOK
<1>1. PICK k \in 1..Len(lru) : lru[k] \in {a}
  BY <1>0 DEF Range
<1>2. i \in 1..Len(lru) /\ lru[i] = a /\ i \in Nat
  <2>1. i \in 1..Len(lru) /\ lru[i] \in {a}
    BY <1>0, <1>1, FirstExists
  <2> QED BY <1>0, <2>1
<1>3. t = Append(RemoveAt(lru, i), a)
  BY DEF Used
<1> HIDE DEF i, t
<1>4. /\ t \in Seq(Accounts) /\ Len(t) = Len(lru) /\ t[Len(lru)] = a
      /\ \A j \in 1..i - 1 : t[j] = lru[j]
      /\ \A j \in i..Len(lru) - 1 : t[j] = lru[j + 1]
  <2>1. lru \in Seq(Accounts) /\ i \in 1..Len(lru)
    BY <1>0, <1>2
  <2>2. t \in Seq(Accounts) /\ MovedUp(lru, i, a, t)
    BY <1>3, <2>1, MovedBack
  <2> QED BY <2>2 DEF MovedUp
<1>5. DOMAIN t = 1..Len(lru)
  BY <1>4
<1>6. ASSUME NEW b \in Accounts PROVE b \in Range(t)
  <2>1. PICK j \in 1..Len(lru) : lru[j] = b
    BY <1>0 DEF Range
  <2>2. CASE j < i
    <3>1. j \in 1..i - 1
      BY <1>0, <1>2, <2>2
    <3> QED BY <1>4, <1>5, <2>1, <3>1 DEF Range
  <2>3. CASE j = i
    <3>1. Len(lru) \in 1..Len(lru)
      BY <1>0, <1>2
    <3> QED BY <1>2, <1>4, <1>5, <2>1, <2>3, <3>1 DEF Range
  <2>4. CASE j > i
    <3>1. j - 1 \in i..Len(lru) - 1 /\ (j - 1) + 1 = j /\ j - 1 \in 1..Len(lru)
      BY <1>0, <1>2, <2>4
    <3>2. t[j - 1] = b
      BY <1>4, <2>1, <3>1
    <3> QED BY <1>5, <3>1, <3>2 DEF Range
  <2> QED BY <1>0, <1>2, <2>2, <2>3, <2>4
<1>7. Range(t) \subseteq Accounts
  BY <1>4, <1>5 DEF Range
<1> QED BY <1>2, <1>4, <1>6, <1>7 DEF i, t

\* Selection takes a candidate, and no account in front of it is one.
LEMMA BestFirst ==
    ASSUME FleetTypes, Candidates # {}
    PROVE  /\ Best(Candidates) \in Candidates
           /\ \A j \in 1..FirstOf(lru, {Best(Candidates)}) - 1 : lru[j] \notin Candidates
<1> DEFINE b == Best(Candidates)
           i == FirstOf(lru, Candidates)
           k == FirstOf(lru, {b})
<1>0. lru \in Seq(Accounts) /\ Range(lru) = Accounts /\ Len(lru) \in Nat /\ DOMAIN lru = 1..Len(lru)
  BY DEF FleetTypes, TypeOK
<1>1. PICK m \in 1..Len(lru) : lru[m] \in Candidates
  BY <1>0 DEF Range, Candidates
<1>2. i \in 1..Len(lru) /\ lru[i] \in Candidates /\ \A j \in 1..i - 1 : lru[j] \notin Candidates
  BY <1>0, <1>1, FirstExists
<1>3. lru[i] \in {b}
  BY DEF Best
<1> HIDE DEF i, b
<1>4. k \in 1..Len(lru) /\ \A j \in 1..k - 1 : lru[j] \notin {b}
  BY <1>0, <1>2, <1>3, FirstExists
<1> HIDE DEF k
<1>5. ~(i < k)
  <2>1. i < k => i \in 1..k - 1
    BY <1>0, <1>2, <1>4
  <2> QED BY <1>3, <1>4, <2>1
<1>6. ASSUME NEW j \in 1..k - 1 PROVE lru[j] \notin Candidates
  <2>1. j \in 1..i - 1
    BY <1>0, <1>2, <1>4, <1>5
  <2> QED BY <1>2, <2>1
<1> QED BY <1>2, <1>3, <1>6 DEF b, k

\* A candidate is not cooling down.
LEMMA CandidateRested ==
    ASSUME FleetTypes, NEW a \in Candidates
    PROVE  a \in Accounts /\ cool[a] = 0
<1>1. a \in Accounts /\ Availability(a) = "available"
  BY DEF Candidates
<1>2. cool[a] \in Nat /\ paused[a] \in BOOLEAN
  BY <1>1 DEF FleetTypes, TypeOK
<1> QED BY <1>1, <1>2 DEF Availability

\* Using account a keeps the bound, if no account in front of it counts one more and every other
\* counts at most one more.
LEMMA TurnKept ==
    ASSUME FleetTypes, InTurn, NEW a \in Accounts,
           lru' = Used(a), passed' \in [Accounts -> Nat], passed'[a] = 0,
           \A b \in Accounts : passed'[b] <= passed[b] + 1,
           \A j \in 1..FirstOf(lru, {a}) - 1 : passed'[lru[j]] <= passed[lru[j]]
    PROVE  InTurn'
<1> DEFINE i == FirstOf(lru, {a})
           n == Len(lru)
<1>0. n \in Nat /\ passed \in [Accounts -> Nat] /\ \A j \in 1..n : lru[j] \in Accounts
  BY DEF FleetTypes, TypeOK
<1>1. /\ i \in 1..n /\ Len(lru') = n /\ lru'[n] = a
      /\ \A j \in 1..i - 1 : lru'[j] = lru[j]
      /\ \A j \in i..n - 1 : lru'[j] = lru[j + 1]
  BY UsedOrder
<1>2. \A j \in 1..i - 1 : passed'[lru[j]] <= passed[lru[j]]
  OBVIOUS
<1>3. \A j \in 1..n : passed[lru[j]] + j <= n
  BY DEF InTurn
<1> HIDE DEF i, n
<1>4. ASSUME NEW k \in 1..n PROVE passed'[lru'[k]] + k <= n
  <2>1. CASE k = n
    BY <1>0, <1>1, <2>1
  <2>2. CASE k < i
    <3>1. k \in 1..i - 1
      BY <1>0, <1>1, <2>2
    <3>2. lru'[k] = lru[k] /\ passed'[lru[k]] <= passed[lru[k]] /\ lru[k] \in Accounts
      BY <1>0, <1>1, <1>2, <3>1
    <3>3. passed[lru[k]] + k <= n /\ passed[lru[k]] \in Nat /\ passed'[lru[k]] \in Nat
      BY <1>0, <1>3, <3>2
    <3> QED BY <1>0, <3>2, <3>3
  <2>3. CASE i <= k /\ k < n
    <3>1. k \in i..n - 1 /\ k + 1 \in 1..n
      BY <1>0, <1>1, <2>3
    <3>2. lru'[k] = lru[k + 1] /\ lru[k + 1] \in Accounts
      BY <1>0, <1>1, <3>1
    <3>3. passed'[lru[k + 1]] <= passed[lru[k + 1]] + 1
      BY <3>2
    <3>4. passed[lru[k + 1]] + (k + 1) <= n /\ passed[lru[k + 1]] \in Nat /\ passed'[lru[k + 1]] \in Nat
      BY <1>0, <1>3, <3>1, <3>2
    <3> QED BY <1>0, <3>2, <3>3, <3>4
  <2> QED BY <1>0, <1>1, <2>1, <2>2, <2>3
<1> QED BY <1>1, <1>4 DEF InTurn, n

\* classify answers one of the classes.
LEMMA ClassifyTyped ==
    ASSUME NEW r \in Runs, NEW o \in Clean \cup Failed
    PROVE  Classify(r, o) \in Classes
BY DEF Classify, Classes, Clean, Failed

-----------------------------------------------------------------------------
(* The inductive steps.                                                     *)

\* Every step keeps the types.
LEMMA TypesInductive ==
    ASSUME FleetTypes, Holding, [Next]_vars
    PROVE  FleetTypes'
<1>1. ASSUME NEW r \in Runs, AcquireAny(r) PROVE FleetTypes'
  <2> DEFINE b == Best(Candidates)
  <2>1. b \in Accounts /\ b \in Candidates
    BY <1>1, BestFirst DEF AcquireAny, Candidates
  <2>2. Used(b) \in Seq(Accounts) /\ Len(Used(b)) = Len(lru) /\ Range(Used(b)) = Accounts
    BY <2>1, UsedOrder
  <2> HIDE DEF b
  <2>3. lru' \in Seq(Accounts) /\ Len(lru') = Len(IdOrder) /\ Range(lru') = Accounts
    BY <1>1, <2>2 DEF AcquireAny, Take, FleetTypes, TypeOK, b
  <2>4. passed' \in [Accounts -> Nat]
    BY <1>1 DEF AcquireAny, FleetTypes, TypeOK
  <2>5. /\ reservedBy' = [reservedBy EXCEPT ![b] = r] /\ pc' = [pc EXCEPT ![r] = "call"]
        /\ acct' = [acct EXCEPT ![r] = b] /\ force' = [force EXCEPT ![r] = FALSE]
        /\ UNCHANGED <<health, paused, cool, cancelled, seen, changes, refused>>
    BY <1>1 DEF AcquireAny, Take, Start, call, b
  <2> QED BY <2>1, <2>3, <2>4, <2>5 DEF FleetTypes, TypeOK
<1>2. ASSUME NEW r \in Runs, NEW a \in Accounts, AcquirePicked(r, a) PROVE FleetTypes'
  <2>1. Used(a) \in Seq(Accounts) /\ Len(Used(a)) = Len(lru) /\ Range(Used(a)) = Accounts
    BY UsedOrder
  <2>2. lru' \in Seq(Accounts) /\ Len(lru') = Len(IdOrder) /\ Range(lru') = Accounts
    BY <1>2, <2>1 DEF AcquirePicked, Take, FleetTypes, TypeOK
  <2> QED BY <1>2, <2>2 DEF AcquirePicked, Take, Start, call, FleetTypes, TypeOK
<1>3. ASSUME NEW r \in Runs, NEW a \in Accounts, AcquireForced(r, a) PROVE FleetTypes'
  BY <1>3 DEF AcquireForced, Start, FleetTypes, TypeOK, resources, call
<1>4. ASSUME NEW r \in Runs, Develop(r) PROVE FleetTypes'
  BY <1>4, TimesAssumption DEF Develop, FleetTypes, TypeOK, resources, call
<1>5. ASSUME NEW r \in Runs, Attempt(r) PROVE FleetTypes'
  <2>1. PICK o \in Clean \cup Failed : seen' = [seen EXCEPT ![r] = Append(@, Classify(r, o))]
    BY <1>5 DEF Attempt
  <2>2. Classify(r, o) \in Classes
    BY ClassifyTyped
  <2>3. seen \in [Runs -> Seq(Classes)]
    BY DEF FleetTypes, TypeOK
  <2>4. Append(seen[r], Classify(r, o)) \in Seq(Classes)
    BY <2>2, <2>3
  <2>5. seen' \in [Runs -> Seq(Classes)]
    BY <2>1, <2>3, <2>4
  <2> QED BY <1>5, <2>5 DEF Attempt, FleetTypes, TypeOK, resources
<1>6. ASSUME NEW r \in Runs, Retry(r) PROVE FleetTypes'
  BY <1>6, TimesAssumption DEF Retry, FleetTypes, TypeOK, resources, call
<1>7. ASSUME NEW r \in Runs, Return(r) PROVE FleetTypes'
  <2>1. acct[r] \in Accounts
    BY <1>7 DEF Return, Holding
  <2>2. cool' \in [Accounts -> Nat] /\ refused' \in [Accounts -> Nat]
    BY <1>7, <2>1, TimesAssumption DEF Return, Cooldown, FleetTypes, TypeOK
  <2>3. seen' \in [Runs -> Seq(Classes)]
    BY <1>7 DEF Return, FleetTypes, TypeOK
  <2> QED BY <1>7, <2>2, <2>3 DEF Return, FleetTypes, TypeOK
<1>8. ASSUME NEW r \in Runs, Again(r) PROVE FleetTypes'
  BY <1>8, TimesAssumption DEF Again, FleetTypes, TypeOK, resources, call
<1>9. ASSUME NEW r \in Runs, End(r) PROVE FleetTypes'
  BY <1>9, TimesAssumption DEF End, FleetTypes, TypeOK, resources, call
<1>10. ASSUME NEW r \in Runs, RecordUse(r) PROVE FleetTypes'
  <2>1. acct[r] \in Accounts
    BY <1>10 DEF RecordUse, Holding
  <2>2. Used(acct[r]) \in Seq(Accounts) /\ Len(Used(acct[r])) = Len(lru) /\ Range(Used(acct[r])) = Accounts
    BY <2>1, UsedOrder
  <2>3. lru' \in Seq(Accounts) /\ Len(lru') = Len(IdOrder) /\ Range(lru') = Accounts
    BY <1>10, <2>2 DEF RecordUse, FleetTypes, TypeOK
  <2> QED BY <1>10, <2>3 DEF RecordUse, FleetTypes, TypeOK, call
<1>11. ASSUME NEW r \in Runs, Release(r) PROVE FleetTypes'
  BY <1>11, TimesAssumption DEF Release, FleetTypes, TypeOK, resources, call
<1>12. ASSUME NEW r \in Runs, Cancel(r) PROVE FleetTypes'
  BY <1>12, TimesAssumption DEF Cancel, FleetTypes, TypeOK, resources, call
<1>13. ASSUME NEW a \in Accounts, SetPaused(a) PROVE FleetTypes'
  BY <1>13, TimesAssumption DEF SetPaused, FleetTypes, TypeOK, resources, call
<1>14. ASSUME NEW a \in Accounts, ApplyHealth(a) PROVE FleetTypes'
  <2>0. cool \in [Accounts -> Nat] /\ refused \in [Accounts -> Nat]
    BY DEF FleetTypes, TypeOK
  <2>1. cool' \in [Accounts -> Nat] /\ refused' \in [Accounts -> Nat]
    <3>1. CASE UNCHANGED <<cool, refused>>
      BY <2>0, <3>1
    <3>2. CASE Cooldown(a, SessionMin) /\ refused' = [refused EXCEPT ![a] = 0]
      BY <2>0, <3>2, TimesAssumption DEF Cooldown
    <3> QED BY <1>14, <3>1, <3>2 DEF ApplyHealth
  <2>2. health' \in [Accounts -> {"healthy", "down"}]
    BY <1>14 DEF ApplyHealth, FleetTypes, TypeOK
  <2>3. changes' \in 0..MaxChanges
    BY <1>14, TimesAssumption DEF ApplyHealth, FleetTypes, TypeOK
  <2> QED BY <1>14, <2>1, <2>2, <2>3 DEF ApplyHealth, FleetTypes, TypeOK, call
<1>15. CASE Tick
  BY <1>15 DEF Tick, Down, FleetTypes, TypeOK, call
<1>16. CASE UNCHANGED vars
  BY <1>16 DEF vars, resources, call, FleetTypes, TypeOK
<1> QED BY <1>1, <1>2, <1>3, <1>4, <1>5, <1>6, <1>7, <1>8, <1>9, <1>10, <1>11, <1>12, <1>13, <1>14, <1>15, <1>16 DEF Next, RunStep

\* A run keeps its account until it ends.
LEMMA HoldingInductive ==
    ASSUME FleetTypes, Holding, [Next]_vars
    PROVE  Holding'
<1>1. ASSUME NEW r \in Runs, AcquireAny(r) PROVE Holding'
  <2>1. Best(Candidates) \in Accounts
    BY <1>1, BestFirst DEF AcquireAny, Candidates
  <2> QED BY <1>1, <2>1 DEF AcquireAny, Start, Holding, FleetTypes, TypeOK
<1>2. ASSUME NEW r \in Runs, NEW a \in Accounts, AcquirePicked(r, a) PROVE Holding'
  BY <1>2 DEF AcquirePicked, Start, Holding, FleetTypes, TypeOK
<1>3. ASSUME NEW r \in Runs, NEW a \in Accounts, AcquireForced(r, a) PROVE Holding'
  BY <1>3 DEF AcquireForced, Start, Holding, FleetTypes, TypeOK
<1>4. ASSUME NEW r \in Runs, Develop(r) PROVE Holding'
  BY <1>4 DEF Develop, Holding, FleetTypes, TypeOK, resources, call
<1>5. ASSUME NEW r \in Runs, Attempt(r) PROVE Holding'
  BY <1>5 DEF Attempt, Holding, FleetTypes, TypeOK, resources, call
<1>6. ASSUME NEW r \in Runs, Retry(r) PROVE Holding'
  BY <1>6 DEF Retry, Holding, FleetTypes, TypeOK, resources, call
<1>7. ASSUME NEW r \in Runs, Return(r) PROVE Holding'
  BY <1>7 DEF Return, Holding, FleetTypes, TypeOK, resources, call
<1>8. ASSUME NEW r \in Runs, Again(r) PROVE Holding'
  BY <1>8 DEF Again, Holding, FleetTypes, TypeOK, resources, call
<1>9. ASSUME NEW r \in Runs, End(r) PROVE Holding'
  BY <1>9 DEF End, Holding, FleetTypes, TypeOK, resources, call
<1>10. ASSUME NEW r \in Runs, RecordUse(r) PROVE Holding'
  BY <1>10 DEF RecordUse, Holding, FleetTypes, TypeOK, resources, call
<1>11. ASSUME NEW r \in Runs, Release(r) PROVE Holding'
  BY <1>11 DEF Release, Holding, FleetTypes, TypeOK, resources, call
<1>12. ASSUME NEW r \in Runs, Cancel(r) PROVE Holding'
  BY <1>12 DEF Cancel, Holding, FleetTypes, TypeOK, resources, call
<1>13. ASSUME NEW a \in Accounts, SetPaused(a) PROVE Holding'
  BY <1>13 DEF SetPaused, Holding, FleetTypes, TypeOK, resources, call
<1>14. ASSUME NEW a \in Accounts, ApplyHealth(a) PROVE Holding'
  BY <1>14 DEF ApplyHealth, Holding, FleetTypes, TypeOK, resources, call
<1>15. CASE Tick
  BY <1>15 DEF Tick, Holding, FleetTypes, TypeOK, resources, call
<1>16. CASE UNCHANGED vars
  BY <1>16 DEF vars, Holding
<1> QED BY <1>1, <1>2, <1>3, <1>4, <1>5, <1>6, <1>7, <1>8, <1>9, <1>10, <1>11, <1>12, <1>13, <1>14, <1>15, <1>16 DEF Next, RunStep

\* No step lets an account fall behind its turn.
LEMMA TurnInductive ==
    ASSUME FleetTypes, Holding, InTurn, [Next]_vars
    PROVE  InTurn'
<1>0. passed \in [Accounts -> Nat] /\ Len(lru) \in Nat /\ \A j \in 1..Len(lru) : lru[j] \in Accounts
  BY DEF FleetTypes, TypeOK
<1>a. ASSUME UNCHANGED <<lru, passed>> PROVE InTurn'
  BY <1>a DEF InTurn
<1>b. ASSUME NEW a \in Accounts, lru' = Used(a), passed' = [passed EXCEPT ![a] = 0] PROVE InTurn'
  <2>1. passed' \in [Accounts -> Nat] /\ passed'[a] = 0
    BY <1>0, <1>b
  <2>2. ASSUME NEW c \in Accounts PROVE passed'[c] <= passed[c] + 1 /\ passed'[c] <= passed[c]
    BY <1>0, <1>b
  <2>3. ASSUME NEW j \in 1..FirstOf(lru, {a}) - 1 PROVE passed'[lru[j]] <= passed[lru[j]]
    <3>1. FirstOf(lru, {a}) \in 1..Len(lru)
      BY UsedOrder
    <3>2. j \in 1..Len(lru)
      BY <1>0, <3>1
    <3> QED BY <1>0, <2>2, <3>2
  <2> QED BY <1>b, <2>1, <2>2, <2>3, TurnKept
<1>1. ASSUME NEW r \in Runs, AcquireAny(r) PROVE InTurn'
  <2> DEFINE b == Best(Candidates)
  <2>1. b \in Accounts /\ \A j \in 1..FirstOf(lru, {b}) - 1 : lru[j] \notin Candidates
    BY <1>1, BestFirst DEF AcquireAny, Candidates
  <2>2. lru' = Used(b)
    BY <1>1 DEF AcquireAny, Take
  <2>3. passed' = [a \in Accounts |-> IF a = b THEN 0
                                      ELSE IF a \in Candidates THEN passed[a] + 1 ELSE passed[a]]
    BY <1>1 DEF AcquireAny
  <2> HIDE DEF b
  <2>4. passed' \in [Accounts -> Nat] /\ passed'[b] = 0
    BY <1>0, <2>1, <2>3
  <2>5. ASSUME NEW c \in Accounts
        PROVE  passed'[c] <= passed[c] + 1 /\ (c \notin Candidates => passed'[c] <= passed[c])
    BY <1>0, <2>3
  <2>6. ASSUME NEW j \in 1..FirstOf(lru, {b}) - 1 PROVE passed'[lru[j]] <= passed[lru[j]]
    <3>1. FirstOf(lru, {b}) \in 1..Len(lru)
      BY <2>1, UsedOrder
    <3>2. j \in 1..Len(lru)
      BY <1>0, <3>1
    <3> QED BY <1>0, <2>1, <2>5, <3>2
  <2> QED BY <2>1, <2>2, <2>4, <2>5, <2>6, TurnKept
<1>2. ASSUME NEW r \in Runs, NEW a \in Accounts, AcquirePicked(r, a) PROVE InTurn'
  BY <1>2, <1>b DEF AcquirePicked, Take
<1>3. ASSUME NEW r \in Runs, NEW a \in Accounts, AcquireForced(r, a) PROVE InTurn'
  BY <1>3, <1>a DEF AcquireForced, resources
<1>4. ASSUME NEW r \in Runs, Develop(r) PROVE InTurn'
  BY <1>4, <1>a DEF Develop, resources
<1>5. ASSUME NEW r \in Runs, Attempt(r) PROVE InTurn'
  BY <1>5, <1>a DEF Attempt, resources
<1>6. ASSUME NEW r \in Runs, Retry(r) PROVE InTurn'
  BY <1>6, <1>a DEF Retry, resources
<1>7. ASSUME NEW r \in Runs, Return(r) PROVE InTurn'
  BY <1>7, <1>a DEF Return, resources
<1>8. ASSUME NEW r \in Runs, Again(r) PROVE InTurn'
  BY <1>8, <1>a DEF Again, resources
<1>9. ASSUME NEW r \in Runs, End(r) PROVE InTurn'
  BY <1>9, <1>a DEF End, resources
<1>10. ASSUME NEW r \in Runs, RecordUse(r) PROVE InTurn'
  <2>1. acct[r] \in Accounts
    BY <1>10 DEF RecordUse, Holding
  <2> QED BY <1>10, <1>b, <2>1 DEF RecordUse
<1>11. ASSUME NEW r \in Runs, Release(r) PROVE InTurn'
  BY <1>11, <1>a DEF Release, resources
<1>12. ASSUME NEW r \in Runs, Cancel(r) PROVE InTurn'
  BY <1>12, <1>a DEF Cancel, resources
<1>13. ASSUME NEW a \in Accounts, SetPaused(a) PROVE InTurn'
  BY <1>13, <1>a DEF SetPaused, resources
<1>14. ASSUME NEW a \in Accounts, ApplyHealth(a) PROVE InTurn'
  BY <1>14, <1>a DEF ApplyHealth, resources
<1>15. CASE Tick
  BY <1>15, <1>a DEF Tick, resources
<1>16. CASE UNCHANGED vars
  BY <1>16, <1>a DEF vars, resources
<1> QED BY <1>1, <1>2, <1>3, <1>4, <1>5, <1>6, <1>7, <1>8, <1>9, <1>10, <1>11, <1>12, <1>13, <1>14, <1>15, <1>16 DEF Next, RunStep

\* The rest owed to an account ends with its cooldown or before.
LEMMA RestsInductive ==
    ASSUME FleetTypes, Holding, Rests, [Next]_vars
    PROVE  Rests'
<1>0. cool \in [Accounts -> Nat] /\ refused \in [Accounts -> Nat]
  BY DEF FleetTypes, TypeOK
<1>a. ASSUME UNCHANGED <<cool, refused>> PROVE Rests'
  BY <1>a DEF Rests
<1>1. ASSUME NEW r \in Runs, AcquireAny(r) PROVE Rests'
  BY <1>1, <1>a DEF AcquireAny, Take
<1>2. ASSUME NEW r \in Runs, NEW a \in Accounts, AcquirePicked(r, a) PROVE Rests'
  BY <1>2, <1>a DEF AcquirePicked, Take
<1>3. ASSUME NEW r \in Runs, NEW a \in Accounts, AcquireForced(r, a) PROVE Rests'
  BY <1>3, <1>a DEF AcquireForced, resources
<1>4. ASSUME NEW r \in Runs, Develop(r) PROVE Rests'
  BY <1>4, <1>a DEF Develop, resources
<1>5. ASSUME NEW r \in Runs, Attempt(r) PROVE Rests'
  BY <1>5, <1>a DEF Attempt, resources
<1>6. ASSUME NEW r \in Runs, Retry(r) PROVE Rests'
  BY <1>6, <1>a DEF Retry, resources
<1>7. ASSUME NEW r \in Runs, Return(r) PROVE Rests'
  BY <1>7, <1>0, TimesAssumption DEF Return, Refusals, Cooldown, Rests
<1>8. ASSUME NEW r \in Runs, Again(r) PROVE Rests'
  BY <1>8, <1>a DEF Again, resources
<1>9. ASSUME NEW r \in Runs, End(r) PROVE Rests'
  BY <1>9, <1>a DEF End, resources
<1>10. ASSUME NEW r \in Runs, RecordUse(r) PROVE Rests'
  BY <1>10, <1>a DEF RecordUse, resources
<1>11. ASSUME NEW r \in Runs, Release(r) PROVE Rests'
  BY <1>11, <1>a DEF Release, resources
<1>12. ASSUME NEW r \in Runs, Cancel(r) PROVE Rests'
  BY <1>12, <1>a DEF Cancel, resources
<1>13. ASSUME NEW a \in Accounts, SetPaused(a) PROVE Rests'
  BY <1>13, <1>a DEF SetPaused, resources
<1>14. ASSUME NEW a \in Accounts, ApplyHealth(a) PROVE Rests'
  BY <1>14, <1>0, TimesAssumption DEF ApplyHealth, Cooldown, Rests
<1>15. CASE Tick
  BY <1>15, <1>0 DEF Tick, Down, Rests
<1>16. CASE UNCHANGED vars
  BY <1>16, <1>a DEF vars, resources
<1> QED BY <1>1, <1>2, <1>3, <1>4, <1>5, <1>6, <1>7, <1>8, <1>9, <1>10, <1>11, <1>12, <1>13, <1>14, <1>15, <1>16 DEF Next, RunStep

\* An attempt adds its class to those of the call.
LEMMA AttemptAdded ==
    ASSUME NEW s \in Seq(Classes), NEW c \in Classes, NEW n \in Nat, AllInfra(s, n)
    PROVE  ButLast(Append(s, c), n)
<1> DEFINE t == Append(s, c)
<1>1. t \in Seq(Classes) /\ Len(t) = Len(s) + 1 /\ Len(s) \in Nat /\ \A i \in 1..Len(s) : t[i] = s[i]
  OBVIOUS
<1> HIDE DEF t
<1>2. ASSUME NEW i \in 1..Len(t), i < Len(t) PROVE t[i] = "infrastructure"
  <2>1. i \in 1..Len(s)
    BY <1>1, <1>2
  <2> QED BY <1>1, <2>1 DEF AllInfra
<1> QED BY <1>1, <1>2 DEF AllInfra, ButLast, t

\* A call whose attempts all failed for infrastructure may be retried if one is left.
LEMMA RetryLeft ==
    ASSUME NEW s \in Seq(Classes), NEW n \in Nat, ButLast(s, n), Last(s) = "infrastructure", Len(s) - 1 < n
    PROVE  AllInfra(s, n)
<1>1. Len(s) \in Nat /\ s[Len(s)] = "infrastructure"
  BY DEF Last
<1>2. ASSUME NEW i \in 1..Len(s) PROVE s[i] = "infrastructure"
  BY <1>1 DEF ButLast
<1> QED BY <1>1, <1>2 DEF AllInfra

\* Every step keeps what the attempts of a call look like.
LEMMA RetryingInductive ==
    ASSUME FleetTypes, Retrying, [Next]_vars
    PROVE  Retrying'
<1>0. pc \in [Runs -> {"idle", "call", "attempt", "settle", "between", "use", "free"}]
      /\ seen \in [Runs -> Seq(Classes)]
  BY DEF FleetTypes, TypeOK
<1>a. ASSUME UNCHANGED <<pc, seen>> PROVE Retrying'
  BY <1>a DEF Retrying
<1>b. ASSUME NEW r \in Runs, NEW q \in {"idle", "call", "between", "use", "free"},
             pc[r] \notin {"attempt", "settle"}, pc' = [pc EXCEPT ![r] = q], UNCHANGED seen
      PROVE  Retrying'
  BY <1>0, <1>b DEF Retrying
<1>1. ASSUME NEW r \in Runs, AcquireAny(r) PROVE Retrying'
  BY <1>1, <1>b DEF AcquireAny, Start, call
<1>2. ASSUME NEW r \in Runs, NEW a \in Accounts, AcquirePicked(r, a) PROVE Retrying'
  BY <1>2, <1>b DEF AcquirePicked, Start, call
<1>3. ASSUME NEW r \in Runs, NEW a \in Accounts, AcquireForced(r, a) PROVE Retrying'
  BY <1>3, <1>b DEF AcquireForced, Start, call
<1>4. ASSUME NEW r \in Runs, Develop(r) PROVE Retrying'
  <2>1. seen[r] = <<>> /\ pc' = [pc EXCEPT ![r] = "attempt"] /\ seen' = seen
    BY <1>4 DEF Develop, Retrying
  <2>2. AllInfra(<<>>, MaxInfraRetries)
    BY TimesAssumption DEF AllInfra
  <2> QED BY <1>0, <2>1, <2>2 DEF Retrying
<1>5. ASSUME NEW r \in Runs, Attempt(r) PROVE Retrying'
  <2>1. PICK o \in Clean \cup Failed : seen' = [seen EXCEPT ![r] = Append(@, Classify(r, o))]
    BY <1>5 DEF Attempt
  <2>2. pc' = [pc EXCEPT ![r] = "settle"] /\ seen[r] \in Seq(Classes) /\ AllInfra(seen[r], MaxInfraRetries)
    BY <1>5, <1>0 DEF Attempt, Retrying
  <2>3. ButLast(Append(seen[r], Classify(r, o)), MaxInfraRetries)
    BY <2>2, AttemptAdded, ClassifyTyped, TimesAssumption
  <2> QED BY <1>0, <2>1, <2>2, <2>3 DEF Retrying
<1>6. ASSUME NEW r \in Runs, Retry(r) PROVE Retrying'
  <2>1. pc[r] = "settle" /\ pc' = [pc EXCEPT ![r] = "attempt"] /\ seen' = seen
    BY <1>6 DEF Retry, call
  <2>2. Last(seen[r]) = "infrastructure" /\ Len(seen[r]) - 1 < MaxInfraRetries
    BY <1>6 DEF Retry, Retryable, class, retries
  <2>3. seen[r] \in Seq(Classes) /\ ButLast(seen[r], MaxInfraRetries)
    BY <1>0, <2>1 DEF Retrying
  <2>4. AllInfra(seen[r], MaxInfraRetries)
    BY <2>2, <2>3, RetryLeft, TimesAssumption
  <2> QED BY <1>0, <2>1, <2>4 DEF Retrying
<1>7. ASSUME NEW r \in Runs, Return(r) PROVE Retrying'
  <2>1. pc' = [pc EXCEPT ![r] = "between"] /\ seen' = [seen EXCEPT ![r] = <<>>]
    BY <1>7 DEF Return
  <2> QED BY <1>0, <2>1 DEF Retrying
<1>8. ASSUME NEW r \in Runs, Again(r) PROVE Retrying'
  BY <1>8, <1>b DEF Again, call
<1>9. ASSUME NEW r \in Runs, End(r) PROVE Retrying'
  <2>1. (IF force[r] THEN "idle" ELSE "use") \in {"idle", "use"}
    OBVIOUS
  <2> QED BY <1>9, <1>b, <2>1 DEF End
<1>10. ASSUME NEW r \in Runs, RecordUse(r) PROVE Retrying'
  BY <1>10, <1>b DEF RecordUse, call
<1>11. ASSUME NEW r \in Runs, Release(r) PROVE Retrying'
  BY <1>11, <1>b DEF Release, call
<1>12. ASSUME NEW r \in Runs, Cancel(r) PROVE Retrying'
  BY <1>12, <1>a DEF Cancel, call
<1>13. ASSUME NEW a \in Accounts, SetPaused(a) PROVE Retrying'
  BY <1>13, <1>a DEF SetPaused, call
<1>14. ASSUME NEW a \in Accounts, ApplyHealth(a) PROVE Retrying'
  BY <1>14, <1>a DEF ApplyHealth, call
<1>15. CASE Tick
  BY <1>15, <1>a DEF Tick, call
<1>16. CASE UNCHANGED vars
  BY <1>16, <1>a DEF vars, call
<1> QED BY <1>1, <1>2, <1>3, <1>4, <1>5, <1>6, <1>7, <1>8, <1>9, <1>10, <1>11, <1>12, <1>13, <1>14, <1>15, <1>16 DEF Next, RunStep

-----------------------------------------------------------------------------
(* The theorems.                                                            *)

\* The invariant holds at the start.
LEMMA FleetInit == Init => FleetInv
<1> SUFFICES ASSUME Init PROVE FleetInv
  OBVIOUS
<1>1. lru = IdOrder /\ IdOrder \in Seq(Accounts) /\ Range(IdOrder) = Accounts
  BY FleetAssumption DEF Init, Accounts
<1>2. FleetTypes
  BY <1>1, TimesAssumption DEF Init, FleetTypes, TypeOK
<1>3. InTurn
  <2>1. ASSUME NEW k \in 1..Len(lru) PROVE passed[lru[k]] + k <= Len(lru)
    <3>1. lru[k] \in Accounts /\ Len(lru) \in Nat
      BY <1>1
    <3> QED BY <3>1 DEF Init
  <2> QED BY <2>1 DEF InTurn
<1>4. Holding /\ Retrying /\ Rests
  BY DEF Init, Holding, Retrying, Rests
<1> QED BY <1>2, <1>3, <1>4 DEF FleetInv

\* The invariant is inductive.
LEMMA FleetNext == FleetInv /\ [Next]_vars => FleetInv'
BY TypesInductive, HoldingInductive, TurnInductive, RestsInductive, RetryingInductive DEF FleetInv

\* resource.Manager and runtime.Worker keep their types, for every set of accounts and runs.
THEOREM FleetTyped == Spec => []TypeOK
<1>1. FleetInv => TypeOK
  BY DEF FleetInv, FleetTypes
<1> QED BY <1>1, FleetInit, FleetNext, PTL DEF Spec

\* Manager.Reserve rotates: with any number of accounts, automatic selection passes an available
\* one over less often than there are accounts, and Worker.Develop retries infrastructure failures
\* only, at most MaxInfraRetries times.
THEOREM FleetIsSound == Spec => []FleetSound
<1>1. FleetInv => FleetSound
  <2> SUFFICES ASSUME FleetInv PROVE FleetSound
    OBVIOUS
  <2>0. FleetTypes /\ InTurn /\ Retrying
    BY DEF FleetInv
  <2>1. RotationFair
    <3>1. ASSUME NEW a \in Accounts PROVE passed[a] < Len(IdOrder)
      <4>1. Range(lru) = Accounts /\ Len(lru) = Len(IdOrder) /\ lru \in Seq(Accounts) /\ passed[a] \in Nat
        BY <2>0 DEF FleetTypes, TypeOK
      <4>2. PICK k \in 1..Len(lru) : lru[k] = a
        BY <4>1 DEF Range
      <4>3. passed[a] + k <= Len(lru) /\ Len(lru) \in Nat
        BY <2>0, <4>1, <4>2 DEF InTurn
      <4> QED BY <4>1, <4>3
    <3> QED BY <3>1 DEF RotationFair
  <2>2. OnlyInfraRetried
    <3>1. ASSUME NEW r \in Runs
          PROVE  /\ Len(seen[r]) <= MaxInfraRetries + 1
                 /\ \A i \in 1..Len(seen[r]) : i < Len(seen[r]) => seen[r][i] = "infrastructure"
      <4>1. seen[r] \in Seq(Classes) /\ Len(seen[r]) \in Nat
        BY <2>0 DEF FleetTypes, TypeOK
      <4>2. CASE pc[r] \notin {"attempt", "settle"}
        BY <2>0, <4>2, TimesAssumption DEF Retrying
      <4>3. CASE pc[r] = "attempt"
        BY <2>0, <4>1, <4>3, TimesAssumption DEF Retrying, AllInfra
      <4>4. CASE pc[r] = "settle"
        BY <2>0, <4>1, <4>4, TimesAssumption DEF Retrying, ButLast
      <4> QED BY <4>2, <4>3, <4>4
    <3> QED BY <3>1 DEF OnlyInfraRetried
  <2> QED BY <2>1, <2>2 DEF FleetSound
<1> QED BY <1>1, FleetInit, FleetNext, PTL DEF Spec

\* An account its provider refused is not reserved again, automatically or by the operator, before
\* the cooldown Worker.Develop gave it is over or the poller has replaced it.
THEOREM RefusedAccountsRest == Spec => RefusedRests
<1> DEFINE Rest == \A a \in Accounts : reservedBy[a] = None /\ reservedBy'[a] # None => refused[a] = 0
<1>1. ASSUME FleetInv, [Next]_vars PROVE [Rest]_vars
  <2>0. FleetTypes /\ Rests /\ Holding
    BY <1>1 DEF FleetInv
  <2>a. cool \in [Accounts -> Nat] /\ refused \in [Accounts -> Nat] /\ reservedBy \in [Accounts -> Runs \cup {None}]
    BY <2>0 DEF FleetTypes, TypeOK
  <2>b. ASSUME NEW c \in Candidates, NEW r, reservedBy' = [reservedBy EXCEPT ![c] = r] PROVE Rest
    <3>1. c \in Accounts /\ cool[c] = 0 /\ refused[c] <= cool[c]
      BY <2>0, <2>b, CandidateRested DEF Rests
    <3>2. refused[c] = 0
      BY <2>a, <3>1
    <3> QED BY <2>a, <2>b, <3>2
  <2>c. ASSUME UNCHANGED reservedBy PROVE Rest
    BY <2>c
  <2> HIDE DEF Rest
  <2>1. ASSUME NEW r \in Runs, AcquireAny(r) PROVE Rest
    <3>1. Best(Candidates) \in Candidates
      BY <2>1, <2>0, BestFirst DEF AcquireAny
    <3> QED BY <2>1, <3>1, <2>b DEF AcquireAny, Take
  <2>2. ASSUME NEW r \in Runs, NEW a \in Accounts, AcquirePicked(r, a) PROVE Rest
    BY <2>2, <2>b DEF AcquirePicked, Take
  <2>3. ASSUME NEW r \in Runs, NEW a \in Accounts, AcquireForced(r, a) PROVE Rest
    BY <2>3, <2>c DEF AcquireForced, resources
  <2>4. ASSUME NEW r \in Runs, Develop(r) PROVE Rest
    BY <2>4, <2>c DEF Develop, resources
  <2>5. ASSUME NEW r \in Runs, Attempt(r) PROVE Rest
    BY <2>5, <2>c DEF Attempt, resources
  <2>6. ASSUME NEW r \in Runs, Retry(r) PROVE Rest
    BY <2>6, <2>c DEF Retry, resources
  <2>7. ASSUME NEW r \in Runs, Return(r) PROVE Rest
    BY <2>7, <2>c DEF Return, resources
  <2>8. ASSUME NEW r \in Runs, Again(r) PROVE Rest
    BY <2>8, <2>c DEF Again, resources
  <2>9. ASSUME NEW r \in Runs, End(r) PROVE Rest
    BY <2>9, <2>c DEF End, resources
  <2>10. ASSUME NEW r \in Runs, RecordUse(r) PROVE Rest
    BY <2>10, <2>c DEF RecordUse, resources
  <2>11. ASSUME NEW r \in Runs, Release(r) PROVE Rest
    <3>1. reservedBy' = [reservedBy EXCEPT ![acct[r]] = None]
      BY <2>11 DEF Release
    <3> QED BY <2>a, <3>1 DEF Rest
  <2>12. ASSUME NEW r \in Runs, Cancel(r) PROVE Rest
    BY <2>12, <2>c DEF Cancel, resources
  <2>13. ASSUME NEW a \in Accounts, SetPaused(a) PROVE Rest
    BY <2>13, <2>c DEF SetPaused, resources
  <2>14. ASSUME NEW a \in Accounts, ApplyHealth(a) PROVE Rest
    BY <2>14, <2>c DEF ApplyHealth, resources
  <2>15. CASE Tick
    BY <2>15, <2>c DEF Tick, resources
  <2> QED BY <1>1, <2>1, <2>2, <2>3, <2>4, <2>5, <2>6, <2>7, <2>8, <2>9, <2>10, <2>11, <2>12, <2>13, <2>14, <2>15 DEF Next, RunStep
<1>2. FleetInv /\ [Next]_vars => [Rest]_vars
  BY <1>1
<1> QED BY <1>2, FleetInit, FleetNext, PTL DEF Spec, RefusedRests
=============================================================================
