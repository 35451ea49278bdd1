----------------------------- MODULE LeaseProofs -----------------------------
(***************************************************************************)
(* For every set of owners, identities and TTLs: the Lease Manager keeps   *)
(* two owners from acting under one lease, and implements exclusive        *)
(* ownership.                                                              *)
(***************************************************************************)
EXTENDS LeaseManager, TLAPS

\* A TTL the Manager computes is a natural number.
LEMMA TtlType ==
    ASSUME NEW id \in Ids, NEW ttl \in ReqTTL
    PROVE  TtlFor(id, ttl) \in Nat
  BY TTLAssumption DEF TtlFor

\* Records and grants keep their types, and every grant in hand is backed by the record
\* (the inductive invariant: mutual exclusion alone is not inductive, a grant that outlives
\* its record would let the next Acquire break it).
THEOREM InvInductive == Spec => []Inv
<1>1. Init => Inv
  BY DEF Init, Inv, TypeOK, HeldIsBacked, ActsUnder
<1>2. Inv /\ [Next]_vars => Inv'
  <2> SUFFICES ASSUME Inv, [Next]_vars
               PROVE  Inv'
    OBVIOUS
  <2> USE FileNameAssumption, TTLAssumption, NoLeaseAssumption
      DEF Inv, TypeOK, HeldIsBacked, ActsUnder, Validate, Active, Load, Lease
  <2>1. ASSUME NEW o \in Owners, NEW id \in Ids, AcquireOwn(o, id)
        PROVE  Inv'
    BY <2>1 DEF AcquireOwn, Hand
  <2>2. ASSUME NEW o \in Owners, NEW id \in Ids, NEW ttl \in ReqTTL, NEW r \in BOOLEAN,
               AcquireFree(o, id, ttl, r)
        PROVE  Inv'
    BY <2>2, TtlType DEF AcquireFree, FreeOrExpired, Save, Hand
  <2>3. ASSUME NEW o \in Owners, NEW id \in Ids, AcquireDenied(o, id)
        PROVE  Inv'
    BY <2>3 DEF AcquireDenied, Hand
  <2>4. ASSUME NEW o \in Owners, NEW id \in Ids, NEW ttl \in ReqTTL, Renew(o, id, ttl)
        PROVE  Inv'
    BY <2>4, TtlType, SMTT(30) DEF Renew, Save, Hand
  <2>5. ASSUME NEW o \in Owners, NEW id \in Ids, ReleaseDelete(o, id)
        PROVE  Inv'
    BY <2>5 DEF ReleaseDelete, Save, Hand
  <2>6. ASSUME NEW o \in Owners, NEW id \in Ids, ReleaseKeep(o, id)
        PROVE  Inv'
    BY <2>6 DEF ReleaseKeep, Hand
  <2>7. ASSUME NEW o \in Owners, NEW to \in Owners, NEW id \in Ids, Transfer(o, to, id)
        PROVE  Inv'
    <3>1. TypeOK'
      <4>1. [owner |-> to, left |-> TTL[id], renewable |-> Load(id).renewable] \in Lease
        BY <2>7 DEF Transfer
      <4>2. QED
        BY <2>7, <4>1 DEF Transfer, Save
    <3>2. ASSUME NEW p \in Owners, NEW j \in Ids, ActsUnder(p, j)'
          PROVE  (Validate(p, j) /\ held[p][j] <= Load(j).left)'
      <4>1. CASE j = id
        <5>1. Load(id)' = [owner |-> to, left |-> TTL[id], renewable |-> Load(id).renewable] /\ Load(id)' # NoLease
          BY <2>7 DEF Transfer, Save
        <5>2. p = to
          BY <2>7, <3>2, <4>1 DEF Transfer
        <5>3. held'[to][id] = TTL[id]
          BY <2>7 DEF Transfer
        <5>4. QED
          BY <4>1, <5>1, <5>2, <5>3, <2>7 DEF Transfer
      <4>2. CASE j # id
        <5>1. Load(j)' = Load(j)
          BY <2>7, <4>2 DEF Transfer, Save
        <5>2. held'[p][j] = held[p][j]
          BY <2>7, <4>2 DEF Transfer
        <5>3. QED
          BY <3>2, <5>1, <5>2
      <4>3. QED
        BY <4>1, <4>2
    <3>3. QED
      BY <3>1, <3>2
  <2>8. CASE Reap
    BY <2>8 DEF Reap
  <2>9. CASE Tick
    <3>1. TypeOK'
      <4>1. ASSUME NEW f \in Files
            PROVE  store'[f] \in Lease \cup {NoLease}
        BY <2>9, SMTT(30) DEF Tick
      <4>2. store' \in [Files -> Lease \cup {NoLease}]
        BY <2>9, <4>1 DEF Tick
      <4>3. held' \in [Owners -> [Ids -> Nat]]
        BY <2>9 DEF Tick
      <4>4. QED
        BY <4>2, <4>3
    <3>2. ASSUME NEW p \in Owners, NEW j \in Ids, ActsUnder(p, j)'
          PROVE  (Validate(p, j) /\ held[p][j] <= Load(j).left)'
      <4>1. held[p][j] \in Nat /\ held'[p][j] = held[p][j] - 1 /\ held[p][j] > 1
        BY <2>9, <3>2 DEF Tick
      <4>2. Load(j) \in Lease /\ Load(j).owner = p /\ held[p][j] <= Load(j).left
        BY <4>1
      <4>3. Load(j)' = [Load(j) EXCEPT !.left = @ - 1]
        BY <2>9, <4>1, <4>2, SMTT(30) DEF Tick
      <4>4. Load(j)' \in Lease /\ Load(j)'.owner = p /\ Load(j)'.left = Load(j).left - 1
        BY <4>1, <4>2, <4>3
      <4>5. QED
        BY <4>1, <4>2, <4>4
    <3>3. QED
      BY <3>1, <3>2
  <2>10. CASE Crash
    BY <2>10 DEF Crash
  <2>11. CASE UNCHANGED vars
    BY <2>11 DEF vars
  <2>12. QED
    BY <2>1, <2>2, <2>3, <2>4, <2>5, <2>6, <2>7, <2>8, <2>9, <2>10, <2>11 DEF Next
<1>3. QED
  BY <1>1, <1>2, PTL DEF Spec

\* No two owners ever act under the same lease at once.
THEOREM LeaseExclusive == Spec => []MutualExclusion
<1>1. Inv => MutualExclusion
  BY DEF Inv, HeldIsBacked, MutualExclusion, Validate
<1>2. QED
  BY <1>1, InvInductive, PTL

\* The owners acting under an identity.
Acting(id) == {o \in Owners : ActsUnder(o, id)}

\* Under the invariant at most the owner on record acts under an identity.
LEMMA ActingBacked ==
    ASSUME Inv, NEW id \in Ids, NEW o \in Owners, o \in Acting(id)
    PROVE  Active(Load(id)) /\ Load(id).owner = o /\ Acting(id) = {o}
  BY DEF Inv, HeldIsBacked, Acting, Validate

\* A step that hands o the lease id and changes nobody else's grants, while nobody else
\* acts under it, is a grant or a loss of the abstract specification.
LEMMA HandRefines ==
    ASSUME TypeOK, NEW o \in Owners, NEW id \in Ids, NEW n \in Nat, Hand(o, id, n),
           n > 0 => Acting(id) \subseteq {o}
    PROVE  [Ownership!Next]_Holders
<1>1. \A p \in Owners, i \in Ids : held'[p][i] = IF p = o /\ i = id THEN n ELSE held[p][i]
  BY DEF Hand, TypeOK
<1>2. CASE n > 0 /\ ~ActsUnder(o, id)
  <2>1. Holders[id] = {}
    BY <1>2 DEF Acting, Holders
  <2>2. Holders' = [Holders EXCEPT ![id] = {o}]
    <3>1. ASSUME NEW i \in Ids PROVE Holders'[i] = [Holders EXCEPT ![id] = {o}][i]
      BY <1>1, <1>2, <2>1 DEF ActsUnder, Holders
    <3>2. QED
      BY <3>1 DEF Holders
  <2>3. Ownership!Take(o, id)
    BY <2>1, <2>2 DEF Ownership!Take
  <2>4. QED
    BY <2>3 DEF Ownership!Next
<1>3. CASE ~(n > 0 /\ ~ActsUnder(o, id))
  <2>1. \A i \in Ids : Holders'[i] \subseteq Holders[i]
    BY <1>1, <1>3 DEF ActsUnder, Holders
  <2>2. Holders' \in [Ids -> SUBSET Owners]
    BY DEF Holders
  <2>3. Ownership!Lapse
    BY <2>1, <2>2 DEF Ownership!Lapse
  <2>4. QED
    BY <2>3 DEF Ownership!Next
<1>4. QED
  BY <1>2, <1>3

\* Every step of the Lease Manager is a step of exclusive ownership or changes no owner.
THEOREM LeaseImplementsOwnership == Spec => ImplementsOwnership
<1>1. Init => Ownership!Init
  BY DEF Init, Ownership!Init, ActsUnder, Holders
<1>2. Inv /\ [Next]_vars => [Ownership!Next]_Holders
  <2> SUFFICES ASSUME Inv, [Next]_vars
               PROVE  [Ownership!Next]_Holders
    OBVIOUS
  <2>0. TypeOK
    BY DEF Inv
  <2>1. ASSUME NEW o \in Owners, NEW id \in Ids, AcquireOwn(o, id)
        PROVE  [Ownership!Next]_Holders
    <3>1. Load(id).left \in Nat /\ Hand(o, id, Load(id).left)
      BY <2>0, <2>1, FileNameAssumption DEF AcquireOwn, TypeOK, Lease, Load, Validate, Active
    <3>2. Acting(id) \subseteq {o}
      BY <2>1, ActingBacked DEF AcquireOwn, Validate, Acting
    <3>3. QED
      BY <2>0, <3>1, <3>2, HandRefines
  <2>2. ASSUME NEW o \in Owners, NEW id \in Ids, NEW ttl \in ReqTTL, NEW r \in BOOLEAN,
               AcquireFree(o, id, ttl, r)
        PROVE  [Ownership!Next]_Holders
    <3>1. Acting(id) = {}
      BY <2>2, ActingBacked DEF AcquireFree, FreeOrExpired, Acting
    <3>2. QED
      BY <2>0, <2>2, <3>1, TtlType, HandRefines DEF AcquireFree
  <2>3. ASSUME NEW o \in Owners, NEW id \in Ids, AcquireDenied(o, id)
        PROVE  [Ownership!Next]_Holders
    BY <2>0, <2>3, HandRefines DEF AcquireDenied
  <2>4. ASSUME NEW o \in Owners, NEW id \in Ids, NEW ttl \in ReqTTL, Renew(o, id, ttl)
        PROVE  [Ownership!Next]_Holders
    <3>1. Acting(id) \subseteq {o}
      BY <2>4, ActingBacked DEF Renew, Validate, Acting
    <3>2. QED
      BY <2>0, <2>4, <3>1, TtlType, HandRefines DEF Renew
  <2>5. ASSUME NEW o \in Owners, NEW id \in Ids, ReleaseDelete(o, id) \/ ReleaseKeep(o, id)
        PROVE  [Ownership!Next]_Holders
    BY <2>0, <2>5, HandRefines DEF ReleaseDelete, ReleaseKeep
  <2>6. ASSUME NEW o \in Owners, NEW to \in Owners, NEW id \in Ids, Transfer(o, to, id)
        PROVE  [Ownership!Next]_Holders
    <3>1. Acting(id) \subseteq {o}
      BY <2>6, ActingBacked DEF Transfer, Validate, Acting
    <3>2. ASSUME NEW i \in Ids
          PROVE  Holders'[i] = IF i = id THEN {to} ELSE Holders[i]
      BY <2>0, <2>6, <3>1, TTLAssumption DEF Transfer, TypeOK, ActsUnder, Acting, Holders
    <3>3. Holders' = [Holders EXCEPT ![id] = {to}]
      BY <3>2 DEF Holders
    <3>4. Holders[id] = {} \/ Holders[id] = {o}
      BY <3>1 DEF Acting, Holders
    <3>5. Ownership!Take(to, id) \/ Ownership!HandOver(o, to, id)
      BY <3>3, <3>4 DEF Ownership!Take, Ownership!HandOver
    <3>6. QED
      BY <3>5 DEF Ownership!Next
  <2>7. CASE Reap
    BY <2>7 DEF Reap, ActsUnder, Holders
  <2>8. CASE Tick \/ Crash
    <3>1. \A i \in Ids : Holders'[i] \subseteq Holders[i]
      BY <2>0, <2>8 DEF Tick, Crash, TypeOK, ActsUnder, Holders
    <3>2. Holders' \in [Ids -> SUBSET Owners]
      BY DEF Holders
    <3>3. QED
      BY <3>1, <3>2 DEF Ownership!Lapse, Ownership!Next
  <2>9. CASE UNCHANGED vars
    BY <2>9 DEF vars, ActsUnder, Holders
  <2>10. QED
    BY <2>1, <2>2, <2>3, <2>4, <2>5, <2>6, <2>7, <2>8, <2>9 DEF Next
<1>3. QED
  BY <1>1, <1>2, InvInductive, PTL DEF Spec, ImplementsOwnership, Ownership!Spec
=============================================================================
