---------------------------- MODULE LeaseManager ----------------------------
(***************************************************************************)
(* internal/lease: time-bounded ownership over a durable store.            *)
(*                                                                         *)
(* A record's ExpiresAt is kept as the time left until it, so Active(now)  *)
(* (now strictly before ExpiresAt) is left > 0 and the passing of time     *)
(* decrements every record.  `held` is what the callers of the Manager     *)
(* have in hand: the time left on the Lease value the last grant returned. *)
(* Every operation that writes runs under Manager.mu, so it is one action. *)
(***************************************************************************)
EXTENDS Naturals

CONSTANTS
    Owners,     \* issue keys (one caller per key: the orchestrator's in-flight guard)
    Ids,        \* lease identities "<kind>/<resource>"
    Files,      \* base names in the store directory
    FileName,   \* fileName: identity -> base name
    TTL,        \* default TTL of the identity's kind
    ReqTTL,     \* TTLs a Request or Renew may ask for; 0 asks for the default
    NoLease     \* no record in the file

ASSUME FileNameAssumption ==
    /\ FileName \in [Ids -> Files]
    /\ \A a, b \in Ids : FileName[a] = FileName[b] => a = b
ASSUME TTLAssumption ==
    /\ TTL \in [Ids -> Nat \ {0}]
    /\ ReqTTL \subseteq Nat
ASSUME NoLeaseAssumption ==
    NoLease \notin [owner : Owners, left : Nat, renewable : BOOLEAN]

VARIABLES
    store,      \* the FileStore: base name -> Lease record
    held        \* held[o][id]: time left on the Lease value o was handed, 0 if none

vars == <<store, held>>

Lease == [owner : Owners, left : Nat, renewable : BOOLEAN]

TypeOK ==
    /\ store \in [Files -> Lease \cup {NoLease}]
    /\ held \in [Owners -> [Ids -> Nat]]

Init ==
    /\ store = [f \in Files |-> NoLease]
    /\ held = [o \in Owners |-> [id \in Ids |-> 0]]

-----------------------------------------------------------------------------
\* As if ownership never lapsed (a permanent lock).
PermanentActive(l) == l # NoLease

\* Lease.Active
Active(l) == l # NoLease /\ l.left > 0

\* ttl <= 0 selects ttlFor(kind)
TtlFor(id, ttl) == IF ttl = 0 THEN TTL[id] ELSE ttl

\* FileStore.Load
Load(id) == store[FileName[id]]

\* FileStore.Save: temp file, fsync, rename - one atomic replacement of the record.
Save(id, l) == store' = [store EXCEPT ![FileName[id]] = l]

Hand(o, id, left) == held' = [held EXCEPT ![o][id] = left]

\* Manager.Validate
Validate(o, id) == Active(Load(id)) /\ Load(id).owner = o

\* A caller acts under the lease it was handed until that lease runs out.
ActsUnder(o, id) == held[o][id] > 0

-----------------------------------------------------------------------------
\* Acquire of a lease already ours and active: the existing record, not extended.
AcquireOwn(o, id) ==
    /\ Validate(o, id)
    /\ Hand(o, id, Load(id).left)
    /\ UNCHANGED store

\* As if expiry were tested one unit early.
EarlyExpired(id) == ~(Load(id) # NoLease /\ Load(id).left > 1)

FreeOrExpired(id) == ~Active(Load(id))

\* Acquire of a free or expired lease.
AcquireFree(o, id, ttl, renewable) ==
    /\ FreeOrExpired(id)
    /\ Save(id, [owner |-> o, left |-> TtlFor(id, ttl), renewable |-> renewable])
    /\ Hand(o, id, TtlFor(id, ttl))

\* Acquire while another owner's lease is active: the caller learns it has no lease.
AcquireDenied(o, id) ==
    /\ Active(Load(id)) /\ Load(id).owner # o
    /\ Hand(o, id, 0)
    /\ UNCHANGED store

Renew(o, id, ttl) ==
    /\ Validate(o, id)
    /\ Load(id).renewable
    /\ Save(id, [Load(id) EXCEPT !.left = TtlFor(id, ttl)])
    /\ Hand(o, id, TtlFor(id, ttl))

\* As if Release did not compare the owner.
ReleaseAnyones(o, id) ==
    /\ Load(id) # NoLease
    /\ Save(id, NoLease)
    /\ Hand(o, id, 0)

\* Release: the record goes if it is the caller's (expired or not); a failing Delete leaves
\* it in place.  Either way the caller stops using the lease.
ReleaseDelete(o, id) ==
    /\ Load(id) # NoLease /\ Load(id).owner = o
    /\ Save(id, NoLease)
    /\ Hand(o, id, 0)

ReleaseKeep(o, id) ==
    /\ Hand(o, id, 0)
    /\ UNCHANGED store

\* Transfer by the owner: the target is handed a lease with the kind's default TTL.
Transfer(from, to, id) ==
    /\ Validate(from, id)
    /\ Save(id, [owner |-> to, left |-> TTL[id], renewable |-> Load(id).renewable])
    /\ held' = [o \in Owners |->
                  IF o = to THEN [held[o] EXCEPT ![id] = TTL[id]]
                  ELSE IF o = from THEN [held[o] EXCEPT ![id] = 0]
                  ELSE held[o]]

\* Reap deletes expired records; it stops at the first Delete that fails.
Reap ==
    \E S \in SUBSET {f \in Files : store[f] # NoLease /\ ~Active(store[f])} :
        /\ store' = [f \in Files |-> IF f \in S THEN NoLease ELSE store[f]]
        /\ UNCHANGED held

-----------------------------------------------------------------------------
\* Time passes (also while the process is down).
Tick ==
    /\ store' = [f \in Files |->
                   IF store[f] # NoLease /\ store[f].left > 0
                   THEN [store[f] EXCEPT !.left = @ - 1] ELSE store[f]]
    /\ held' = [o \in Owners |-> [id \in Ids |->
                   IF held[o][id] > 0 THEN held[o][id] - 1 ELSE 0]]

\* The process dies and restarts: the grants in memory are gone, the files are not.
Crash ==
    /\ held' = [o \in Owners |-> [id \in Ids |-> 0]]
    /\ UNCHANGED store

Next ==
    \/ \E o \in Owners, id \in Ids :
         \/ AcquireOwn(o, id)
         \/ \E ttl \in ReqTTL, r \in BOOLEAN : AcquireFree(o, id, ttl, r)
         \/ AcquireDenied(o, id)
         \/ \E ttl \in ReqTTL : Renew(o, id, ttl)
         \/ ReleaseDelete(o, id)
         \/ ReleaseKeep(o, id)
         \/ \E to \in Owners : Transfer(o, to, id)
    \/ Reap
    \/ Tick
    \/ Crash

Spec == Init /\ [][Next]_vars

-----------------------------------------------------------------------------
\* A caller whose Lease value has not run out is the owner on record for at least as long
\* (Manager.Validate, "the check the engine uses before acting on a leased resource").
HeldIsBacked ==
    \A o \in Owners, id \in Ids :
        ActsUnder(o, id) => Validate(o, id) /\ held[o][id] <= Load(id).left

\* No two owners act under the same lease at once, whatever the expiries, renewals,
\* transfers, reaps and crashes in between (leaseID: exactly one active lease per pair).
MutualExclusion ==
    \A o1, o2 \in Owners, id \in Ids :
        ActsUnder(o1, id) /\ ActsUnder(o2, id) => o1 = o2

Inv == TypeOK /\ HeldIsBacked

\* The Manager implements exclusive ownership: the holders of an identity are the callers
\* acting under it.
Holders == [id \in Ids |-> {o \in Owners : ActsUnder(o, id)}]
Ownership == INSTANCE ExclusiveOwnership WITH holders <- Holders
ImplementsOwnership == Ownership!Spec

\* Fairness for reclamation: the clock advances.
LiveSpec ==
    /\ Spec
    /\ WF_vars(Tick)

\* A lease whose owner no longer acts under it (a crash, a failed Delete) becomes free
\* without anyone releasing it, unless that owner takes it up again.
Abandoned(o, id) == Validate(o, id) /\ ~ActsUnder(o, id)
Reclaimed ==
    \A o \in Owners, id \in Ids :
        Abandoned(o, id) ~> (FreeOrExpired(id) \/ Load(id).owner # o \/ ActsUnder(o, id))
=============================================================================
