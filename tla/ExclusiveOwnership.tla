------------------------- MODULE ExclusiveOwnership -------------------------
(***************************************************************************)
(* What the Lease Manager promises its clients: every lease identity has   *)
(* at most one owner, an owner gains it only when nobody has it or by      *)
(* being handed it, and any number of owners may lose what they own at     *)
(* once (expiry, release, or a crash of the process holding the grants).   *)
(***************************************************************************)
CONSTANTS Owners, Ids

VARIABLE holders    \* holders[id]: the owners that may act under lease id

Init == holders = [id \in Ids |-> {}]

\* A free lease is granted to o.
Take(o, id) ==
    /\ holders[id] = {}
    /\ holders' = [holders EXCEPT ![id] = {o}]

\* The owner of a lease passes it on.
HandOver(from, to, id) ==
    /\ holders[id] = {from}
    /\ holders' = [holders EXCEPT ![id] = {to}]

\* Grants end; none begins.
Lapse ==
    holders' \in {h \in [Ids -> SUBSET Owners] : \A id \in Ids : h[id] \subseteq holders[id]}

Next ==
    \/ \E o \in Owners, id \in Ids : Take(o, id)
    \/ \E from, to \in Owners, id \in Ids : HandOver(from, to, id)
    \/ Lapse

Spec == Init /\ [][Next]_holders
=============================================================================
