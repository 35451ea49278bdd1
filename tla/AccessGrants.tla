----------------------------- MODULE AccessGrants -----------------------------
(***************************************************************************)
(* Access grants (cmd/cwv2/access.go) and access requests                  *)
(* (accessrequests.go).  A run that fails for lack of access raises a      *)
(* request; the operator denies it, or allows it, which grants a folder,   *)
(* drops the request and retries the issue.  allow holds its mutex while   *)
(* it reads the request and again while it drops it, not in between; both  *)
(* stores save their file before they release theirs.                      *)
(***************************************************************************)
EXTENDS Naturals, FiniteSets

CONSTANTS
    Operators,      \* requests of the console served at the same time
    Issues,
    Paths,          \* folders that exist
    Unusable,       \* what else may be asked for: URLs, placeholders, missing folders
    DefaultGrant,   \* the project folder
    None,
    TTL,            \* onceGrantTTL in ticks
    MaxRaised,      \* bound on requests raised
    MaxOps,         \* bound on commands
    MaxFaults       \* bound on crashes

VARIABLES
    grants,     \* access-grants.json: path -> None or [scope, age]
    reqs,       \* issue -> the pending request; access-requests.json holds the same
    op,         \* what each operator's allow is at
    retries,    \* the requests whose issue was retried
    raised, ops, faults,
    denied,     \* history: requests denied or replaced by a newer one of their issue
    lost,       \* history: requests an allow of an older one dropped, or a crash
    standing    \* history: paths granted "always" and not changed since

store == <<grants, reqs, raised>>
history == <<denied, lost, standing>>
vars == <<store, op, retries, ops, faults, history>>

Requests == [id : 1..MaxRaised, kind : {"access", "approval"}, resource : Paths \cup Unusable \cup {None}]

TypeOK ==
    /\ grants \in [Paths -> [scope : {"always", "once"}, age : 0..(TTL + 1)] \cup {None}]
    /\ reqs \in [Issues -> Requests \cup {None}] /\ DOMAIN op = Operators
    /\ retries \subseteq 1..MaxRaised /\ denied \subseteq 1..MaxRaised /\ lost \subseteq 1..MaxRaised
    /\ standing \subseteq Paths

Idle == [pc |-> "idle"]

Init ==
    /\ grants = [p \in Paths |-> None] /\ reqs = [i \in Issues |-> None] /\ raised = 0
    /\ op = [t \in Operators |-> Idle] /\ retries = {} /\ ops = 0 /\ faults = 0
    /\ denied = {} /\ lost = {} /\ standing = {}

Pending(i) == IF reqs[i] = None THEN {} ELSE {reqs[i].id}
Goes(t, r) == op' = [op EXCEPT ![t] = r]
Command == ops < MaxOps /\ ops' = ops + 1

-----------------------------------------------------------------------------
(* grantStore. *)

\* Scope and age do not matter: everything old expires.
ExpiredByAge(g) == g # None /\ g.age > TTL

\* grantExpired
Expired(g) == g # None /\ g.scope = "once" /\ g.age > TTL

\* load: the expired are dropped and the file rewritten.
Pruned(g) == [p \in Paths |-> IF Expired(g[p]) THEN None ELSE g[p]]

\* add, and the load it ends with: a path granted before gets the new scope and
\* starts anew.
Granted(g, p, scope) == Pruned([g EXCEPT ![p] = [scope |-> scope, age |-> 0]])

\* access.add
GrantAdd ==
    /\ Command
    /\ \E p \in Paths, scope \in {"always", "once"} :
          /\ grants' = Granted(grants, p, scope)
          /\ standing' = IF scope = "always" THEN standing \cup {p} ELSE standing \ {p}
    /\ UNCHANGED <<reqs, raised, op, retries, faults, denied, lost>>

\* access.remove
GrantRemove ==
    /\ Command
    /\ \E p \in Paths : grants' = Pruned([grants EXCEPT ![p] = None]) /\ standing' = standing \ {p}
    /\ UNCHANGED <<reqs, raised, op, retries, faults, denied, lost>>

\* access.list, and activePaths for every worker prompt
Load ==
    /\ grants' = Pruned(grants) /\ grants' # grants
    /\ UNCHANGED <<reqs, raised, op, retries, ops, faults, history>>

-----------------------------------------------------------------------------
(* accessRequestStore. *)

\* add, from a run that failed: one pending request per issue.
Raise(i) ==
    /\ raised < MaxRaised /\ raised' = raised + 1
    /\ \E kind \in {"access", "approval"}, r \in Paths \cup Unusable \cup {None} :
          reqs' = [reqs EXCEPT ![i] = [id |-> raised', kind |-> kind, resource |-> r]]
    /\ denied' = denied \cup Pending(i)
    /\ UNCHANGED <<grants, op, retries, ops, faults, lost, standing>>

\* access.request.deny
Deny(i) ==
    /\ Command
    /\ reqs' = [reqs EXCEPT ![i] = None] /\ denied' = denied \cup Pending(i)
    /\ UNCHANGED <<grants, raised, op, retries, faults, lost, standing>>

\* The folder to grant: the picked one, else what was asked for, else the project's.
Folder(r, picked) ==
    IF picked # None THEN picked ELSE IF r.resource # None THEN r.resource ELSE DefaultGrant

\* access.request.allow: without a pending request it is an error.
AllowBegin(t, i) ==
    /\ op[t].pc = "idle" /\ Command /\ reqs[i] # None
    /\ \E picked \in Paths \cup Unusable \cup {None} :
          Goes(t, IF reqs[i].kind = "approval" THEN [pc |-> "drop", issue |-> i, id |-> reqs[i].id]
                  ELSE [pc |-> "grant", issue |-> i, id |-> reqs[i].id, path |-> Folder(reqs[i], picked)])
    /\ UNCHANGED <<store, retries, faults, history>>

\* The request is dropped before its folder is granted.
DropAndGrant(t) ==
    /\ op[t].pc = "grant"
    /\ reqs' = [reqs EXCEPT ![op[t].issue] = None]
    /\ \/ /\ op[t].path \in Paths
          /\ grants' = Granted(grants, op[t].path, "always") /\ standing' = standing \cup {op[t].path}
          /\ Goes(t, [pc |-> "drop", issue |-> op[t].issue, id |-> op[t].id])
       \/ op[t].path \notin Paths /\ Goes(t, Idle) /\ UNCHANGED <<grants, standing>>
    /\ UNCHANGED <<raised, retries, ops, faults, denied, lost>>

\* The folder is granted for good; what is no folder is an error and leaves the
\* request as it is.
Grant(t) ==
    /\ op[t].pc = "grant"
    /\ \/ /\ op[t].path \in Paths
          /\ grants' = Granted(grants, op[t].path, "always") /\ standing' = standing \cup {op[t].path}
          /\ Goes(t, [pc |-> "drop", issue |-> op[t].issue, id |-> op[t].id])
       \/ op[t].path \notin Paths /\ Goes(t, Idle) /\ UNCHANGED <<grants, standing>>
    /\ UNCHANGED <<reqs, raised, retries, ops, faults, denied, lost>>

\* The issue's request is dropped, a newer one than was read included.
Drop(t) ==
    /\ op[t].pc = "drop"
    /\ reqs' = [reqs EXCEPT ![op[t].issue] = None]
    /\ lost' = lost \cup (Pending(op[t].issue) \ {op[t].id})
    /\ Goes(t, [pc |-> "retry", id |-> op[t].id])
    /\ UNCHANGED <<grants, raised, retries, ops, faults, denied, standing>>

\* o.Retry
Retry(t) ==
    /\ op[t].pc = "retry"
    /\ retries' = retries \cup {op[t].id} /\ Goes(t, Idle)
    /\ UNCHANGED <<store, ops, faults, history>>

-----------------------------------------------------------------------------

Tick ==
    /\ \E p \in Paths : grants[p] # None /\ grants[p].age <= TTL
    /\ grants' = [p \in Paths |-> IF grants[p] = None \/ grants[p].age > TTL THEN grants[p]
                                  ELSE [grants[p] EXCEPT !.age = @ + 1]]
    /\ UNCHANGED <<reqs, raised, op, retries, ops, faults, history>>

Interrupted == {op[t].id : t \in {u \in Operators : op[u].pc = "retry"}}

\* The process dies; requests are loaded again, an allow past its drop is not
\* repeated, and a file that was being written reads as empty.
Crash ==
    /\ faults < MaxFaults /\ faults' = faults + 1
    /\ op' = [t \in Operators |-> Idle]
    /\ \/ lost' = lost \cup Interrupted /\ UNCHANGED <<grants, standing, reqs>>
       \/ /\ \E t \in Operators : op[t].pc = "grant" /\ op[t].path \in Paths
          /\ grants' = [p \in Paths |-> None] /\ standing' = {}
          /\ lost' = lost \cup Interrupted /\ UNCHANGED reqs
       \/ /\ \E t \in Operators : op[t].pc = "drop"
          /\ reqs' = [i \in Issues |-> None]
          /\ lost' = lost \cup Interrupted \cup UNION {Pending(i) : i \in Issues}
          /\ UNCHANGED <<grants, standing>>
    /\ UNCHANGED <<raised, retries, ops, denied>>

Next ==
    \/ GrantAdd \/ GrantRemove \/ Load \/ Tick \/ Crash
    \/ \E i \in Issues : Raise(i) \/ Deny(i) \/ \E t \in Operators : AllowBegin(t, i)
    \/ \E t \in Operators : Grant(t) \/ Drop(t) \/ Retry(t)

Spec == Init /\ [][Next]_vars

-----------------------------------------------------------------------------
(* Properties. *)

\* No request is forgotten ("what lets the platform NOT dead-end"): it is pending,
\* denied or replaced, or its issue is being or was retried; an older allow that
\* drops a newer request and a crash before the retry are the exceptions.  And a
\* folder granted "always" stays granted until an operator changes it, however
\* other grants expire meanwhile.
AccessKept ==
    /\ \A n \in 1..raised :
          \/ n \in denied \cup lost \cup retries
          \/ \E i \in Issues : n \in Pending(i)
          \/ \E t \in Operators : op[t].pc = "retry" /\ op[t].id = n
    /\ \A p \in standing : grants[p] # None
=============================================================================
