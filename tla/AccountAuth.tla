------------------------------ MODULE AccountAuth ------------------------------
(***************************************************************************)
(* Sign-in of the accounts (cmd/cwv2/accountauth.go): the cached login     *)
(* status, the login sessions (a CLI process that waits for a code the     *)
(* operator pastes) and logout.  The status page, the health loop and the  *)
(* operator's commands call it concurrently; the CLIs take their time, so  *)
(* every call of one is a step of its own, outside the locks.              *)
(***************************************************************************)
EXTENDS Naturals

CONSTANTS
    Accounts,
    Requests,       \* concurrent requests
    None,
    MaxLogins,      \* bound on login sessions
    MaxOps          \* bound on requests

VARIABLES
    signedIn,   \* what the CLI's own config directory holds
    cache,      \* accountAuth.cache: None or the login state of each account
    pending,    \* accountAuth.pending
    proc,       \* the CLI process of each session
    owner,      \* the account of each session
    th,         \* the requests
    ops,
    lapsed,     \* history: accounts signed out behind the cache's back
    late,       \* history: was the cache filled by a probe an invalidate overtook?
    untracked   \* history: sessions killed before they had a process, or whose
                \* entry another session's submitCode deleted

vars == <<signedIn, cache, pending, proc, owner, th, ops, lapsed, late, untracked>>

Sessions == 1..MaxLogins
Used == {s \in Sessions : proc[s] # "none"}

TypeOK ==
    /\ signedIn \subseteq Accounts /\ lapsed \subseteq Accounts /\ late \in BOOLEAN
    /\ cache \in {None} \cup SUBSET Accounts
    /\ pending \in [Accounts -> Sessions \cup {None}]
    /\ proc \in [Sessions -> {"none", "registered", "running", "dead"}]
    /\ owner \in [Sessions -> Accounts \cup {None}]
    /\ DOMAIN th = Requests /\ untracked \subseteq Sessions /\ ops \in 0..MaxOps

Init ==
    /\ signedIn \in SUBSET Accounts /\ cache = None
    /\ pending = [a \in Accounts |-> None]
    /\ proc = [s \in Sessions |-> "none"] /\ owner = [s \in Sessions |-> None]
    /\ th = [t \in Requests |-> None] /\ ops = 0
    /\ lapsed = {} /\ late = FALSE /\ untracked = {}

At(t, pc) == th[t] # None /\ th[t].pc = pc
Goes(t, r) == th' = [th EXCEPT ![t] = r]
Begins(t, r) == th[t] = None /\ ops < MaxOps /\ ops' = ops + 1 /\ Goes(t, r)

-----------------------------------------------------------------------------
(* Status. *)

\* statusAll without a fresh cache starts to probe.  `overtaken`: an invalidate
\* came since.
StatusAll(t) ==
    /\ cache = None
    /\ Begins(t, [pc |-> "probe", overtaken |-> FALSE])
    /\ UNCHANGED <<signedIn, cache, pending, proc, owner, lapsed, late, untracked>>

\* status of every account; a CLI that fails or times out reads as signed out.
Probe(t) ==
    /\ At(t, "probe")
    /\ \E seen \in SUBSET signedIn :
          Goes(t, [pc |-> "store", seen |-> seen, overtaken |-> th[t].overtaken])
    /\ UNCHANGED <<signedIn, cache, pending, proc, owner, ops, lapsed, late, untracked>>

Store(t) ==
    /\ At(t, "store")
    /\ cache' = th[t].seen /\ late' = th[t].overtaken
    /\ Goes(t, None)
    /\ UNCHANGED <<signedIn, pending, proc, owner, ops, lapsed, untracked>>

\* The cache is 20 s old.
Expire ==
    /\ cache # None /\ cache' = None
    /\ UNCHANGED <<signedIn, pending, proc, owner, th, ops, lapsed, late, untracked>>

\* A session ends on the provider's side.
Lapse(a) ==
    /\ a \in signedIn /\ signedIn' = signedIn \ {a} /\ lapsed' = lapsed \cup {a}
    /\ UNCHANGED <<cache, pending, proc, owner, th, ops, late, untracked>>

\* The stale entries stay.
InvalidateNothing == cache

\* invalidate
Invalidate == None

Overtaken(r) == IF r # None /\ r.pc \in {"probe", "store"} THEN [r EXCEPT !.overtaken = TRUE] ELSE r

\* The request ends with invalidate (submitCode's last look at the status changes nothing).
Invalidates(t) ==
    /\ At(t, "invalidate")
    /\ cache' = Invalidate /\ th' = [u \in Requests |-> IF u = t THEN None ELSE Overtaken(th[u])]
    /\ UNCHANGED <<signedIn, pending, proc, owner, ops, lapsed, late, untracked>>

\* logout: the CLI signs out or fails, then the cache is dropped.
Logout(t, a) ==
    /\ Begins(t, [pc |-> "logout", on |-> a])
    /\ UNCHANGED <<signedIn, cache, pending, proc, owner, lapsed, late, untracked>>

LogoutCLI(t) ==
    /\ At(t, "logout")
    /\ signedIn' \in {signedIn, signedIn \ {th[t].on}}
    /\ Goes(t, [pc |-> "invalidate", on |-> th[t].on])
    /\ UNCHANGED <<cache, pending, proc, owner, ops, lapsed, late, untracked>>

-----------------------------------------------------------------------------
(* Logins. *)

\* kill ends a process that exists and only closes the input of one to come.
Killed(s) == IF s # None /\ proc[s] = "running" THEN [proc EXCEPT ![s] = "dead"] ELSE proc

KillMissed(s) == IF s # None /\ proc[s] = "registered" THEN {s} ELSE {}

\* beginLogin: nothing to do for an account that is signed in.
BeginLogin(t, a) ==
    /\ \/ a \in signedIn /\ Begins(t, None)
       \/ Begins(t, [pc |-> "register", on |-> a])
    /\ UNCHANGED <<signedIn, cache, pending, proc, owner, lapsed, late, untracked>>

\* The session an earlier beginLogin left is forgotten.
LeftAlone(a) == proc

\* The session an earlier beginLogin left is killed.
Superseded(a) == Killed(pending[a])

\* The login session beginLogin allocates: one that was not used before.
NewSession == CHOOSE s \in Sessions : s \notin Used

\* Under the lock: the earlier session is killed and the new one registered.
Register(t) ==
    /\ At(t, "register") /\ Used # Sessions
    /\ LET a == th[t].on IN
       /\ proc' = [Superseded(a) EXCEPT ![NewSession] = "registered"]
       /\ untracked' = untracked \cup KillMissed(pending[a])
       /\ owner' = [owner EXCEPT ![NewSession] = a]
       /\ pending' = [pending EXCEPT ![a] = NewSession]
       /\ Goes(t, [pc |-> "start", of |-> NewSession])
    /\ UNCHANGED <<signedIn, cache, ops, lapsed, late>>

\* cmd.Start; its error leaves the entry behind.  The wait for the URL changes nothing.
Start(t) ==
    /\ At(t, "start")
    /\ \E now \in {"running", "dead"} : proc' = [proc EXCEPT ![th[t].of] = now]
    /\ Goes(t, None)
    /\ UNCHANGED <<signedIn, cache, pending, owner, ops, lapsed, late, untracked>>

\* The login process ends, by itself, by a callback or with the code.
Exits(s) ==
    /\ proc[s] = "running" /\ proc' = [proc EXCEPT ![s] = "dead"]
    /\ signedIn' \in {signedIn, signedIn \cup {owner[s]}}
    /\ lapsed' = IF owner[s] \in signedIn' THEN lapsed \ {owner[s]} ELSE lapsed
    /\ UNCHANGED <<cache, pending, owner, th, ops, late, untracked>>

\* submitCode: without a session, or when its input is closed, an error.
SubmitCode(t, a) ==
    LET s == pending[a] IN
    /\ IF s = None \/ proc[s] = "dead" THEN Begins(t, None) ELSE Begins(t, [pc |-> "wait", on |-> a, of |-> s])
    /\ UNCHANGED <<signedIn, cache, pending, proc, owner, lapsed, late, untracked>>

\* The process has ended: whatever session the account has by now is deleted.
Submitted(t) ==
    /\ At(t, "wait") /\ proc[th[t].of] = "dead"
    /\ LET a == th[t].on IN
       /\ pending' = [pending EXCEPT ![a] = None]
       /\ untracked' = untracked \cup ({pending[a]} \ {None, th[t].of})
       /\ Goes(t, [pc |-> "invalidate", on |-> a])
    /\ UNCHANGED <<signedIn, cache, proc, owner, ops, lapsed, late>>

\* 45 s pass.
SubmitTimeout(t) ==
    /\ At(t, "wait") /\ Goes(t, None)
    /\ UNCHANGED <<signedIn, cache, pending, proc, owner, ops, lapsed, late, untracked>>

\* cancelLogin
CancelLogin(t, a) ==
    /\ Begins(t, None)
    /\ proc' = Killed(pending[a]) /\ untracked' = untracked \cup KillMissed(pending[a])
    /\ pending' = [pending EXCEPT ![a] = None]
    /\ UNCHANGED <<signedIn, cache, owner, lapsed, late>>

Next ==
    \/ Expire
    \/ \E a \in Accounts : Lapse(a)
    \/ \E s \in Sessions : Exits(s)
    \/ \E t \in Requests :
          \/ StatusAll(t) \/ Probe(t) \/ Store(t) \/ Invalidates(t) \/ LogoutCLI(t)
          \/ Register(t) \/ Start(t) \/ Submitted(t) \/ SubmitTimeout(t)
          \/ \E a \in Accounts : Logout(t, a) \/ BeginLogin(t, a) \/ SubmitCode(t, a) \/ CancelLogin(t, a)

Spec == Init /\ [][Next]_vars

-----------------------------------------------------------------------------
(* Properties. *)

\* A login process that runs is the one its account's entry names, so that a code
\* can reach it and cancel and the next login can end it, unless kill came before
\* it had a process or another submitCode deleted its entry.
LoginsTracked ==
    \A s \in Sessions : proc[s] = "running" => pending[owner[s]] = s \/ s \in untracked

\* The status the health loop and the page use does not call an account signed in
\* that a logout signed out, unless the logout has still to drop the cache or a
\* probe that began before it filled the cache after it.
StatusRight ==
    cache # None => \A a \in cache :
        \/ a \in signedIn \/ a \in lapsed \/ late
        \/ \E t \in Requests : At(t, "invalidate") /\ th[t].on = a

\* Both: no login process runs that nothing can end, and no account is shown as signed in
\* that is not.
AuthSound == LoginsTracked /\ StatusRight
=============================================================================
