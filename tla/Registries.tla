------------------------------ MODULE Registries ------------------------------
(***************************************************************************)
(* The registries the console edits: repositories (cmd/cwv2/repos.go),     *)
(* rules (rules.go), AI workspaces (workspacestore.go) and sub-projects    *)
(* (projects.go).  Each is a JSON list that a command loads, changes and   *)
(* saves as a whole; a mutex, where there is one, is held by the load and  *)
(* by the save but not between them.  projects.create checks the list at   *)
(* the beginning, writes the new project's folder, and loads the list      *)
(* again to append to it; the router reads it through a cache.             *)
(*                                                                         *)
(* An entry is its name or ID and its Active or Current flag.              *)
(***************************************************************************)
EXTENDS Naturals, Sequences, FiniteSets, Lists

LOCAL INSTANCE Functions

CONSTANTS
    Requests,       \* requests served at the same time
    Ids,            \* names of repositories, IDs of workspaces, slugs; 1..n
    Ports,
    MaxOps,         \* bound on commands
    MaxFaults       \* bound on crashes and failed steps

VARIABLES
    file,       \* repos-registry.json, rules-registry.json, aiw-workspaces.json
    projects,   \* projects.json
    dirs,       \* the ~/.cw-<slug> folders
    cache,      \* projectRouter.cache
    req,        \* what each request is at
    ops, faults,
    misled,     \* history: nextID repeated itself, or setCurrent named an unknown workspace
    overlapped  \* history: two projects.create overlapped, or a crash cut projects.json short

vars == <<file, projects, dirs, cache, req, ops, faults, misled, overlapped>>

Stores == {"repos", "rules", "workspaces"}
Entries == [id : Nat, on : BOOLEAN]

TypeOK ==
    /\ \A s \in Stores : Range(file[s]) \subseteq Entries
    /\ Range(projects) \subseteq [slug : Ids, port : Ports] /\ Range(cache) \subseteq [slug : Ids, port : Ports]
    /\ dirs \subseteq Ids /\ DOMAIN req = Requests
    /\ ops \in 0..MaxOps /\ faults \in 0..MaxFaults /\ misled \in BOOLEAN /\ overlapped \in BOOLEAN

Idle == [pc |-> "idle"]

\* The first start seeds the repositories from the configuration, all active,
SeedRepos == <<[id |-> 1, on |-> TRUE]>>

\* and the rules with the defaults.
SeedRules == <<[id |-> 1, on |-> TRUE]>>

Init ==
    /\ file = [repos |-> SeedRepos, rules |-> SeedRules, workspaces |-> <<>>]
    /\ projects = <<>> /\ dirs = {} /\ cache = <<>>
    /\ req = [t \in Requests |-> Idle] /\ ops = 0 /\ faults = 0
    /\ misled = FALSE /\ overlapped = FALSE

-----------------------------------------------------------------------------
(* Changes to a loaded list. *)

Listed(es) == {es[i].id : i \in DOMAIN es}
Without(es, x) == Kept(es, {i \in DOMAIN es : es[i].id # x})
Set(es, x, on) == [i \in DOMAIN es |-> IF es[i].id = x THEN [es[i] EXCEPT !.on = on] ELSE es[i]]

\* repoStore.add, remove, setActive; the name of a repository is taken once.
RepoChanges(es) ==
    {Append(es, [id |-> x, on |-> TRUE]) : x \in Ids \ Listed(es)}
        \cup {Without(es, x) : x \in Ids} \cup {Set(es, x, on) : x \in Ids, on \in BOOLEAN}

\* uniqueRuleID: the slug of the title, or its first free number.
UniqueRuleID(es) == CHOOSE n \in 1..(Len(es) + 1) : n \notin Listed(es) /\ \A k \in 1..(n - 1) : k \in Listed(es)

\* ruleStore.add, update, setActive, remove
RuleChanges(es) ==
    {Append(es, [id |-> UniqueRuleID(es), on |-> TRUE])}
        \cup {Without(es, x) : x \in Listed(es)} \cup {Set(es, x, on) : x \in Listed(es), on \in BOOLEAN}

\* workspaceStore.add: the first one is current; nextID repeats every millisecond.
WithWorkspace(es, x) == Append(es, [id |-> x, on |-> es = <<>>])

\* workspaceStore.remove without another one made current.
RemovedOnly(es, x) == Without(es, x)

\* workspaceStore.remove: the first one left takes over from the current.
Removed(es, x) ==
    LET rest == Without(es, x) IN
    IF rest # <<>> /\ \E i \in DOMAIN es : es[i].id = x /\ es[i].on
    THEN [rest EXCEPT ![1].on = TRUE] ELSE rest

\* workspaceStore.setCurrent: an unknown ID leaves none.
CurrentIs(es, x) == [i \in DOMAIN es |-> [es[i] EXCEPT !.on = es[i].id = x]]

\* workspaceStore.update keeps Current and changes nothing else that is modelled.
WorkspaceChanges(es) ==
    {WithWorkspace(es, x) : x \in Ids} \cup {Removed(es, x) : x \in Ids}
        \cup {CurrentIs(es, x) : x \in Ids} \cup {es}

-----------------------------------------------------------------------------
(* Commands on the three lists. *)

Begin(t) == req[t].pc = "idle" /\ ops < MaxOps /\ ops' = ops + 1
Goes(t, r) == req' = [req EXCEPT ![t] = r]

\* load and the change to the copy
Change(t, s, changes) ==
    /\ Begin(t)
    /\ \E es \in changes :
          /\ Goes(t, [pc |-> "save", store |-> s, es |-> es])
          /\ misled' = (misled \/ Cardinality(Listed(es)) < Len(es)
                               \/ (s = "workspaces" /\ es # <<>> /\ \E x \in Ids \ Listed(es) : es = CurrentIs(file[s], x)))
    /\ UNCHANGED <<file, projects, dirs, cache, faults, overlapped>>

Command(t) ==
    \/ Change(t, "repos", RepoChanges(file.repos))
    \/ Change(t, "rules", RuleChanges(file.rules))
    \/ Change(t, "workspaces", WorkspaceChanges(file.workspaces))

\* save
Save(t) ==
    /\ req[t].pc = "save"
    /\ file' = [file EXCEPT ![req[t].store] = req[t].es]
    /\ Goes(t, Idle)
    /\ UNCHANGED <<projects, dirs, cache, ops, faults, misled, overlapped>>

-----------------------------------------------------------------------------
(* projects.create and the router. *)

Creating(t) == req[t].pc \in {"scaffold", "register"}

\* The checks: no folder of that name, no registered project of that slug or port.
CreateBegin(t) ==
    /\ Begin(t)
    /\ \E x \in Ids \ dirs, p \in Ports :
          /\ \A i \in DOMAIN projects : projects[i].slug # x /\ projects[i].port # p
          /\ Goes(t, [pc |-> "scaffold", slug |-> x, port |-> p])
    /\ overlapped' = (overlapped \/ \E u \in Requests : Creating(u))
    /\ UNCHANGED <<file, projects, dirs, cache, faults, misled>>

\* Folder, configuration, secrets, run.sh and the launchd file.
Scaffold(t) ==
    /\ req[t].pc = "scaffold"
    /\ dirs' = dirs \cup {req[t].slug}
    /\ Goes(t, [req[t] EXCEPT !.pc = "register"])
    /\ UNCHANGED <<file, projects, cache, ops, faults, misled, overlapped>>

\* One of them cannot be written: the project is given up and what there is of it stays.
ScaffoldFails(t) ==
    /\ req[t].pc = "scaffold" /\ faults < MaxFaults /\ faults' = faults + 1
    /\ dirs' \in {dirs, dirs \cup {req[t].slug}}
    /\ Goes(t, Idle)
    /\ UNCHANGED <<file, projects, cache, ops, misled, overlapped>>

\* The list is loaded again, appended to and written; the service is started.
Register(t) ==
    /\ req[t].pc = "register"
    /\ projects' = Append(projects, [slug |-> req[t].slug, port |-> req[t].port])
    /\ Goes(t, Idle)
    /\ UNCHANGED <<file, dirs, cache, ops, faults, misled, overlapped>>

\* projectRouter.entries, when the cache is five seconds old.
Route ==
    /\ cache # projects /\ cache' = projects
    /\ UNCHANGED <<file, projects, dirs, req, ops, faults, misled, overlapped>>

\* The process dies; a list that was being written is cut short and reads as none.
Crash ==
    /\ faults < MaxFaults /\ faults' = faults + 1
    /\ req' = [t \in Requests |-> Idle] /\ cache' = <<>>
    /\ \/ UNCHANGED <<file, projects, overlapped>>
       \/ \E t \in Requests :
             \/ /\ req[t].pc = "save" /\ file' = [file EXCEPT ![req[t].store] = <<>>]
                /\ UNCHANGED <<projects, overlapped>>
             \/ req[t].pc = "register" /\ projects' = <<>> /\ overlapped' = TRUE /\ UNCHANGED file
    /\ UNCHANGED <<dirs, ops, misled>>

Next ==
    \/ Route \/ Crash
    \/ \E t \in Requests : \/ Command(t) \/ Save(t) \/ CreateBegin(t) \/ Scaffold(t)
                           \/ ScaffoldFails(t) \/ Register(t)

Spec == Init /\ [][Next]_vars

-----------------------------------------------------------------------------
(* Properties. *)

Distinct(s, Key(_)) == \A i, j \in DOMAIN s : Key(s[i]) = Key(s[j]) => i = j

\* However commands overlap or are cut off, a repository and a rule are listed
\* once; exactly one workspace is current as long as there is any, no ID was repeated
\* and setCurrent was given known ones; and the router sends no two projects to one port and none to a slug
\* without a folder, as long as no two were created at the same time and no crash
\* emptied the list.
RegistriesSound ==
    /\ Distinct(file.repos, LAMBDA e : e.id) /\ Distinct(file.rules, LAMBDA e : e.id)
    /\ ~misled /\ file.workspaces # <<>> => Cardinality({i \in DOMAIN file.workspaces : file.workspaces[i].on}) = 1
    /\ ~overlapped => Distinct(cache, LAMBDA e : e.slug) /\ Distinct(cache, LAMBDA e : e.port)
    /\ \A i \in DOMAIN cache : cache[i].slug \in dirs
=============================================================================
