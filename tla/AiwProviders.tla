----------------------------- MODULE AiwProviders -----------------------------
(***************************************************************************)
(* The provider registry of internal/aiworkspace (providerstore.go): a     *)
(* list in providers.json and, in the OS keychain, the keys its accounts   *)
(* refer to.  Every command runs in its request's goroutine and loads the  *)
(* whole list, changes its copy and saves it; the mutex is held by load    *)
(* and by save, not between them, and the keychain is called in between.   *)
(*                                                                         *)
(* Names, URLs, priorities and models are left out: what a command that    *)
(* only changes those does here is to save the list it loaded.             *)
(***************************************************************************)
EXTENDS Naturals, Sequences, FiniteSets, Lists

LOCAL INSTANCE Functions

CONSTANTS
    Requests,       \* requests served at the same time
    Ids,            \* provider IDs
    AccountIds,     \* account IDs
    None,
    Local,          \* the providers whose kind needs no key (authNone)
    MaxOps,         \* bound on commands
    MaxFaults       \* bound on failed saves and crashes

VARIABLES
    file,       \* providers.json
    keychain,   \* <<provider, account>> of every key stored
    req,        \* what each request is at
    ops, faults,
    inStep      \* history: no two commands overlapped, no save failed, no crash

vars == <<file, keychain, req, ops, faults, inStep>>

Providers == [id : Ids, enabled : BOOLEAN, isDefault : BOOLEAN, lastTestOK : BOOLEAN,
              accounts : SUBSET AccountIds, keyed : SUBSET AccountIds]

TypeOK ==
    /\ Range(file) \subseteq Providers /\ keychain \subseteq Ids \X AccountIds
    /\ DOMAIN req = Requests /\ ops \in 0..MaxOps /\ faults \in 0..MaxFaults
    /\ inStep \in BOOLEAN

Idle == [pc |-> "idle"]

Init ==
    /\ file = <<>> /\ keychain = {} /\ req = [t \in Requests |-> Idle]
    /\ ops = 0 /\ faults = 0 /\ inStep = TRUE

-----------------------------------------------------------------------------
(* What a command makes of the list it loaded. *)

Listed(ps) == {ps[i].id : i \in DOMAIN ps}

\* find
Find(ps, id) == CHOOSE i \in DOMAIN ps : ps[i].id = id

\* The first enabled provider becomes the default.
PromoteFirst(ps) ==
    IF \E i \in DOMAIN ps : ps[i].enabled
    THEN [ps EXCEPT ![CHOOSE i \in DOMAIN ps :
                         ps[i].enabled /\ \A j \in 1..(i - 1) : ~ps[j].enabled].isDefault = TRUE]
    ELSE ps

\* anyDefault
AnyDefault(ps) == \E i \in DOMAIN ps : ps[i].isDefault

\* add: the first provider added becomes the default.
Added(ps, id) ==
    Append(ps, [id |-> id, enabled |-> TRUE, isDefault |-> ps = <<>>, lastTestOK |-> FALSE,
                accounts |-> {}, keyed |-> {}])

\* remove: another default is promoted if none is left.
Removed(ps, id) ==
    LET rest == Kept(ps, {i \in DOMAIN ps : ps[i].id # id})
    IN IF AnyDefault(rest) THEN rest ELSE PromoteFirst(rest)

\* setDefault: an unknown ID leaves none.
Defaulted(ps, id) == [i \in DOMAIN ps |-> [ps[i] EXCEPT !.isDefault = ps[i].id = id]]

\* setEnabled with the old default left in place.
EnabledKeeping(ps, id, on) ==
    IF id \notin Listed(ps) THEN ps
    ELSE LET qs == [ps EXCEPT ![Find(ps, id)].enabled = on]
         IN IF ~on /\ ps[Find(ps, id)].isDefault THEN PromoteFirst(qs) ELSE qs

\* setEnabled: disabling the default moves it to the first enabled provider.
Enabled(ps, id, on) ==
    IF id \notin Listed(ps) THEN ps
    ELSE LET qs == [ps EXCEPT ![Find(ps, id)].enabled = on]
         IN IF ~on /\ ps[Find(ps, id)].isDefault
            THEN PromoteFirst([qs EXCEPT ![Find(ps, id)].isDefault = FALSE]) ELSE qs

\* addAccount and updateAccount: SecretRef is set if a key was given.
WithAccount(ps, id, a, key) ==
    [ps EXCEPT ![Find(ps, id)].accounts = @ \cup {a},
               ![Find(ps, id)].keyed = IF key THEN @ \cup {a} ELSE @]

\* removeAccount
WithoutAccount(ps, id, a) ==
    [ps EXCEPT ![Find(ps, id)].accounts = @ \ {a}, ![Find(ps, id)].keyed = @ \ {a}]

\* The keychain entries a list refers to.
Refs(ps) == UNION {{ps[i].id} \X ps[i].keyed : i \in DOMAIN ps}

-----------------------------------------------------------------------------
(* Requests. *)

Begin(t) ==
    /\ req[t].pc = "idle" /\ ops < MaxOps /\ ops' = ops + 1
    /\ inStep' = (inStep /\ \A u \in Requests : req[u].pc = "idle")
    /\ UNCHANGED <<file, keychain, faults>>

\* load, then the change to the copy; put and del are the keychain calls it makes.
Goes(t, ps, put, del) == req' = [req EXCEPT ![t] = [pc |-> "key", ps |-> ps, put |-> put, del |-> del]]

\* aiw.provider.add, .update, .remove, .setDefault, .enable
ProviderCommand(t) ==
    /\ Begin(t)
    /\ \E id \in Ids :
          \/ id \notin Listed(file) /\ Goes(t, Added(file, id), {}, {})
          \/ id \in Listed(file) /\ Goes(t, file, {}, {})                    \* update
          \/ Goes(t, Removed(file, id), {}, {r \in Refs(file) : r[1] = id})
          \/ Goes(t, Defaulted(file, id), {}, {})
          \/ \E on \in BOOLEAN : Goes(t, Enabled(file, id, on), {}, {})

\* The key of a removed account stays.
NotPurged(id, a) == {}

\* The key of a removed account goes with it.
Purged(id, a) == {<<id, a>>} \cap Refs(file)

\* aiw.account.add, .update, .remove; an unknown provider or account is an error.
AccountCommand(t) ==
    /\ Begin(t)
    /\ \E i \in DOMAIN file, a \in AccountIds :
          LET id == file[i].id IN
          \/ \E key \in BOOLEAN :
                Goes(t, WithAccount(file, id, a, key), IF key THEN {<<id, a>>} ELSE {}, {})
          \/ Goes(t, WithoutAccount(file, id, a), {}, Purged(id, a))

\* aiw.provider.test: the provider is read, the key of its first account resolved
\* (accounts are a set here: any of them may be the first).
TestBegin(t) ==
    /\ Begin(t)
    /\ \E i \in DOMAIN file : \E a \in file[i].accounts \cup {None} :
          req' = [req EXCEPT ![t] = [pc |-> "test", id |-> file[i].id,
                                     key |-> a \in file[i].keyed /\ <<file[i].id, a>> \in keychain]]

\* testConnection: without the key it needs the answer is no.
Answers(id, key) == IF id \in Local \/ key THEN BOOLEAN ELSE {FALSE}

\* recordTest loads the list again; a provider removed meanwhile is left out.
TestRecord(t) ==
    /\ req[t].pc = "test"
    /\ \/ /\ req[t].id \in Listed(file)
          /\ \E ok \in Answers(req[t].id, req[t].key) :
                Goes(t, [file EXCEPT ![Find(file, req[t].id)].lastTestOK = ok], {}, {})
       \/ req[t].id \notin Listed(file) /\ req' = [req EXCEPT ![t] = Idle]
    /\ UNCHANGED <<file, keychain, ops, faults, inStep>>

\* keychainStore and keychainDelete
Keychain(t) ==
    /\ req[t].pc = "key"
    /\ keychain' = (keychain \cup req[t].put) \ req[t].del
    /\ req' = [req EXCEPT ![t] = [pc |-> "save", ps |-> req[t].ps]]
    /\ UNCHANGED <<file, ops, faults, inStep>>

\* keychainStore fails: the command returns and saves nothing.
KeychainFails(t) ==
    /\ req[t].pc = "key" /\ req[t].put # {}
    /\ req' = [req EXCEPT ![t] = Idle]
    /\ UNCHANGED <<file, keychain, ops, faults, inStep>>

\* save: the whole list is replaced.
Save(t) ==
    /\ req[t].pc = "save"
    /\ file' = req[t].ps /\ req' = [req EXCEPT ![t] = Idle]
    /\ UNCHANGED <<keychain, ops, faults, inStep>>

\* The file cannot be written; nobody is told.
SaveFails(t) ==
    /\ req[t].pc = "save" /\ faults < MaxFaults /\ faults' = faults + 1
    /\ req' = [req EXCEPT ![t] = Idle] /\ inStep' = FALSE
    /\ UNCHANGED <<file, keychain, ops>>

\* The process dies; a file it was writing is cut short and reads as an empty list.
Crash ==
    /\ faults < MaxFaults /\ faults' = faults + 1
    /\ \/ UNCHANGED file
       \/ (\E t \in Requests : req[t].pc = "save") /\ file' = <<>>
    /\ req' = [t \in Requests |-> Idle] /\ inStep' = FALSE
    /\ UNCHANGED <<keychain, ops>>

Next ==
    \/ Crash
    \/ \E t \in Requests :
          \/ ProviderCommand(t) \/ AccountCommand(t) \/ TestBegin(t) \/ TestRecord(t)
          \/ Keychain(t) \/ KeychainFails(t) \/ Save(t) \/ SaveFails(t)

Spec == Init /\ [][Next]_vars

-----------------------------------------------------------------------------
(* Properties. *)

\* However commands overlap, fail or are cut off, at most one provider is the
\* default (setDefault, setEnabled and remove keep it so on the copy they save,
\* and a save replaces the list as a whole).
OneDefault == Cardinality({i \in DOMAIN file : file[i].isDefault}) <= 1

\* As long as commands came one after another and their saves succeeded, the
\* keychain holds exactly the keys the registry refers to: none is left behind by
\* remove ("PURGES every account key it held"), none is missing.
KeysInStep == inStep /\ (\A t \in Requests : req[t].pc = "idle") => keychain = Refs(file)

\* Both: the registry is consistent in itself and with the keychain.
ProvidersSound == OneDefault /\ KeysInStep
=============================================================================
