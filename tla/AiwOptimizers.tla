---------------------------- MODULE AiwOptimizers ----------------------------
(***************************************************************************)
(* RunOptimizer of internal/aiworkspace with the stores it goes through:   *)
(* optimizers.json (optimizerstore.go), loaded and saved as a whole with   *)
(* the mutex released in between; the content-addressed cache (cache.go),  *)
(* whose operations hold their mutex throughout; and the usage log         *)
(* (usage.go).  Requests run side by side.                                 *)
(*                                                                         *)
(* An output is the triple it was computed from.  Put never sets           *)
(* ExpiresAt, so entries do not expire by themselves.                      *)
(***************************************************************************)
EXTENDS Naturals, FiniteSets

CONSTANTS
    Requests,       \* requests served at the same time
    Optimizers,     \* registered optimizers
    Companions,     \* the ones that run in the companion daemon
    Texts,          \* contents
    None,
    CutShort,       \* a blob whose write a crash cut short
    MaxConfig,      \* configurations 0..MaxConfig; 0 is the schema's default
    Overrides,      \* the ones a request may bring along
    MaxOps,         \* bound on commands
    MaxFaults       \* bound on crashes

VARIABLES
    stored,     \* optimizers.json: None for an absent id
    index,      \* cache/index.json
    blobs,      \* cache/blobs
    counters,   \* cache/stats.json
    usage,      \* usage events per optimizer
    req,        \* what each request is at
    ops, faults,
    disabled,   \* history: the optimizers a command disabled
    torn        \* history: indexed keys whose blob a crash cut short

cache == <<index, blobs, counters>>
vars == <<stored, cache, usage, req, ops, faults, disabled, torn>>

Configs == 0..MaxConfig
Keys == Optimizers \X Configs \X Texts
States == [enabled : BOOLEAN, config : Configs \cup {None}, runs : Nat]

TypeOK ==
    /\ stored \in [Optimizers -> States \cup {None}]
    /\ index \in [Keys -> [pinned : BOOLEAN, hits : Nat] \cup {None}]
    /\ blobs \in [Keys -> Keys \cup {None, CutShort}]
    /\ counters \in [hits : Nat, misses : Nat] /\ usage \in [Optimizers -> Nat]
    /\ DOMAIN req = Requests /\ disabled \subseteq Optimizers /\ torn \subseteq Keys

Idle == [pc |-> "idle"]

Init ==
    /\ stored = [o \in Optimizers |-> None]
    /\ index = [k \in Keys |-> None] /\ blobs = [k \in Keys |-> None]
    /\ counters = [hits |-> 0, misses |-> 0] /\ usage = [o \in Optimizers |-> 0]
    /\ req = [t \in Requests |-> Idle] /\ ops = 0 /\ faults = 0
    /\ disabled = {} /\ torn = {}

-----------------------------------------------------------------------------
(* optimizers.json. *)

\* all[id]: the zero value for an absent id.
Entry(m, o) == IF m[o] = None THEN [enabled |-> FALSE, config |-> None, runs |-> 0] ELSE m[o]

\* OptimizersList: an id without stored state is enabled.
ListedEnabled(o) == IF stored[o] = None THEN TRUE ELSE stored[o].enabled

\* mergeConfig over the schema's defaults
Config(o) == IF Entry(stored, o).config = None THEN 0 ELSE Entry(stored, o).config

At(t, pc) == req[t].pc = pc
Goes(t, r) == req' = [req EXCEPT ![t] = r]

Begin(t) == At(t, "idle") /\ ops < MaxOps /\ ops' = ops + 1

\* setEnabled, setConfig: loadAll and the change to the copy.
Configure(t) ==
    /\ Begin(t)
    /\ \E o \in Optimizers :
          \/ \E on \in BOOLEAN :
                /\ Goes(t, [pc |-> "save", all |-> [stored EXCEPT ![o] = [Entry(stored, o) EXCEPT !.enabled = on]]])
                /\ disabled' = IF on THEN disabled \ {o} ELSE disabled \cup {o}
          \/ \E c \in Configs :
                /\ Goes(t, [pc |-> "save", all |-> [stored EXCEPT ![o] = [Entry(stored, o) EXCEPT !.config = c]]])
                /\ UNCHANGED disabled
    /\ UNCHANGED <<stored, cache, usage, faults, torn>>

\* saveAll
SaveAll(t) ==
    /\ At(t, "save")
    /\ stored' = req[t].all /\ Goes(t, Idle)
    /\ UNCHANGED <<cache, usage, ops, faults, disabled, torn>>

-----------------------------------------------------------------------------
(* RunOptimizer. *)

\* The stored configuration, or what the request overlays it with.
RunBegin(t) ==
    /\ Begin(t)
    /\ \E o \in Optimizers, x \in Texts : \E c \in {Config(o)} \cup Overrides :
          Goes(t, [pc |-> "get", opt |-> o, cfg |-> c, text |-> x])
    /\ UNCHANGED <<stored, cache, usage, faults, disabled, torn>>

\* HashKey without the configuration.
KeyOfContent(r) == <<r.opt, 0, r.text>>

\* HashKey("optimizer", id, config, content)
Key(r) == <<r.opt, r.cfg, r.text>>

\* cacheStore.Get: an entry whose blob is gone is dropped and counts as a miss.
Get(t) ==
    LET k == Key(req[t]) IN
    /\ At(t, "get")
    /\ \/ /\ index[k] # None /\ blobs[k] # None
          /\ index' = [index EXCEPT ![k].hits = @ + 1]
          /\ counters' = [counters EXCEPT !.hits = @ + 1]
          /\ Goes(t, Idle)
       \/ /\ index[k] = None \/ blobs[k] = None
          /\ index' = [index EXCEPT ![k] = None]
          /\ counters' = [counters EXCEPT !.misses = @ + 1]
          /\ Goes(t, [req[t] EXCEPT !.pc = "optimize"])
    /\ UNCHANGED <<stored, blobs, usage, ops, faults, disabled, torn>>

\* Optimize: the companion may be absent or fail; what runs in the core answers.
Optimize(t) ==
    /\ At(t, "optimize")
    /\ \E ok \in IF req[t].opt \in Companions THEN BOOLEAN ELSE {TRUE} :
          Goes(t, [pc |-> "record", opt |-> req[t].opt, key |-> Key(req[t]), ok |-> ok,
                   out |-> <<req[t].opt, req[t].cfg, req[t].text>>])
    /\ UNCHANGED <<stored, cache, usage, ops, faults, disabled, torn>>

\* recordRun: loadAll and the new statistics.
RecordLoad(t) ==
    /\ At(t, "record")
    /\ LET o == req[t].opt
           all == [stored EXCEPT ![o] = [Entry(stored, o) EXCEPT !.runs = @ + 1]]
       IN Goes(t, [pc |-> "recorded", opt |-> o, key |-> req[t].key, ok |-> req[t].ok,
                   out |-> req[t].out, all |-> all])
    /\ UNCHANGED <<stored, cache, usage, ops, faults, disabled, torn>>

\* saveAll; an error ends the command.
RecordSave(t) ==
    /\ At(t, "recorded")
    /\ stored' = req[t].all
    /\ Goes(t, IF req[t].ok THEN [pc |-> "bank", opt |-> req[t].opt, key |-> req[t].key, out |-> req[t].out]
               ELSE Idle)
    /\ UNCHANGED <<cache, usage, ops, faults, disabled, torn>>

\* usageStore.record
Bank(t) ==
    /\ At(t, "bank")
    /\ usage' = [usage EXCEPT ![req[t].opt] = @ + 1]
    /\ Goes(t, [pc |-> "put", key |-> req[t].key, out |-> req[t].out])
    /\ UNCHANGED <<stored, cache, ops, faults, disabled, torn>>

\* The cache's mutex: a Put between its two writes keeps the others out.
Locked == \E t \in Requests : At(t, "put_index")

\* cacheStore.Put: the value first,
PutBlob(t) ==
    /\ At(t, "put") /\ ~Locked
    /\ blobs' = [blobs EXCEPT ![req[t].key] = req[t].out]
    /\ Goes(t, [req[t] EXCEPT !.pc = "put_index"])
    /\ UNCHANGED <<stored, index, counters, usage, ops, faults, disabled, torn>>

\* then its entry, which keeps the hits and the pin of the one before.
PutIndex(t) ==
    LET k == req[t].key IN
    /\ At(t, "put_index")
    /\ index' = [index EXCEPT ![k] = IF @ = None THEN [pinned |-> FALSE, hits |-> 0] ELSE @]
    /\ torn' = torn \ {k}
    /\ Goes(t, Idle)
    /\ UNCHANGED <<stored, blobs, counters, usage, ops, faults, disabled>>

-----------------------------------------------------------------------------
(* Commands on the cache. *)

Drop(K) == /\ index' = [k \in Keys |-> IF k \in K THEN None ELSE index[k]]
           /\ blobs' = [k \in Keys |-> IF k \in K THEN None ELSE blobs[k]]
           /\ torn' = torn \ K

\* Clear keeps what is pinned, Expire does not.
ClearOrExpire ==
    /\ ops < MaxOps /\ ops' = ops + 1 /\ ~Locked
    /\ \/ Drop({k \in Keys : index[k] # None /\ ~index[k].pinned})
       \/ \E k \in Keys : index[k] # None /\ Drop({k})
    /\ UNCHANGED <<stored, counters, usage, req, faults, disabled>>

Pin ==
    /\ ops < MaxOps /\ ops' = ops + 1 /\ ~Locked
    /\ \E k \in Keys, on \in BOOLEAN :
          index[k] # None /\ index' = [index EXCEPT ![k].pinned = on]
    /\ UNCHANGED <<stored, blobs, counters, usage, req, faults, disabled, torn>>

\* The process dies; a blob it was writing is cut short.
Crash ==
    /\ faults < MaxFaults /\ faults' = faults + 1
    /\ req' = [t \in Requests |-> Idle]
    /\ \/ UNCHANGED <<blobs, torn>>
       \/ \E t \in Requests :
             /\ At(t, "put") /\ ~Locked
             /\ blobs' = [blobs EXCEPT ![req[t].key] = CutShort]
             /\ torn' = IF index[req[t].key] # None THEN torn \cup {req[t].key} ELSE torn
    /\ UNCHANGED <<stored, index, counters, usage, ops, disabled>>

Next ==
    \/ ClearOrExpire \/ Pin \/ Crash
    \/ \E t \in Requests :
          \/ Configure(t) \/ SaveAll(t) \/ RunBegin(t) \/ (~Locked /\ Get(t)) \/ Optimize(t)
          \/ RecordLoad(t) \/ RecordSave(t) \/ Bank(t) \/ PutBlob(t) \/ PutIndex(t)

Spec == Init /\ [][Next]_vars

-----------------------------------------------------------------------------
(* Properties. *)

\* What the cache would serve for a request is the output of that optimizer, with
\* that configuration, on that text, however runs, configuration changes, clears
\* and crashes interleave.  A crash while a Put overwrites the blob of a key that is
\* already indexed (two runs that both missed) is the one exception.
CacheRight == \A k \in Keys \ torn : ~Locked /\ index[k] # None /\ blobs[k] # None => blobs[k] = k

\* An optimizer nobody disabled is listed as enabled ("Absent ids default to
\* enabled with schema defaults").
EnabledByDefault == \A o \in Optimizers : ~ListedEnabled(o) => o \in disabled
=============================================================================
