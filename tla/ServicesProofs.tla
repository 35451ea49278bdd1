--------------------------- MODULE ServicesProofs ---------------------------
(***************************************************************************)
(* Invariants of the services beside the pipeline, for every number of     *)
(* requests, operators, items and faults.  In a behaviour of Services one  *)
(* service runs: every theorem finds an inductive invariant of that        *)
(* service's own module and concludes with the lemma that the behaviour is *)
(* one of that module.                                                     *)
(***************************************************************************)
EXTENDS Services, Sequences, Lists, SequenceTheorems, FiniteSetTheorems, NaturalsInduction,
        WellFoundedInduction, TLAPS

-----------------------------------------------------------------------------
(* A behaviour in which a service runs is a behaviour of its module.        *)

\* companion.go: a behaviour in which the companion runs is one of AiwCompanion.
LEMMA CompanionRuns ==
    /\ Init /\ service = "AiwCompanion" => Co!Init
    /\ [Next]_vars /\ (service = "AiwCompanion")' => service = "AiwCompanion" /\ [Co!Next]_Co!vars
  BY DEF Init, Next, vars, common, CoOwn, Co!vars

\* context.go, knowledge.go: a behaviour in which packs and notes are served is one of AiwDocs.
LEMMA DocsRun ==
    /\ Init /\ service = "AiwDocs" => Do!Init
    /\ [Next]_vars /\ (service = "AiwDocs")' => service = "AiwDocs" /\ [Do!Next]_Do!vars
  BY DEF Init, Next, vars, common, DoOwn, Do!vars

\* optimizers.go, cache.go: a behaviour in which the optimizers run is one of AiwOptimizers.
LEMMA OptimizersRun ==
    /\ Init /\ service = "AiwOptimizers" => Op!Init
    /\ [Next]_vars /\ (service = "AiwOptimizers")' => service = "AiwOptimizers" /\ [Op!Next]_Op!vars
  BY DEF Init, Next, vars, common, OpOwn, Op!vars, Op!cache

\* access.go, accessrequests.go: a behaviour in which access is asked for is one of AccessGrants.
LEMMA AccessRuns ==
    /\ Init /\ service = "AccessGrants" => Ac!Init
    /\ [Next]_vars /\ (service = "AccessGrants")' => service = "AccessGrants" /\ [Ac!Next]_Ac!vars
  BY DEF Init, Next, vars, common, AcOwn, Ac!vars, Ac!store, Ac!history

\* ticketchat.go: a behaviour in which the ticket chats run is one of TicketChat.
LEMMA ChatRuns ==
    /\ Init /\ service = "TicketChat" => Ch!Init
    /\ [Next]_vars /\ (service = "TicketChat")' => service = "TicketChat" /\ [Ch!Next]_Ch!vars
  BY DEF Init, Next, vars, common, ChOwn, Ch!vars

\* accountauth.go: a behaviour in which accounts are signed in is one of AccountAuth.
LEMMA AuthRuns ==
    /\ Init /\ service = "AccountAuth" => Au!Init
    /\ [Next]_vars /\ (service = "AccountAuth")' => service = "AccountAuth" /\ [Au!Next]_Au!vars
  BY DEF Init, Next, vars, common, AuOwn, Au!vars

\* scan.go: a behaviour in which the scanner runs is one of AiwScan.
LEMMA ScanRuns ==
    /\ Init /\ service = "AiwScan" => Sc!Init
    /\ [Next]_vars /\ (service = "AiwScan")' => service = "AiwScan" /\ [Sc!Next]_Sc!vars
  BY DEF Init, Next, vars, common, ScOwn, Sc!vars, Sc!stores, Sc!history

\* devicemonitor.go, sentry_sync.go: a behaviour in which faults are filed is one of IssueFiler.
LEMMA FilerRuns ==
    /\ Init /\ service = "IssueFiler" => Fi!Init
    /\ [Next]_vars /\ (service = "IssueFiler")' => service = "IssueFiler" /\ [Fi!Next]_Fi!vars
  BY DEF Init, Next, vars, common, FiOwn, Fi!vars

\* orchestrator.go: a behaviour in which the activity of the tasks is kept is one of TaskActivity.
LEMMA ActivityRuns ==
    /\ Init /\ service = "TaskActivity" => Ta!Init
    /\ [Next]_vars /\ (service = "TaskActivity")' => service = "TaskActivity" /\ [Ta!Next]_Ta!vars
  BY DEF Init, Next, vars, common, TaOwn, Ta!vars

\* providerstore.go: a behaviour in which the providers are served is one of AiwProviders.
LEMMA ProvidersRun ==
    /\ Init /\ service = "AiwProviders" => Pr!Init
    /\ [Next]_vars /\ (service = "AiwProviders")' => service = "AiwProviders" /\ [Pr!Next]_Pr!vars
  BY DEF Init, Next, vars, common, PrOwn, Pr!vars

\* repos.go, rules.go, workspacestore.go, projects.go: a behaviour in which the registries are
\* served is one of Registries.
LEMMA RegistriesRun ==
    /\ Init /\ service = "Registries" => Re!Init
    /\ [Next]_vars /\ (service = "Registries")' => service = "Registries" /\ [Re!Next]_Re!vars
  BY DEF Init, Next, vars, common, ReOwn, Re!vars

\* internal/knowledge: a behaviour in which the Brain runs is one of KnowledgeBrain.
LEMMA KnowledgeRuns ==
    /\ Init /\ service = "KnowledgeBrain" => Kn!Init
    /\ [Next]_vars /\ (service = "KnowledgeBrain")' => service = "KnowledgeBrain" /\ [Kn!Next]_Kn!vars
  BY DEF Init, Next, vars, common, KnOwn, Kn!vars

-----------------------------------------------------------------------------
(* The companion: while no probe overlaps a change of the address, every    *)
(* probe under way carries the configured address, and so does the cached   *)
(* answer unless it is about to be dropped.                                 *)

CompanionInv ==
    /\ DOMAIN req = Clients /\ settled \in BOOLEAN /\ url \in Urls \cup {None}
    /\ \A t \in Clients : req[t].pc = "probe" => req[t] \in [pc : {"probe"}, url : Urls]
    /\ \A t \in Clients : req[t].pc = "seen" => req[t] \in [pc : {"seen"}, url : Urls]
    /\ \A t \in Clients : req[t].pc = "invalidate" => req[t].then \in {"idle", "status"}
    /\ settled => /\ \A t \in Clients :
                        /\ req[t].pc \in {"probe", "seen"} => req[t].url = url
                        /\ req[t].pc = "cache" /\ req[t].is = "present" => req[t].at = url
                  /\ \/ \E t \in Clients : req[t].pc = "invalidate"
                     \/ cached.is = "present" => cached.at = url

\* companion.go: after a connect or disconnect that no probe overlaps, a companion is never shown
\* as present at another address than the configured one, for any number of requests.
THEOREM CompanionShown == Spec => []PresentIsConfigured
<1>1. Co!Init => CompanionInv
  BY DEF Co!Init, Co!Idle, Co!NotCached, CompanionInv
<1>2. CompanionInv /\ [Co!Next]_Co!vars => CompanionInv'
  <2> SUFFICES ASSUME CompanionInv, [Co!Next]_Co!vars PROVE CompanionInv'
    OBVIOUS
  <2> USE DEF CompanionInv, Co!At, Co!Goes
  <2>1. CASE Co!Expire
    BY <2>1 DEF Co!Expire, Co!NotCached
  <2>2. CASE Co!Daemon
    BY <2>2 DEF Co!Daemon
  <2>3. ASSUME NEW t \in Clients, NEW from \in {"idle", "status"}, Co!StatusBegin(t, from)
        PROVE  CompanionInv'
    BY <2>3 DEF Co!StatusBegin
  <2>4. ASSUME NEW t \in Clients, Co!StatusCached(t) PROVE CompanionInv'
    BY <2>4 DEF Co!StatusCached, Co!Idle
  <2>5. ASSUME NEW t \in Clients, Co!Probe(t) PROVE CompanionInv'
    <3>1. CASE Co!Goes(t, [req[t] EXCEPT !.pc = "seen"])
      <4>1. [req[t] EXCEPT !.pc = "seen"] = [pc |-> "seen", url |-> req[t].url] /\ req[t].url \in Urls
        BY <2>5 DEF Co!Probe
      <4> QED BY <2>5, <3>1, <4>1 DEF Co!Probe
    <3>2. CASE Co!Goes(t, [pc |-> "cache", is |-> "absent", at |-> None])
      BY <2>5, <3>2 DEF Co!Probe
    <3> QED BY <2>5, <3>1, <3>2 DEF Co!Probe
  <2>6. ASSUME NEW t \in Clients, Co!Seen(t) PROVE CompanionInv'
    BY <2>6 DEF Co!Seen
  <2>7. ASSUME NEW t \in Clients, Co!SetCache(t) PROVE CompanionInv'
    BY <2>7 DEF Co!SetCache, Co!Idle
  <2>8. ASSUME NEW t \in Clients, Co!Connect(t) PROVE CompanionInv'
    BY <2>8 DEF Co!Connect, Co!Busy
  <2>9. ASSUME NEW t \in Clients, Co!Disconnect(t) PROVE CompanionInv'
    BY <2>9 DEF Co!Disconnect, Co!Busy
  <2>10. ASSUME NEW t \in Clients, Co!Invalidate(t) PROVE CompanionInv'
    BY <2>10 DEF Co!Invalidate, Co!NotCached
  <2>11. CASE UNCHANGED Co!vars
    BY <2>11 DEF Co!vars
  <2> QED BY <2>1, <2>2, <2>3, <2>4, <2>5, <2>6, <2>7, <2>8, <2>9, <2>10, <2>11 DEF Co!Next
<1>3. CompanionInv => Co!PresentIsConfigured
  BY DEF CompanionInv, Co!PresentIsConfigured, Co!At
<1> QED BY <1>1, <1>2, <1>3, CompanionRuns, PTL DEF Spec, PresentIsConfigured

-----------------------------------------------------------------------------
(* Packs and notes: a request between its two writes has written the blob   *)
(* its index entry is going to describe, and is the only one at that item;  *)
(* every other item is described by its entry.                              *)

Between(t, i) == req[t].pc \in {"index", "unindex"} /\ req[t].id = i

Writing(t) ==
    /\ req[t].pc \in {"write", "index"} =>
          /\ req[t] = [pc |-> req[t].pc, id |-> req[t].id, content |-> req[t].content,
                       entry |-> Do!Described(req[t].content)]
          /\ req[t].content # None
    /\ req[t].pc = "index" => blob[req[t].id] = req[t].content
    /\ req[t].pc = "unindex" => blob[req[t].id] = None
    /\ req[t].pc \in {"write", "index", "unindex"} => req[t].id \in Do!Ids

OneBetween == \A i \in Do!Ids : \A t, u \in Clients : Between(t, i) /\ Between(u, i) => t = u

Describes(i) == index[i] = IF blob[i] = None THEN None ELSE Do!Described(blob[i])

DocsInv ==
    /\ DOMAIN req = Clients /\ DOMAIN index = Do!Ids /\ DOMAIN blob = Do!Ids
    /\ \A t \in Clients : Writing(t)
    /\ OneBetween
    /\ \A i \in Do!Ids \ cut : (\A t \in Clients : ~Between(t, i)) => Describes(i)

\* The mutex of a store keeps every request away from its items.
LEMMA FreeItem ==
    ASSUME NEW i \in Do!Ids, Do!Free(i), NEW t \in Clients
    PROVE  ~Between(t, i)
BY DEF Do!Free, Do!Held, Do!Holds, Do!Store, Do!Ids, Between

\* A request that starts has a content to write and its description, and holds nothing yet.
LEMMA DocsBegun ==
    ASSUME DocsInv, NEW t \in Clients, req[t].pc = "idle", NEW i \in Do!Ids, NEW c, c # None,
           req' = [req EXCEPT ![t] = [pc |-> "write", id |-> i, content |-> c, entry |-> Do!Described(c)]],
           UNCHANGED <<index, blob, cut>>
    PROVE  DocsInv'
<1>1. /\ DOMAIN req' = Clients
      /\ req'[t] = [pc |-> "write", id |-> i, content |-> c, entry |-> Do!Described(c)]
      /\ \A u \in Clients : u # t => req'[u] = req[u]
  BY DEF DocsInv
<1>2. \A u \in Clients, j \in Do!Ids : Between(u, j)' <=> Between(u, j)
  BY <1>1 DEF Between
<1>3. ASSUME NEW u \in Clients PROVE Writing(u)'
  <2>1. CASE u = t
    BY <1>1, <2>1 DEF Writing
  <2>2. CASE u # t
    BY <1>1, <2>2 DEF Writing, DocsInv
  <2> QED BY <2>1, <2>2
<1>4. OneBetween'
  BY <1>2 DEF OneBetween, DocsInv
<1>5. \A j \in Do!Ids \ cut : (\A u \in Clients : ~Between(u, j)') => Describes(j)'
  BY <1>2 DEF DocsInv, Describes
<1> QED BY <1>1, <1>3, <1>4, <1>5 DEF DocsInv

\* The second write of a request makes the entry describe the blob, and no other item changes.
LEMMA DocsClosed ==
    ASSUME DocsInv, NEW t \in Clients, NEW i \in Do!Ids, Between(t, i), NEW e,
           e = (IF blob[i] = None THEN None ELSE Do!Described(blob[i])),
           req' = [req EXCEPT ![t] = [pc |-> "idle"]], index' = [index EXCEPT ![i] = e],
           cut' = cut \ {i}, UNCHANGED blob
    PROVE  DocsInv'
<1>1. /\ DOMAIN req' = Clients /\ DOMAIN blob' = Do!Ids /\ DOMAIN index' = Do!Ids
      /\ req'[t] = [pc |-> "idle"] /\ \A u \in Clients : u # t => req'[u] = req[u]
      /\ index'[i] = e /\ \A j \in Do!Ids : j # i => index'[j] = index[j]
  BY DEF DocsInv
<1>2. ASSUME NEW u \in Clients PROVE Writing(u)'
  <2>1. CASE u = t
    BY <1>1, <2>1 DEF Writing
  <2>2. CASE u # t
    BY <1>1, <2>2 DEF Writing, DocsInv
  <2> QED BY <2>1, <2>2
<1>3. OneBetween'
  BY <1>1 DEF OneBetween, Between, DocsInv
<1>4. ASSUME NEW j \in Do!Ids \ cut', \A u \in Clients : ~Between(u, j)' PROVE Describes(j)'
  <2>1. CASE j = i
    BY <1>1, <2>1 DEF Describes
  <2>2. CASE j # i
    <3>1. \A u \in Clients : ~Between(u, j)
      BY <1>1, <1>4, <2>2 DEF Between
    <3> QED BY <1>1, <2>2, <3>1 DEF DocsInv, Describes
  <2> QED BY <2>1, <2>2
<1> QED BY <1>1, <1>2, <1>3, <1>4 DEF DocsInv

\* What index.json says of a pack or a note is true of its content, for every number of requests,
\* packs and notes, crashes between the two writes excepted (context.go, knowledge.go).
THEOREM DocsDescribed ==
    ASSUME \A x, n : [text |-> x, lean |-> n] # None
    PROVE  Spec => []IndexMatchesBlob
<1>1. Do!Init => DocsInv
  BY DEF Do!Init, Do!Idle, DocsInv, Writing, OneBetween, Between, Describes
<1>2. DocsInv /\ [Do!Next]_Do!vars => DocsInv'
  <2> SUFFICES ASSUME DocsInv, [Do!Next]_Do!vars PROVE DocsInv'
    OBVIOUS
  <2>a. ASSUME UNCHANGED <<index, blob, cut, req>> PROVE DocsInv'
    BY <2>a DEF DocsInv, Writing, OneBetween, Between, Describes
  <2>1. CASE Do!Pin
    BY <2>1, <2>a DEF Do!Pin
  <2>2. CASE Do!Edit
    BY <2>2, <2>a DEF Do!Edit
  <2>3. CASE Do!Crash
    <3>1. req' = [t \in Clients |-> [pc |-> "idle"]] /\ UNCHANGED <<index, blob>>
      BY <2>3 DEF Do!Crash, Do!Idle
    <3>2. ASSUME NEW i \in Do!Ids \ cut' PROVE i \notin cut /\ \A t \in Clients : ~Between(t, i)
      BY <2>3 DEF Do!Crash, Do!Holds, Between
    <3>3. \A i \in Do!Ids \ cut' : Describes(i)'
      BY <3>1, <3>2 DEF DocsInv, Describes
    <3>4. \A t \in Clients : Writing(t)'
      BY <3>1 DEF Writing
    <3>5. OneBetween'
      BY <3>1 DEF OneBetween, Between
    <3> QED BY <3>1, <3>3, <3>4, <3>5 DEF DocsInv
  <2>4. ASSUME NEW t \in Clients, Do!Build(t) PROVE DocsInv'
    <3>1. PICK i \in Packs : \E x, n : LET c == [text |-> x, lean |-> n] IN
              Do!Goes(t, [pc |-> "write", id |-> i, content |-> c, entry |-> Do!Described(c)])
      BY <2>4 DEF Do!Build, Do!Applied
    <3>2. PICK x, n : Do!Goes(t, [pc |-> "write", id |-> i, content |-> [text |-> x, lean |-> n],
                                  entry |-> Do!Described([text |-> x, lean |-> n])])
      BY <3>1
    <3> DEFINE c == [text |-> x, lean |-> n]
    <3>3. i \in Do!Ids /\ c # None
      BY DEF Do!Ids
    <3>4. req[t].pc = "idle" /\ UNCHANGED <<index, blob, cut>>
      BY <2>4 DEF Do!Build, Do!Begin, Do!At
    <3>5. Do!Goes(t, [pc |-> "write", id |-> i, content |-> c, entry |-> Do!Described(c)])
      BY <3>2
    <3> HIDE DEF c
    <3> QED BY <3>3, <3>4, <3>5, DocsBegun DEF Do!Goes
  <2>5. ASSUME NEW t \in Clients, Do!Note(t) PROVE DocsInv'
    <3>1. PICK i \in Notes, n \in {0, 1} :
              Do!Goes(t, [pc |-> "write", id |-> i, content |-> [text |-> <<>>, lean |-> n],
                          entry |-> Do!Described([text |-> <<>>, lean |-> n])])
      BY <2>5 DEF Do!Note
    <3> DEFINE c == [text |-> <<>>, lean |-> n]
    <3>2. i \in Do!Ids /\ c # None
      BY DEF Do!Ids
    <3>3. req[t].pc = "idle" /\ UNCHANGED <<index, blob, cut>>
      BY <2>5 DEF Do!Note, Do!Begin, Do!At
    <3>4. Do!Goes(t, [pc |-> "write", id |-> i, content |-> c, entry |-> Do!Described(c)])
      BY <3>1
    <3> HIDE DEF c
    <3> QED BY <3>2, <3>3, <3>4, DocsBegun DEF Do!Goes
  <2>6. ASSUME NEW t \in Clients, Do!WriteBlob(t) PROVE DocsInv'
    <3> DEFINE i == req[t].id
               c == req[t].content
    <3>1. /\ i \in Do!Ids /\ c # None /\ Do!Free(i)
          /\ req[t] = [pc |-> "write", id |-> i, content |-> c, entry |-> Do!Described(c)]
      BY <2>6 DEF Do!WriteBlob, Do!At, DocsInv, Writing
    <3>2. /\ req' = [req EXCEPT ![t] = [pc |-> "index", id |-> i, content |-> c, entry |-> Do!Described(c)]]
          /\ blob' = [blob EXCEPT ![i] = c] /\ UNCHANGED <<index, cut>>
      <4>1. [req[t] EXCEPT !.pc = "index"] = [pc |-> "index", id |-> i, content |-> c, entry |-> Do!Described(c)]
        BY <3>1
      <4> QED BY <2>6, <4>1 DEF Do!WriteBlob, Do!Goes
    <3>3. \A u \in Clients : ~Between(u, i)
      BY <3>1, FreeItem
    <3> HIDE DEF i, c
    <3>4. /\ DOMAIN req' = Clients /\ DOMAIN blob' = Do!Ids /\ DOMAIN index' = Do!Ids
          /\ req'[t] = [pc |-> "index", id |-> i, content |-> c, entry |-> Do!Described(c)]
          /\ \A u \in Clients : u # t => req'[u] = req[u]
          /\ blob'[i] = c /\ \A j \in Do!Ids : j # i => blob'[j] = blob[j]
      BY <3>1, <3>2 DEF DocsInv
    <3>5. ASSUME NEW u \in Clients PROVE Writing(u)'
      <4>1. CASE u = t
        BY <3>1, <3>4, <4>1 DEF Writing
      <4>2. CASE u # t
        BY <3>3, <3>4, <4>2 DEF Writing, Between, DocsInv
      <4> QED BY <4>1, <4>2
    <3>6. OneBetween'
      BY <3>3, <3>4 DEF OneBetween, Between, DocsInv
    <3>7. ASSUME NEW j \in Do!Ids \ cut', \A u \in Clients : ~Between(u, j)' PROVE Describes(j)'
      <4>1. j # i
        BY <3>4, <3>7 DEF Between
      <4>2. \A u \in Clients : ~Between(u, j)
        BY <3>1, <3>4, <3>7 DEF Between, i
      <4> QED BY <3>2, <3>4, <4>1, <4>2 DEF DocsInv, Describes
    <3> QED BY <3>4, <3>5, <3>6, <3>7 DEF DocsInv
  <2>7. ASSUME NEW t \in Clients, Do!WriteIndex(t) PROVE DocsInv'
    <3> DEFINE i == req[t].id
    <3>1. /\ i \in Do!Ids /\ Between(t, i) /\ blob[i] # None /\ req[t].entry = Do!Described(blob[i])
      BY <2>7 DEF Do!WriteIndex, Do!At, DocsInv, Writing, Between
    <3>2. /\ req' = [req EXCEPT ![t] = [pc |-> "idle"]] /\ index' = [index EXCEPT ![i] = Do!Described(blob[i])]
          /\ cut' = cut \ {i} /\ UNCHANGED blob
      BY <2>7, <3>1 DEF Do!WriteIndex, Do!Goes, Do!Idle
    <3> HIDE DEF i
    <3> QED BY <3>1, <3>2, DocsClosed
  <2>8. ASSUME NEW t \in Clients, Do!RemoveBlob(t) PROVE DocsInv'
    <3>1. PICK i \in Do!Ids : /\ Do!Free(i) /\ blob' = [blob EXCEPT ![i] = None]
                              /\ req' = [req EXCEPT ![t] = [pc |-> "unindex", id |-> i]]
                              /\ req[t].pc = "idle" /\ UNCHANGED <<index, cut>>
      BY <2>8 DEF Do!RemoveBlob, Do!Goes, Do!Begin, Do!At
    <3>2. \A u \in Clients : ~Between(u, i)
      BY <3>1, FreeItem
    <3>3. /\ DOMAIN req' = Clients /\ DOMAIN blob' = Do!Ids /\ DOMAIN index' = Do!Ids
          /\ req'[t] = [pc |-> "unindex", id |-> i]
          /\ \A u \in Clients : u # t => req'[u] = req[u]
          /\ blob'[i] = None /\ \A j \in Do!Ids : j # i => blob'[j] = blob[j]
      BY <3>1 DEF DocsInv
    <3>4. ASSUME NEW u \in Clients PROVE Writing(u)'
      <4>1. CASE u = t
        BY <3>1, <3>3, <4>1 DEF Writing
      <4>2. CASE u # t
        BY <3>2, <3>3, <4>2 DEF Writing, Between, DocsInv
      <4> QED BY <4>1, <4>2
    <3>5. OneBetween'
      BY <3>2, <3>3 DEF OneBetween, Between, DocsInv
    <3>6. ASSUME NEW j \in Do!Ids \ cut', \A u \in Clients : ~Between(u, j)' PROVE Describes(j)'
      <4>1. j # i
        BY <3>3, <3>6 DEF Between
      <4>2. \A u \in Clients : ~Between(u, j)
        BY <3>1, <3>3, <3>6 DEF Between
      <4> QED BY <3>1, <3>3, <4>1, <4>2 DEF DocsInv, Describes
    <3> QED BY <3>3, <3>4, <3>5, <3>6 DEF DocsInv
  <2>9. ASSUME NEW t \in Clients, Do!RemoveIndex(t) PROVE DocsInv'
    <3> DEFINE i == req[t].id
    <3>1. i \in Do!Ids /\ Between(t, i) /\ blob[i] = None
      BY <2>9 DEF Do!RemoveIndex, Do!At, DocsInv, Writing, Between
    <3>2. /\ req' = [req EXCEPT ![t] = [pc |-> "idle"]] /\ index' = [index EXCEPT ![i] = None]
          /\ cut' = cut \ {i} /\ UNCHANGED blob
      BY <2>9, <3>1 DEF Do!RemoveIndex, Do!Goes, Do!Idle
    <3> HIDE DEF i
    <3> QED BY <3>1, <3>2, DocsClosed
  <2>10. CASE UNCHANGED Do!vars
    BY <2>10, <2>a DEF Do!vars
  <2> QED BY <2>1, <2>2, <2>3, <2>4, <2>5, <2>6, <2>7, <2>8, <2>9, <2>10 DEF Do!Next
<1>3. DocsInv => Do!IndexMatchesBlob
  <2> SUFFICES ASSUME DocsInv, NEW i \in Do!Ids \ cut, Do!Free(i) PROVE Describes(i)
    BY DEF Do!IndexMatchesBlob, Describes, Do!Free
  <2> QED BY FreeItem DEF DocsInv
<1> QED BY <1>1, <1>2, <1>3, DocsRun, PTL DEF Spec, IndexMatchesBlob

-----------------------------------------------------------------------------
(* The optimizer cache: an output travels with the key it was computed for, *)
(* and an entry is indexed only after its own blob was written.             *)

\* What a request carries on its way to the cache.
Carrying(t) ==
    /\ req[t].pc \in {"record", "recorded", "bank", "put", "put_index"} => req[t].out = req[t].key
    /\ req[t].pc = "get" =>
          req[t] = [pc |-> "get", opt |-> req[t].opt, cfg |-> req[t].cfg, text |-> req[t].text]
    /\ req[t].pc = "put" => req[t] = [pc |-> "put", key |-> req[t].key, out |-> req[t].out]
    /\ req[t].pc = "put_index" /\ req[t].key \in Op!Keys => blobs[req[t].key] = req[t].key

Served(k) == index[k] # None => blobs[k] \in {None, k}

CacheInv ==
    /\ DOMAIN req = Clients /\ DOMAIN index = Op!Keys /\ DOMAIN blobs = Op!Keys
    /\ \A t \in Clients : Carrying(t)
    /\ \A k \in Op!Keys \ torn : Served(k)

\* cache.go: what the cache serves for a key was computed for that optimizer, configuration and
\* text, for every number of requests, optimizers, configurations and texts; the blob of an indexed
\* key that a crash cut short is the exception.
THEOREM CacheServesRight == Spec => []CacheRight
<1>1. Op!Init => CacheInv
  <2> SUFFICES ASSUME Op!Init PROVE CacheInv
    OBVIOUS
  <2>1. /\ req = [t \in Clients |-> [pc |-> "idle"]]
        /\ index = [k \in Op!Keys |-> None] /\ blobs = [k \in Op!Keys |-> None]
    BY DEF Op!Init, Op!Idle
  <2>2. \A t \in Clients : Carrying(t)
    BY <2>1 DEF Carrying
  <2> QED BY <2>1, <2>2 DEF CacheInv, Served
<1>2. CacheInv /\ [Op!Next]_Op!vars => CacheInv'
  <2> SUFFICES ASSUME CacheInv, [Op!Next]_Op!vars PROVE CacheInv'
    OBVIOUS
  <2>a. ASSUME UNCHANGED <<index, blobs, torn>>, DOMAIN req' = Clients, \A t \in Clients : Carrying(t)'
        PROVE  CacheInv'
    BY <2>a DEF CacheInv, Served
  <2>b. ASSUME NEW t \in Clients, NEW r, req' = [req EXCEPT ![t] = r]
        PROVE  DOMAIN req' = Clients /\ req'[t] = r /\ \A u \in Clients : u # t => req'[u] = req[u]
    BY <2>b DEF CacheInv
  \* A step that leaves the blobs alone disturbs only the request that takes it.
  <2>c. ASSUME NEW t \in Clients, NEW r, req' = [req EXCEPT ![t] = r], UNCHANGED blobs,
               r.pc \notin {"put", "put_index"},
               r.pc \in {"record", "recorded", "bank"} => r.out = r.key,
               r.pc = "get" => r = [pc |-> "get", opt |-> r.opt, cfg |-> r.cfg, text |-> r.text]
        PROVE  DOMAIN req' = Clients /\ \A u \in Clients : Carrying(u)'
    <3>1. DOMAIN req' = Clients /\ req'[t] = r /\ \A u \in Clients : u # t => req'[u] = req[u]
      BY <2>b, <2>c
    <3>2. ASSUME NEW u \in Clients PROVE Carrying(u)'
      <4>1. CASE u = t
        BY <2>c, <3>1, <4>1 DEF Carrying
      <4>2. CASE u # t
        BY <2>c, <3>1, <4>2 DEF Carrying, CacheInv
      <4> QED BY <4>1, <4>2
    <3> QED BY <3>1, <3>2
  <2>1. CASE Op!ClearOrExpire
    <3>1. PICK K \in SUBSET Op!Keys : Op!Drop(K)
      BY <2>1 DEF Op!ClearOrExpire
    <3>2. UNCHANGED req /\ \A t \in Clients : req[t].pc # "put_index"
      BY <2>1 DEF Op!ClearOrExpire, Op!Locked, Op!At
    <3>3. \A t \in Clients : Carrying(t)'
      BY <3>2 DEF Carrying, CacheInv
    <3>4. DOMAIN index' = Op!Keys /\ DOMAIN blobs' = Op!Keys /\ \A k \in Op!Keys \ torn' : Served(k)'
      BY <3>1 DEF Op!Drop, CacheInv, Served
    <3> QED BY <3>2, <3>3, <3>4 DEF CacheInv
  <2>2. CASE Op!Pin
    <3>1. PICK k \in Op!Keys : index[k] # None /\ \E v : index' = [index EXCEPT ![k] = v]
      BY <2>2 DEF Op!Pin
    <3>2. UNCHANGED <<req, blobs, torn>>
      BY <2>2 DEF Op!Pin
    <3>3. \A t \in Clients : Carrying(t)'
      BY <3>2 DEF Carrying, CacheInv
    <3> QED BY <3>1, <3>2, <3>3 DEF CacheInv, Served
  <2>3. CASE Op!Crash
    <3>1. req' = [t \in Clients |-> [pc |-> "idle"]] /\ UNCHANGED index
      BY <2>3 DEF Op!Crash, Op!Idle
    <3>2. DOMAIN req' = Clients /\ \A t \in Clients : Carrying(t)'
      BY <3>1 DEF Carrying
    <3>3. CASE UNCHANGED <<blobs, torn>>
      BY <2>a, <3>1, <3>2, <3>3
    <3>4. ASSUME NEW t \in Clients, blobs' = [blobs EXCEPT ![req[t].key] = CutShort],
                 torn' = IF index[req[t].key] # None THEN torn \cup {req[t].key} ELSE torn
          PROVE  CacheInv'
      <4>1. DOMAIN blobs' = Op!Keys /\ \A k \in Op!Keys : k # req[t].key => blobs'[k] = blobs[k]
        BY <3>4 DEF CacheInv
      <4>2. ASSUME NEW k \in Op!Keys \ torn' PROVE Served(k)'
        <5>1. CASE k = req[t].key
          BY <3>1, <3>4, <4>2, <5>1 DEF Served
        <5>2. CASE k # req[t].key
          BY <3>1, <3>4, <4>1, <4>2, <5>2 DEF Served, CacheInv
        <5> QED BY <5>1, <5>2
      <4> QED BY <3>1, <3>2, <4>1, <4>2 DEF CacheInv
    <3> QED BY <2>3, <3>3, <3>4 DEF Op!Crash
  <2>4. ASSUME NEW t \in Clients, Op!Configure(t) PROVE CacheInv'
    <3>1. PICK m : Op!Goes(t, [pc |-> "save", all |-> m])
      BY <2>4 DEF Op!Configure
    <3>2. UNCHANGED <<index, blobs, torn>>
      BY <2>4 DEF Op!Configure, Op!cache
    <3> QED BY <2>a, <2>c, <3>1, <3>2 DEF Op!Goes
  <2>5. ASSUME NEW t \in Clients, Op!SaveAll(t) PROVE CacheInv'
    <3>1. req' = [req EXCEPT ![t] = [pc |-> "idle"]] /\ UNCHANGED <<index, blobs, torn>>
      BY <2>5 DEF Op!SaveAll, Op!cache, Op!Goes, Op!Idle
    <3> QED BY <2>a, <2>c, <3>1
  <2>6. ASSUME NEW t \in Clients, Op!RunBegin(t) PROVE CacheInv'
    <3>1. PICK o, c, x : Op!Goes(t, [pc |-> "get", opt |-> o, cfg |-> c, text |-> x])
      BY <2>6 DEF Op!RunBegin
    <3>2. UNCHANGED <<index, blobs, torn>>
      BY <2>6 DEF Op!RunBegin, Op!cache
    <3> QED BY <2>a, <2>c, <3>1, <3>2 DEF Op!Goes
  <2>7. ASSUME NEW t \in Clients, Op!Get(t) PROVE CacheInv'
    <3> DEFINE k == Op!Key(req[t])
    <3>1. UNCHANGED <<blobs, torn>>
      BY <2>7 DEF Op!Get
    <3>2. CASE index[k] # None /\ (\E v : index' = [index EXCEPT ![k] = v]) /\ Op!Goes(t, Op!Idle)
      <4>1. DOMAIN req' = Clients /\ \A u \in Clients : Carrying(u)'
        BY <2>c, <3>1, <3>2 DEF Op!Goes, Op!Idle
      <4>2. DOMAIN index' = Op!Keys /\ \A j \in Op!Keys : j # k => index'[j] = index[j]
        BY <3>2 DEF CacheInv
      <4>3. ASSUME NEW j \in Op!Keys \ torn' PROVE Served(j)'
        BY <3>1, <3>2, <4>2, <4>3 DEF Served, CacheInv
      <4> QED BY <3>1, <4>1, <4>2, <4>3 DEF CacheInv
    <3>3. CASE index' = [index EXCEPT ![k] = None] /\ Op!Goes(t, [req[t] EXCEPT !.pc = "optimize"])
      <4>0. [req[t] EXCEPT !.pc = "optimize"].pc = "optimize"
        BY <2>7 DEF Op!Get, Op!At, CacheInv, Carrying
      <4>1. DOMAIN req' = Clients /\ \A u \in Clients : Carrying(u)'
        BY <2>c, <3>1, <3>3, <4>0 DEF Op!Goes
      <4>2. DOMAIN index' = Op!Keys /\ \A j \in Op!Keys : index'[j] \in {None, index[j]}
        BY <3>3 DEF CacheInv
      <4>3. ASSUME NEW j \in Op!Keys \ torn' PROVE Served(j)'
        BY <3>1, <4>2, <4>3 DEF Served, CacheInv
      <4> QED BY <3>1, <4>1, <4>2, <4>3 DEF CacheInv
    <3> QED BY <2>7, <3>2, <3>3 DEF Op!Get
  <2>8. ASSUME NEW t \in Clients, Op!Optimize(t) PROVE CacheInv'
    <3>1. PICK ok : Op!Goes(t, [pc |-> "record", opt |-> req[t].opt, key |-> Op!Key(req[t]), ok |-> ok,
                                out |-> <<req[t].opt, req[t].cfg, req[t].text>>])
      BY <2>8 DEF Op!Optimize
    <3>2. UNCHANGED <<index, blobs, torn>>
      BY <2>8 DEF Op!Optimize, Op!cache
    <3>3. Op!Key(req[t]) = <<req[t].opt, req[t].cfg, req[t].text>>
      BY DEF Op!Key
    <3> QED BY <2>a, <2>c, <3>1, <3>2, <3>3 DEF Op!Goes
  <2>9. ASSUME NEW t \in Clients, Op!RecordLoad(t) PROVE CacheInv'
    <3>1. PICK m : Op!Goes(t, [pc |-> "recorded", opt |-> req[t].opt, key |-> req[t].key, ok |-> req[t].ok,
                               out |-> req[t].out, all |-> m])
      BY <2>9 DEF Op!RecordLoad
    <3>2. UNCHANGED <<index, blobs, torn>> /\ req[t].out = req[t].key
      BY <2>9 DEF Op!RecordLoad, Op!cache, Op!At, CacheInv, Carrying
    <3> QED BY <2>a, <2>c, <3>1, <3>2 DEF Op!Goes
  <2>10. ASSUME NEW t \in Clients, Op!RecordSave(t) PROVE CacheInv'
    <3>1. UNCHANGED <<index, blobs, torn>> /\ req[t].out = req[t].key
      BY <2>10 DEF Op!RecordSave, Op!cache, Op!At, CacheInv, Carrying
    <3>2. CASE Op!Goes(t, [pc |-> "bank", opt |-> req[t].opt, key |-> req[t].key, out |-> req[t].out])
      BY <2>a, <2>c, <3>1, <3>2 DEF Op!Goes
    <3>3. CASE Op!Goes(t, [pc |-> "idle"])
      BY <2>a, <2>c, <3>1, <3>3 DEF Op!Goes
    <3> QED BY <2>10, <3>2, <3>3 DEF Op!RecordSave, Op!Idle
  <2>11. ASSUME NEW t \in Clients, Op!Bank(t) PROVE CacheInv'
    <3>1. UNCHANGED <<index, blobs, torn>> /\ req[t].out = req[t].key
      BY <2>11 DEF Op!Bank, Op!cache, Op!At, CacheInv, Carrying
    <3>2. /\ DOMAIN req' = Clients /\ req'[t] = [pc |-> "put", key |-> req[t].key, out |-> req[t].out]
          /\ \A u \in Clients : u # t => req'[u] = req[u]
      BY <2>11, <2>b DEF Op!Bank, Op!Goes
    <3>3. ASSUME NEW u \in Clients PROVE Carrying(u)'
      <4>1. CASE u = t
        <5>1. req'[u].pc = "put" /\ req'[u].key = req[t].key /\ req'[u].out = req[t].out
          BY <3>2, <4>1
        <5> QED BY <3>1, <3>2, <4>1, <5>1 DEF Carrying
      <4>2. CASE u # t
        BY <3>1, <3>2, <4>2 DEF Carrying, CacheInv
      <4> QED BY <4>1, <4>2
    <3> QED BY <2>a, <3>1, <3>2, <3>3
  <2>12. ASSUME NEW t \in Clients, Op!PutBlob(t) PROVE CacheInv'
    <3> DEFINE k == req[t].key
    <3>1. /\ req[t] = [pc |-> "put", key |-> k, out |-> k] /\ UNCHANGED <<index, torn>>
          /\ blobs' = [blobs EXCEPT ![k] = k] /\ \A u \in Clients : req[u].pc # "put_index"
      BY <2>12 DEF Op!PutBlob, Op!At, Op!Locked, CacheInv, Carrying
    <3> HIDE DEF k
    <3>2. [req[t] EXCEPT !.pc = "put_index"] = [pc |-> "put_index", key |-> k, out |-> k]
      BY <3>1
    <3>3. /\ DOMAIN req' = Clients /\ req'[t] = [pc |-> "put_index", key |-> k, out |-> k]
          /\ \A u \in Clients : u # t => req'[u] = req[u]
      BY <2>12, <2>b, <3>2 DEF Op!PutBlob, Op!Goes
    <3>4. /\ DOMAIN blobs' = Op!Keys /\ (k \in Op!Keys => blobs'[k] = k)
          /\ \A j \in Op!Keys : j # k => blobs'[j] = blobs[j]
      BY <3>1 DEF CacheInv
    <3>5. ASSUME NEW u \in Clients PROVE Carrying(u)'
      <4>1. CASE u = t
        <5>1. req'[u].pc = "put_index" /\ req'[u].key = k /\ req'[u].out = k
          BY <3>3, <4>1
        <5> QED BY <3>4, <5>1 DEF Carrying
      <4>2. CASE u # t
        BY <3>1, <3>3, <4>2 DEF Carrying, CacheInv
      <4> QED BY <4>1, <4>2
    <3>6. \A j \in Op!Keys \ torn' : Served(j)'
      BY <3>1, <3>4 DEF Served, CacheInv
    <3> QED BY <3>1, <3>3, <3>4, <3>5, <3>6 DEF CacheInv
  <2>13. ASSUME NEW t \in Clients, Op!PutIndex(t) PROVE CacheInv'
    <3> DEFINE k == req[t].key
    <3>1. /\ k \in Op!Keys => blobs[k] = k
          /\ torn' = torn \ {k} /\ UNCHANGED blobs /\ \E v : index' = [index EXCEPT ![k] = v]
      BY <2>13 DEF Op!PutIndex, Op!At, CacheInv, Carrying
    <3> HIDE DEF k
    <3>2. DOMAIN req' = Clients /\ \A u \in Clients : Carrying(u)'
      BY <2>13, <2>c DEF Op!PutIndex, Op!Goes, Op!Idle
    <3>3. DOMAIN index' = Op!Keys /\ \A j \in Op!Keys : j # k => index'[j] = index[j]
      BY <3>1 DEF CacheInv
    <3>4. \A j \in Op!Keys \ torn' : Served(j)'
      BY <3>1, <3>3 DEF Served, CacheInv
    <3> QED BY <3>1, <3>2, <3>3, <3>4 DEF CacheInv
  <2>14. CASE UNCHANGED Op!vars
    BY <2>14 DEF Op!vars, Op!cache, CacheInv, Carrying, Served
  <2> QED BY <2>1, <2>2, <2>3, <2>4, <2>5, <2>6, <2>7, <2>8, <2>9, <2>10, <2>11, <2>12, <2>13, <2>14 DEF Op!Next
<1>3. CacheInv => Op!CacheRight
  BY DEF CacheInv, Served, Op!CacheRight
<1> QED BY <1>1, <1>2, <1>3, OptimizersRun, PTL DEF Spec, CacheRight

-----------------------------------------------------------------------------
(* Access: every request raised is accounted for, and a standing grant is   *)
(* one of scope "always", which no pruning takes.                           *)

AccessGrant == [scope : {"always", "once"}, age : Nat]
AccessRequest == [id : Nat, kind : {"access", "approval"}, resource : Paths \cup Unusable \cup {None}]

Accounted(n) ==
    \/ n \in denied \cup lost \cup retries
    \/ \E i \in Tickets : n \in Ac!Pending(i)
    \/ \E t \in Operators : op[t].pc = "retry" /\ op[t].id = n

Standing(p) == grants[p] \in AccessGrant /\ grants[p].scope = "always"

AccessInv ==
    /\ raised \in Nat /\ DOMAIN op = Operators /\ standing \subseteq Paths
    /\ reqs \in [Tickets -> AccessRequest \cup {None}]
    /\ grants \in [Paths -> AccessGrant \cup {None}]
    /\ \A n \in 1..raised : Accounted(n)
    /\ \A p \in standing : Standing(p)

\* load keeps the standing grants.
LEMMA PrunedKeeps ==
    ASSUME NEW g \in [Paths -> AccessGrant \cup {None}]
    PROVE  /\ Ac!Pruned(g) \in [Paths -> AccessGrant \cup {None}]
           /\ \A p \in Paths : g[p] \in AccessGrant /\ g[p].scope = "always" => Ac!Pruned(g)[p] = g[p]
BY DEF Ac!Pruned, Ac!Expired

\* add makes the path a grant of its scope and keeps the other standing ones.
LEMMA GrantedKeeps ==
    ASSUME NEW g \in [Paths -> AccessGrant \cup {None}], NEW q \in Paths, NEW scope \in {"always", "once"}
    PROVE  /\ Ac!Granted(g, q, scope) \in [Paths -> AccessGrant \cup {None}]
           /\ scope = "always" => Ac!Granted(g, q, scope)[q] = [scope |-> "always", age |-> 0]
           /\ \A p \in Paths : p # q /\ g[p] \in AccessGrant /\ g[p].scope = "always" =>
                 Ac!Granted(g, q, scope)[p] = g[p]
<1> DEFINE h == [g EXCEPT ![q] = [scope |-> scope, age |-> 0]]
<1>1. h \in [Paths -> AccessGrant \cup {None}] /\ h[q] = [scope |-> scope, age |-> 0]
      /\ \A p \in Paths : p # q => h[p] = g[p]
  BY DEF AccessGrant
<1>2. Ac!Granted(g, q, scope) = Ac!Pruned(h)
  BY DEF Ac!Granted
<1> HIDE DEF h
<1>3. scope = "always" => h[q] \in AccessGrant /\ h[q].scope = "always"
  BY <1>1 DEF AccessGrant
<1> QED BY <1>1, <1>2, <1>3, PrunedKeeps

\* access.go and accessrequests.go: for every number of operators, issues and folders, no access
\* request is forgotten and no folder granted "always" is lost.
THEOREM AccessIsKept ==
    ASSUME None \notin AccessRequest \cup AccessGrant
    PROVE  Spec => []AccessKept
<1>1. Ac!Init => AccessInv
  BY DEF Ac!Init, AccessInv
<1>2. AccessInv /\ [Ac!Next]_Ac!vars => AccessInv'
  <2> SUFFICES ASSUME AccessInv, [Ac!Next]_Ac!vars PROVE AccessInv'
    OBVIOUS
  <2> DEFINE ReqPart == /\ raised \in Nat /\ DOMAIN op = Operators
                        /\ reqs \in [Tickets -> AccessRequest \cup {None}]
                        /\ \A n \in 1..raised : Accounted(n)
             GrantPart == /\ standing \subseteq Paths /\ grants \in [Paths -> AccessGrant \cup {None}]
                          /\ \A p \in standing : Standing(p)
  <2>0. ReqPart /\ GrantPart
    BY DEF AccessInv
  <2>a. ReqPart' /\ GrantPart' => AccessInv'
    BY DEF AccessInv
  <2>b. UNCHANGED <<reqs, raised, op, retries, denied, lost>> => ReqPart'
    BY <2>0 DEF Accounted, Ac!Pending
  <2>c. UNCHANGED <<grants, standing>> => GrantPart'
    BY <2>0 DEF Standing
  <2>d. ASSUME NEW p \in Paths, grants' = Ac!Granted(grants, p, "always"), standing' = standing \cup {p}
        PROVE  GrantPart'
    <3>1. [scope |-> "always", age |-> 0] \in AccessGrant
      BY DEF AccessGrant
    <3> QED BY <2>0, <2>d, <3>1, GrantedKeeps DEF Standing
  <2> HIDE DEF ReqPart, GrantPart
  <2>1. CASE Ac!GrantAdd
    <3>1. PICK p \in Paths, scope \in {"always", "once"} :
              /\ grants' = Ac!Granted(grants, p, scope)
              /\ standing' = IF scope = "always" THEN standing \cup {p} ELSE standing \ {p}
      BY <2>1 DEF Ac!GrantAdd
    <3>2. ASSUME scope = "always" PROVE GrantPart'
      BY <2>d, <3>1, <3>2
    <3>3. ASSUME scope = "once" PROVE GrantPart'
      BY <2>0, <3>1, <3>3, GrantedKeeps DEF Standing, GrantPart
    <3>4. ReqPart'
      BY <2>1, <2>b DEF Ac!GrantAdd
    <3> QED BY <2>a, <3>1, <3>2, <3>3, <3>4
  <2>2. CASE Ac!GrantRemove
    <3>1. PICK p \in Paths : grants' = Ac!Pruned([grants EXCEPT ![p] = None]) /\ standing' = standing \ {p}
      BY <2>2 DEF Ac!GrantRemove
    <3> DEFINE h == [grants EXCEPT ![p] = None]
    <3>2. h \in [Paths -> AccessGrant \cup {None}] /\ \A q \in Paths : q # p => h[q] = grants[q]
      BY <2>0 DEF GrantPart
    <3>3. grants' = Ac!Pruned(h)
      BY <3>1
    <3> HIDE DEF h
    <3>4. GrantPart'
      <4>1. grants' \in [Paths -> AccessGrant \cup {None}]
        BY <3>2, <3>3, PrunedKeeps
      <4>2. ASSUME NEW q \in standing' PROVE Standing(q)'
        <5>1. q \in Paths /\ q # p /\ Standing(q)
          BY <2>0, <3>1 DEF GrantPart
        <5>2. h[q] = grants[q]
          BY <3>2, <5>1
        <5>3. grants'[q] = h[q]
          BY <3>2, <3>3, <5>1, <5>2, PrunedKeeps DEF Standing
        <5> QED BY <5>1, <5>2, <5>3 DEF Standing
      <4> QED BY <2>0, <3>1, <4>1, <4>2 DEF GrantPart
    <3> QED BY <2>2, <2>a, <2>b, <3>4 DEF Ac!GrantRemove
  <2>3. CASE Ac!Load
    <3>1. GrantPart'
      BY <2>0, <2>3, PrunedKeeps DEF Ac!Load, Ac!history, Standing, GrantPart
    <3> QED BY <2>3, <2>a, <2>b, <3>1 DEF Ac!Load, Ac!history
  <2>4. CASE Ac!Tick
    <3>1. ASSUME NEW p \in Paths
          PROVE  /\ grants'[p] \in AccessGrant \cup {None}
                 /\ Standing(p) => Standing(p)'
      <4>1. CASE grants[p] \in AccessGrant
        BY <2>0, <2>4, <4>1 DEF Ac!Tick, Standing, GrantPart, AccessGrant
      <4>2. CASE grants[p] = None
        BY <2>0, <2>4, <4>2 DEF Ac!Tick, Standing, GrantPart
      <4> QED BY <2>0, <4>1, <4>2 DEF GrantPart
    <3>2. GrantPart'
      BY <2>0, <2>4, <3>1 DEF Ac!Tick, Ac!history, GrantPart
    <3> QED BY <2>4, <2>a, <2>b, <3>2 DEF Ac!Tick, Ac!history
  <2>5. CASE Ac!Crash
    <3>1. GrantPart'
      <4>1. CASE UNCHANGED <<grants, standing>>
        BY <2>c, <4>1
      <4>2. CASE grants' = [p \in Paths |-> None] /\ standing' = {}
        BY <4>2 DEF GrantPart
      <4> QED BY <2>5, <4>1, <4>2 DEF Ac!Crash
    <3>2. \A n : n \in Ac!Interrupted <=> \E t \in Operators : op[t].pc = "retry" /\ op[t].id = n
      BY DEF Ac!Interrupted
    <3>3. /\ op' = [t \in Operators |-> [pc |-> "idle"]] /\ UNCHANGED <<raised, retries, denied>>
          /\ Ac!Interrupted \subseteq lost' /\ lost \subseteq lost'
          /\ \/ UNCHANGED reqs
             \/ /\ reqs' = [i \in Tickets |-> None]
                /\ \A i \in Tickets : Ac!Pending(i) \subseteq lost'
      BY <2>5 DEF Ac!Crash, Ac!Idle
    <3>4. ASSUME NEW n \in 1..raised PROVE Accounted(n)'
      BY <2>0, <3>2, <3>3 DEF Accounted, Ac!Pending, ReqPart
    <3>5. ReqPart'
      BY <2>0, <3>3, <3>4 DEF ReqPart
    <3> QED BY <2>a, <3>1, <3>5
  <2>6. ASSUME NEW i \in Tickets, Ac!Raise(i) PROVE AccessInv'
    <3>1. PICK kind \in {"access", "approval"}, r \in Paths \cup Unusable \cup {None} :
              reqs' = [reqs EXCEPT ![i] = [id |-> raised', kind |-> kind, resource |-> r]]
      BY <2>6 DEF Ac!Raise
    <3> DEFINE q == [id |-> raised', kind |-> kind, resource |-> r]
    <3>2. raised' = raised + 1 /\ raised \in Nat /\ denied' = denied \cup Ac!Pending(i)
          /\ UNCHANGED <<op, lost, retries>>
      BY <2>0, <2>6 DEF Ac!Raise, ReqPart
    <3>3. q \in AccessRequest /\ q.id = raised + 1
      BY <3>2 DEF AccessRequest
    <3>4. q # None
      BY <3>3
    <3> HIDE DEF q
    <3>5. reqs' \in [Tickets -> AccessRequest \cup {None}] /\ reqs'[i] = q /\ \A j \in Tickets : j # i => reqs'[j] = reqs[j]
      BY <2>0, <3>1, <3>3 DEF ReqPart, q
    <3>6. ASSUME NEW n \in 1..raised' PROVE Accounted(n)'
      <4>1. CASE n = raised + 1
        BY <3>3, <3>4, <3>5, <4>1 DEF Accounted, Ac!Pending
      <4>2. CASE n # raised + 1
        <5>1. n \in 1..raised
          BY <3>2, <4>2
        <5>2. Accounted(n)
          BY <2>0, <5>1 DEF ReqPart
        <5> QED BY <3>2, <3>5, <5>2 DEF Accounted, Ac!Pending
      <4> QED BY <4>1, <4>2
    <3>7. ReqPart'
      BY <2>0, <3>2, <3>5, <3>6 DEF ReqPart
    <3> QED BY <2>6, <2>a, <2>c, <3>7 DEF Ac!Raise
  <2>7. ASSUME NEW i \in Tickets, Ac!Deny(i) PROVE AccessInv'
    <3>1. ReqPart'
      BY <2>0, <2>7 DEF Ac!Deny, Accounted, Ac!Pending, ReqPart
    <3> QED BY <2>7, <2>a, <2>c, <3>1 DEF Ac!Deny
  <2>8. ASSUME NEW i \in Tickets, NEW t \in Operators, Ac!AllowBegin(t, i) PROVE AccessInv'
    <3>1. op[t].pc = "idle" /\ UNCHANGED <<grants, reqs, raised, retries, denied, lost, standing>>
      BY <2>8 DEF Ac!AllowBegin, Ac!store, Ac!history
    <3>2. \E r : op' = [op EXCEPT ![t] = r]
      BY <2>8 DEF Ac!AllowBegin, Ac!Goes
    <3>3. ReqPart'
      BY <2>0, <3>1, <3>2 DEF Accounted, Ac!Pending, ReqPart
    <3> QED BY <2>a, <2>c, <3>1, <3>3
  <2>9. ASSUME NEW t \in Operators, Ac!Grant(t) PROVE AccessInv'
    <3>1. op[t].pc = "grant" /\ UNCHANGED <<reqs, raised, retries, denied, lost>>
      BY <2>9 DEF Ac!Grant
    <3>2. \E r : op' = [op EXCEPT ![t] = r]
      BY <2>9 DEF Ac!Grant, Ac!Goes
    <3>3. ReqPart'
      BY <2>0, <3>1, <3>2 DEF Accounted, Ac!Pending, ReqPart
    <3>4. GrantPart'
      BY <2>9, <2>c, <2>d DEF Ac!Grant
    <3> QED BY <2>a, <3>3, <3>4
  <2>10. ASSUME NEW t \in Operators, Ac!Drop(t) PROVE AccessInv'
    <3> DEFINE i == op[t].issue
               d == op[t].id
    <3>1. /\ op[t].pc = "drop" /\ reqs' = [reqs EXCEPT ![i] = None]
          /\ lost' = lost \cup (Ac!Pending(i) \ {d}) /\ op' = [op EXCEPT ![t] = [pc |-> "retry", id |-> d]]
          /\ UNCHANGED <<raised, retries, denied, grants, standing>>
      BY <2>10 DEF Ac!Drop, Ac!Goes
    <3> HIDE DEF i, d
    <3>2. /\ DOMAIN op' = Operators /\ op'[t] = [pc |-> "retry", id |-> d]
          /\ \A u \in Operators : u # t => op'[u] = op[u]
          /\ reqs' \in [Tickets -> AccessRequest \cup {None}] /\ \A j \in Tickets : j # i => reqs'[j] = reqs[j]
      BY <2>0, <3>1 DEF ReqPart
    <3>3. ASSUME NEW n \in 1..raised PROVE Accounted(n)'
      <4>0. Accounted(n)
        BY <2>0 DEF ReqPart
      <4>1. CASE n \in denied \cup lost \cup retries
        BY <3>1, <4>1 DEF Accounted
      <4>2. ASSUME NEW j \in Tickets, n \in Ac!Pending(j) PROVE Accounted(n)'
        <5>1. CASE j # i
          BY <3>2, <4>2, <5>1 DEF Accounted, Ac!Pending
        <5>2. CASE j = i /\ n = d
          BY <3>2, <5>2 DEF Accounted
        <5>3. CASE j = i /\ n # d
          BY <3>1, <4>2, <5>3 DEF Accounted
        <5> QED BY <5>1, <5>2, <5>3
      <4>3. ASSUME NEW u \in Operators, op[u].pc = "retry", op[u].id = n PROVE Accounted(n)'
        BY <3>1, <3>2, <4>3 DEF Accounted
      <4> QED BY <4>0, <4>1, <4>2, <4>3 DEF Accounted
    <3>4. ReqPart'
      BY <2>0, <3>1, <3>2, <3>3 DEF ReqPart
    <3> QED BY <2>a, <2>c, <3>1, <3>4
  <2>11. ASSUME NEW t \in Operators, Ac!Retry(t) PROVE AccessInv'
    <3>1. /\ retries' = retries \cup {op[t].id} /\ op' = [op EXCEPT ![t] = [pc |-> "idle"]]
          /\ UNCHANGED <<grants, reqs, raised, denied, lost, standing>>
      BY <2>11 DEF Ac!Retry, Ac!Goes, Ac!Idle, Ac!store, Ac!history
    <3>2. ReqPart'
      BY <2>0, <3>1 DEF Accounted, Ac!Pending, ReqPart
    <3> QED BY <2>a, <2>c, <3>1, <3>2
  <2>12. CASE UNCHANGED Ac!vars
    BY <2>12, <2>a, <2>b, <2>c DEF Ac!vars, Ac!store, Ac!history
  <2> QED BY <2>1, <2>2, <2>3, <2>4, <2>5, <2>6, <2>7, <2>8, <2>9, <2>10, <2>11, <2>12 DEF Ac!Next
<1>3. AccessInv => Ac!AccessKept
  BY DEF AccessInv, Ac!AccessKept, Accounted, Standing
<1> QED BY <1>1, <1>2, <1>3, AccessRuns, PTL DEF Spec, AccessKept

-----------------------------------------------------------------------------
(* Ticket chats: the turn a goroutine works on is the last of its chat, and *)
(* every earlier one that is still pending was left behind by a crash.      *)

Turns == [role : {"user", "agent"}, of : Nat \cup {None}, text : Ch!Texts, pending : BOOLEAN, saved : BOOLEAN]

Agents ==
    [pc : {"load", "ask", "comment"}, of : Nat, investigate : BOOLEAN]
       \cup [pc : {"finish"}, of : Nat, text : Ch!Texts, saved : BOOLEAN] \cup [pc : {"done"}, of : Nat]

\* The agent's turn i of a chat s, asked by the turn before it.
TurnOK(s, i, a, left, said) ==
    s[i].role = "agent" =>
        /\ i > 1 /\ s[i - 1].role = "user"
        /\ s[i].pending => \/ s[i - 1].of \in left
                           \/ i = Len(s) /\ a # None /\ a.pc # "done" /\ a.of = s[i - 1].of
        /\ ~s[i].pending => s[i].of = s[i - 1].of /\ (s[i].saved => s[i - 1].of \in said)

\* A goroutine that works has its turn at the end of the chat.
LastTurn(s, a) ==
    a # None /\ a.pc # "done" =>
        /\ Len(s) > 1 /\ s[Len(s)].role = "agent" /\ s[Len(s)].pending
        /\ s[Len(s) - 1].role = "user" /\ s[Len(s) - 1].of = a.of

ChatOK(s, a, left, said) ==
    /\ s \in Seq(Turns) /\ a \in Agents \cup {None}
    /\ \A i \in 1..Len(s) : TurnOK(s, i, a, left, said)
    /\ LastTurn(s, a)
    /\ a # None /\ a.pc = "finish" => (a.saved => a.of \in said)

ChatInv ==
    /\ chat \in [Chats -> Seq(Turns)] /\ DOMAIN agent = Chats /\ sends \in Nat
    /\ \A k \in Chats : agent[k] # None => k \in running
    /\ \A k \in Chats : ChatOK(chat[k], agent[k], abandoned, comments)

\* A chat stays right as messages are abandoned and comments are posted.
LEMMA ChatGrows ==
    ASSUME NEW s, NEW a, NEW left, NEW left2, NEW said, NEW said2,
           ChatOK(s, a, left, said), left \subseteq left2, said \subseteq said2
    PROVE  ChatOK(s, a, left2, said2)
BY DEF ChatOK, TurnOK

\* So it does when the goroutine of its last turn goes on working, for the same message.
LEMMA ChatWorks ==
    ASSUME NEW s, NEW a, NEW b, NEW left, NEW said, ChatOK(s, a, left, said),
           a # None, a.pc # "done", b \in Agents, b # None, b.pc # "done", b.of = a.of,
           b.pc = "finish" => (b.saved => b.of \in said)
    PROVE  ChatOK(s, b, left, said)
BY DEF ChatOK, TurnOK, LastTurn

\* A crash ends the goroutine and leaves its turn behind.
LEMMA ChatLeft ==
    ASSUME NEW s, NEW a, NEW left, NEW left2, NEW said, ChatOK(s, a, left, said),
           left \subseteq left2, a # None => a.of \in left2
    PROVE  ChatOK(s, None, left2, said)
BY DEF ChatOK, TurnOK, LastTurn

\* A goroutine that is done leaves nothing pending but what a crash left.
LEMMA ChatDone ==
    ASSUME NEW s, NEW a, NEW left, NEW said, ChatOK(s, a, left, said), a.pc = "done"
    PROVE  ChatOK(s, None, left, said)
BY DEF ChatOK, TurnOK, LastTurn

\* send appends the user's turn and a pending one.
LEMMA ChatSent ==
    ASSUME NEW s, NEW left, NEW said, ChatOK(s, None, left, said), NEW n \in Nat,
           NEW b \in Agents, b # None, b.pc = "load", b.of = n,
           NEW t, t = s \o <<Ch!UserTurn(n), Ch!AgentTurn>>
    PROVE  ChatOK(t, b, left, said)
<1> DEFINE u == Ch!UserTurn(n)
           v == Ch!AgentTurn
<1>0. s \in Seq(Turns) /\ Len(s) \in Nat
  BY DEF ChatOK
<1>1. u \in Turns /\ u.role = "user" /\ u.of = n
  BY DEF Ch!UserTurn, Turns, Ch!Texts
<1>2. v \in Turns /\ v.role = "agent" /\ v.pending
  BY DEF Ch!AgentTurn, Turns, Ch!Texts
<1> HIDE DEF u, v
<1>3. <<u, v>> \in Seq(Turns) /\ Len(<<u, v>>) = 2 /\ <<u, v>>[1] = u /\ <<u, v>>[2] = v
  BY <1>1, <1>2
<1>4. /\ t \in Seq(Turns) /\ Len(t) = Len(s) + 2
      /\ \A i \in 1..Len(s) + 2 : t[i] = IF i <= Len(s) THEN s[i] ELSE <<u, v>>[i - Len(s)]
  BY <1>0, <1>3, ConcatProperties DEF u, v
<1>5. /\ \A i \in 1..Len(s) : t[i] = s[i]
      /\ t[Len(s) + 1] = u /\ t[Len(s) + 2] = v
  <2>1. ASSUME NEW i \in 1..Len(s) PROVE t[i] = s[i]
    BY <1>0, <1>4
  <2>2. t[Len(s) + 1] = <<u, v>>[Len(s) + 1 - Len(s)] /\ t[Len(s) + 2] = <<u, v>>[Len(s) + 2 - Len(s)]
    BY <1>0, <1>4
  <2>3. Len(s) + 1 - Len(s) = 1 /\ Len(s) + 2 - Len(s) = 2
    BY <1>0
  <2> QED BY <1>3, <2>1, <2>2, <2>3
<1>6. ASSUME NEW i \in 1..Len(t) PROVE TurnOK(t, i, b, left, said)
  <2>1. CASE i \in 1..Len(s)
    <3>1. t[i] = s[i] /\ TurnOK(s, i, None, left, said) /\ (i > 1 => i - 1 \in 1..Len(s))
      BY <1>0, <1>5, <2>1 DEF ChatOK
    <3>2. i > 1 => t[i - 1] = s[i - 1]
      BY <1>5, <3>1
    <3> QED BY <3>1, <3>2 DEF TurnOK
  <2>2. CASE i = Len(s) + 1
    BY <1>1, <1>5, <2>2 DEF TurnOK
  <2>3. CASE i = Len(s) + 2
    <3>1. i > 1 /\ i - 1 = Len(s) + 1 /\ i = Len(t)
      BY <1>0, <1>4, <2>3
    <3> QED BY <1>1, <1>2, <1>5, <2>3, <3>1 DEF TurnOK
  <2> QED BY <1>0, <1>4, <2>1, <2>2, <2>3
<1>7. LastTurn(t, b)
  <2>1. Len(t) > 1 /\ Len(t) = Len(s) + 2 /\ Len(t) - 1 = Len(s) + 1
    BY <1>0, <1>4
  <2> QED BY <1>1, <1>2, <1>5, <2>1 DEF LastTurn
<1> QED BY <1>4, <1>6, <1>7 DEF ChatOK

\* finish: the last pending turn is the goroutine's own, and becomes its answer.
LEMMA ChatFinished ==
    ASSUME NEW s, NEW a, NEW left, NEW said, ChatOK(s, a, left, said), a # None, a.pc = "finish",
           NEW b, b = [pc |-> "done", of |-> a.of], NEW t, t = Ch!Replaced(s, a)
    PROVE  ChatOK(t, b, left, said)
<1> DEFINE n == Len(s)
<1>0. /\ s \in Seq(Turns) /\ n \in Nat /\ n > 1 /\ s[n].role = "agent" /\ s[n].pending
      /\ s[n - 1].role = "user" /\ s[n - 1].of = a.of
      /\ a \in [pc : {"finish"}, of : Nat, text : Ch!Texts, saved : BOOLEAN]
      /\ a.saved => a.of \in said
  BY DEF ChatOK, LastTurn, Agents
<1>1. n \in Ch!Pending(s) /\ Ch!Pending(s) \subseteq 1..n
  BY <1>0 DEF Ch!Pending
<1>2. (CHOOSE i \in Ch!Pending(s) : \A j \in Ch!Pending(s) : j <= i) = n
  <2>1. ASSUME NEW i \in Ch!Pending(s), \A j \in Ch!Pending(s) : j <= i PROVE i = n
    BY <1>0, <1>1, <2>1
  <2>2. \A j \in Ch!Pending(s) : j <= n
    BY <1>0, <1>1
  <2> QED BY <1>1, <2>1, <2>2
<1> DEFINE e == [s[n] EXCEPT !.of = a.of, !.text = a.text, !.pending = FALSE, !.saved = a.saved]
<1>3. t = [s EXCEPT ![n] = e]
  BY <1>1, <1>2 DEF Ch!Replaced, Ch!Answered
<1>4. e \in Turns /\ e.role = "agent" /\ e.of = a.of /\ e.pending = FALSE /\ e.saved = a.saved
  <2>1. s[n] \in Turns
    BY <1>0
  <2> QED BY <1>0, <2>1 DEF Turns
<1> HIDE DEF e, n
<1>5. t \in Seq(Turns) /\ Len(t) = n /\ t[n] = e /\ \A i \in 1..n : i # n => t[i] = s[i]
  BY <1>0, <1>3, <1>4 DEF n
<1>6. ASSUME NEW i \in 1..n PROVE TurnOK(t, i, b, left, said)
  <2>0. i > 1 => i - 1 \in 1..n /\ i - 1 # n
    BY <1>0
  <2>1. CASE i = n
    <3>1. t[i - 1] = s[n - 1] /\ t[i] = e /\ i > 1
      BY <1>0, <1>5, <2>0, <2>1
    <3> QED BY <1>0, <1>4, <3>1 DEF TurnOK
  <2>2. CASE i # n
    <3>1. t[i] = s[i] /\ (i > 1 => t[i - 1] = s[i - 1]) /\ TurnOK(s, i, a, left, said)
      BY <1>5, <2>0, <2>2 DEF ChatOK, n
    <3> QED BY <2>2, <3>1 DEF TurnOK, n
  <2> QED BY <2>1, <2>2
<1>7. b \in Agents /\ b.pc = "done"
  BY <1>0 DEF Agents
<1> QED BY <1>5, <1>6, <1>7 DEF ChatOK, LastTurn

\* ticketchat.go: in every chat, whatever is asked and wherever the process dies, an answer is in
\* the turn after the message it answers, and what is pending is being worked on or was abandoned.
THEOREM ChatsInPlace ==
    ASSUME None \notin Agents
    PROVE  Spec => []AnswersInPlace
<1>1. Ch!Init => ChatInv
  BY DEF Ch!Init, ChatInv, ChatOK, LastTurn
<1>2. ChatInv /\ [Ch!Next]_Ch!vars => ChatInv'
  <2> SUFFICES ASSUME ChatInv, [Ch!Next]_Ch!vars PROVE ChatInv'
    OBVIOUS
  <2>0. /\ chat \in [Chats -> Seq(Turns)] /\ DOMAIN agent = Chats /\ sends \in Nat
        /\ \A k \in Chats : agent[k] # None => k \in running
        /\ \A k \in Chats : ChatOK(chat[k], agent[k], abandoned, comments)
    BY DEF ChatInv
  \* A step of one ticket's goroutine or of its sender leaves the other chats as they are.
  <2>a. ASSUME NEW k \in Chats, NEW s, NEW a, chat' = [chat EXCEPT ![k] = s], agent' = [agent EXCEPT ![k] = a],
               sends' \in Nat, comments \subseteq comments', abandoned' = abandoned,
               running \ {k} \subseteq running', a # None => k \in running',
               ChatOK(s, a, abandoned, comments')
        PROVE  ChatInv'
    <3>0. s \in Seq(Turns)
      BY <2>a DEF ChatOK
    <3>1. /\ chat' \in [Chats -> Seq(Turns)] /\ DOMAIN agent' = Chats /\ chat'[k] = s /\ agent'[k] = a
          /\ \A j \in Chats : j # k => chat'[j] = chat[j] /\ agent'[j] = agent[j]
      BY <2>0, <2>a, <3>0
    <3>2. ASSUME NEW j \in Chats PROVE ChatOK(chat'[j], agent'[j], abandoned', comments')
      <4>1. CASE j = k
        BY <2>a, <3>1, <4>1
      <4>2. CASE j # k
        <5>1. ChatOK(chat[j], agent[j], abandoned, comments')
          BY <2>0, <2>a, ChatGrows
        <5> QED BY <2>a, <3>1, <4>2, <5>1
      <4> QED BY <4>1, <4>2
    <3>3. ASSUME NEW j \in Chats, agent'[j] # None PROVE j \in running'
      BY <2>0, <2>a, <3>1, <3>3
    <3> QED BY <2>a, <3>1, <3>2, <3>3 DEF ChatInv
  \* The goroutine goes on with its turn.
  <2>b. ASSUME NEW k \in Chats, NEW b \in Agents, agent[k] # None, agent[k].pc # "done",
               agent' = [agent EXCEPT ![k] = b], b.pc # "done", b.of = agent[k].of,
               b.pc = "finish" => (b.saved => b.of \in comments'),
               comments \subseteq comments', UNCHANGED <<chat, running, sends, abandoned>>
        PROVE  ChatInv'
    <3>1. ChatOK(chat[k], agent[k], abandoned, comments')
      BY <2>0, <2>b, ChatGrows
    <3>2. ChatOK(chat[k], b, abandoned, comments')
      BY <2>b, <3>1, ChatWorks
    <3>3. chat' = [chat EXCEPT ![k] = chat[k]]
      BY <2>0, <2>b
    <3> QED BY <2>0, <2>a, <2>b, <3>2, <3>3
  <2>1. CASE Ch!Crash
    <3>1. /\ agent' = [k \in Chats |-> None] /\ UNCHANGED <<comments, sends>> /\ abandoned \subseteq abandoned'
          /\ \A k \in Chats : agent[k] # None => agent[k].of \in abandoned'
          /\ \/ UNCHANGED chat
             \/ \E k \in Chats : chat' = [chat EXCEPT ![k] = <<>>]
      BY <2>1 DEF Ch!Crash
    <3>2. ASSUME NEW k \in Chats PROVE ChatOK(chat[k], None, abandoned', comments) /\ ChatOK(<<>>, None, abandoned', comments)
      <4>1. ChatOK(<<>>, None, abandoned', comments)
        BY DEF ChatOK, LastTurn
      <4> QED BY <2>0, <3>1, <4>1, ChatLeft
    <3>3. chat' \in [Chats -> Seq(Turns)] /\ \A k \in Chats : chat'[k] \in {chat[k], <<>>}
      <4>1. CASE UNCHANGED chat
        BY <2>0, <4>1
      <4>2. ASSUME NEW k \in Chats, chat' = [chat EXCEPT ![k] = <<>>]
            PROVE  chat' \in [Chats -> Seq(Turns)] /\ \A j \in Chats : chat'[j] \in {chat[j], <<>>}
        <5>1. <<>> \in Seq(Turns)
          OBVIOUS
        <5> QED BY <2>0, <4>2, <5>1
      <4> QED BY <3>1, <4>1, <4>2
    <3> QED BY <2>0, <3>1, <3>2, <3>3 DEF ChatInv
  <2>2. ASSUME NEW k \in Chats, NEW investigate \in BOOLEAN, Ch!Send(k, investigate) PROVE ChatInv'
    <3> DEFINE n == sends + 1
               b == [pc |-> "load", of |-> n, investigate |-> investigate]
               t == chat[k] \o <<Ch!UserTurn(n), Ch!AgentTurn>>
    <3>1. /\ sends' = n /\ chat' = [chat EXCEPT ![k] = t] /\ agent' = [agent EXCEPT ![k] = b]
          /\ running' = running \cup {k} /\ k \notin running /\ UNCHANGED <<comments, abandoned>>
      BY <2>2 DEF Ch!Send
    <3>2. n \in Nat /\ b \in Agents /\ b.pc = "load" /\ b.of = n
      BY <2>0 DEF Agents
    <3> HIDE DEF n, b
    <3>3. b # None
      BY <3>2
    <3>4. ChatOK(chat[k], None, abandoned, comments)
      BY <2>0, <3>1
    <3>5. t = chat[k] \o <<Ch!UserTurn(n), Ch!AgentTurn>>
      OBVIOUS
    <3> HIDE DEF t
    <3>6. ChatOK(t, b, abandoned, comments)
      BY <3>2, <3>3, <3>4, <3>5, ChatSent
    <3> QED BY <2>a, <3>1, <3>2, <3>6
  <2>3. ASSUME NEW k \in Chats, Ch!LoadTicket(k) PROVE ChatInv'
    <3>1. agent[k] # None /\ agent[k].pc = "load" /\ agent[k] \in Agents
          /\ UNCHANGED <<chat, running, sends, abandoned, comments>>
      BY <2>0, <2>3 DEF Ch!LoadTicket, Ch!At, ChatOK
    <3>2. agent[k] \in [pc : {"load"}, of : Nat, investigate : BOOLEAN]
      BY <3>1 DEF Agents
    <3>3. CASE Ch!Goes(k, [agent[k] EXCEPT !.pc = "ask"])
      <4> DEFINE b == [agent[k] EXCEPT !.pc = "ask"]
      <4>1. b \in Agents /\ b.pc = "ask" /\ b.of = agent[k].of
        BY <3>2 DEF Agents
      <4>2. agent' = [agent EXCEPT ![k] = b]
        BY <3>3 DEF Ch!Goes
      <4> HIDE DEF b
      <4> QED BY <2>b, <3>1, <4>1, <4>2
    <3>4. CASE Ch!Goes(k, Ch!ToFinish(agent[k], "error", FALSE))
      <4> DEFINE b == Ch!ToFinish(agent[k], "error", FALSE)
      <4>1. b \in Agents /\ b.pc = "finish" /\ b.of = agent[k].of /\ b.saved = FALSE
        BY <3>2 DEF Agents, Ch!ToFinish, Ch!Texts
      <4>2. agent' = [agent EXCEPT ![k] = b]
        BY <3>4 DEF Ch!Goes
      <4> HIDE DEF b
      <4> QED BY <2>b, <3>1, <4>1, <4>2
    <3> QED BY <2>3, <3>3, <3>4 DEF Ch!LoadTicket
  <2>4. ASSUME NEW k \in Chats, Ch!Ask(k) PROVE ChatInv'
    <3>1. agent[k] # None /\ agent[k].pc = "ask" /\ agent[k] \in Agents
          /\ UNCHANGED <<chat, running, sends, abandoned, comments>>
      BY <2>0, <2>4 DEF Ch!Ask, Ch!At, ChatOK
    <3>2. agent[k] \in [pc : {"ask"}, of : Nat, investigate : BOOLEAN]
      BY <3>1 DEF Agents
    <3>3. CASE Ch!Goes(k, [agent[k] EXCEPT !.pc = "comment"])
      <4> DEFINE b == [agent[k] EXCEPT !.pc = "comment"]
      <4>1. b \in Agents /\ b.pc = "comment" /\ b.of = agent[k].of
        BY <3>2 DEF Agents
      <4>2. agent' = [agent EXCEPT ![k] = b]
        BY <3>3 DEF Ch!Goes
      <4> HIDE DEF b
      <4> QED BY <2>b, <3>1, <4>1, <4>2
    <3>4. ASSUME NEW text \in Ch!Texts, Ch!Goes(k, Ch!ToFinish(agent[k], text, FALSE)) PROVE ChatInv'
      <4> DEFINE b == Ch!ToFinish(agent[k], text, FALSE)
      <4>1. b \in Agents /\ b.pc = "finish" /\ b.of = agent[k].of /\ b.saved = FALSE
        BY <3>2 DEF Agents, Ch!ToFinish
      <4>2. agent' = [agent EXCEPT ![k] = b]
        BY <3>4 DEF Ch!Goes
      <4> HIDE DEF b
      <4> QED BY <2>b, <3>1, <4>1, <4>2
    <3> QED BY <2>4, <3>3, <3>4 DEF Ch!Ask
  <2>5. ASSUME NEW k \in Chats, Ch!Comment(k) PROVE ChatInv'
    <3>1. agent[k] # None /\ agent[k].pc = "comment" /\ agent[k] \in Agents
          /\ UNCHANGED <<chat, running, sends, abandoned>> /\ comments \subseteq comments'
      BY <2>0, <2>5 DEF Ch!Comment, Ch!At, ChatOK
    <3>2. agent[k] \in [pc : {"comment"}, of : Nat, investigate : BOOLEAN]
      BY <3>1 DEF Agents
    <3>3. ASSUME NEW saved \in BOOLEAN, saved => agent[k].of \in comments',
                 Ch!Goes(k, Ch!ToFinish(agent[k], "answer", saved))
          PROVE  ChatInv'
      <4> DEFINE b == Ch!ToFinish(agent[k], "answer", saved)
      <4>1. b \in Agents /\ b.pc = "finish" /\ b.of = agent[k].of /\ b.saved = saved
        BY <3>2 DEF Agents, Ch!ToFinish, Ch!Texts
      <4>2. agent' = [agent EXCEPT ![k] = b]
        BY <3>3 DEF Ch!Goes
      <4> HIDE DEF b
      <4> QED BY <2>b, <3>1, <3>3, <4>1, <4>2
    <3> QED BY <2>5, <3>3 DEF Ch!Comment
  <2>6. ASSUME NEW k \in Chats, Ch!Finish(k) PROVE ChatInv'
    <3> DEFINE b == [pc |-> "done", of |-> agent[k].of]
               t == Ch!Replaced(chat[k], agent[k])
    <3>1. /\ agent[k] # None /\ agent[k].pc = "finish" /\ k \in running
          /\ chat' = [chat EXCEPT ![k] = t] /\ agent' = [agent EXCEPT ![k] = b]
          /\ UNCHANGED <<running, sends, abandoned, comments>>
      BY <2>0, <2>6 DEF Ch!Finish, Ch!At, Ch!Goes
    <3>2. ChatOK(t, b, abandoned, comments)
      BY <2>0, <3>1, ChatFinished
    <3> HIDE DEF t, b
    <3> QED BY <2>0, <2>a, <3>1, <3>2
  <2>7. ASSUME NEW k \in Chats, Ch!Done(k) PROVE ChatInv'
    <3>1. /\ agent[k] # None /\ agent[k].pc = "done" /\ running' = running \ {k}
          /\ agent' = [agent EXCEPT ![k] = None] /\ UNCHANGED <<chat, sends, abandoned, comments>>
      BY <2>7 DEF Ch!Done, Ch!At, Ch!Goes
    <3>2. ChatOK(chat[k], None, abandoned, comments)
      BY <2>0, <3>1, ChatDone
    <3>3. chat' = [chat EXCEPT ![k] = chat[k]]
      BY <2>0, <3>1
    <3> QED BY <2>0, <2>a, <3>1, <3>2, <3>3
  <2>8. CASE UNCHANGED Ch!vars
    BY <2>0, <2>8 DEF Ch!vars, ChatInv
  <2> QED BY <2>1, <2>2, <2>3, <2>4, <2>5, <2>6, <2>7, <2>8 DEF Ch!Next
<1>3. ChatInv => Ch!AnswersInPlace
  <2> SUFFICES ASSUME ChatInv, NEW k \in Chats, NEW i \in DOMAIN chat[k], chat[k][i].role = "agent"
               PROVE  /\ i > 1 /\ chat[k][i - 1].role = "user"
                      /\ IF chat[k][i].pending
                         THEN \/ chat[k][i - 1].of \in abandoned
                              \/ agent[k] # None /\ agent[k].of = chat[k][i - 1].of
                         ELSE /\ chat[k][i].of = chat[k][i - 1].of
                              /\ chat[k][i].saved => chat[k][i - 1].of \in comments
    BY DEF Ch!AnswersInPlace
  <2>1. chat[k] \in Seq(Turns) /\ i \in 1..Len(chat[k]) /\ TurnOK(chat[k], i, agent[k], abandoned, comments)
    BY DEF ChatInv, ChatOK
  <2> QED BY <2>1 DEF TurnOK
<1> QED BY <1>1, <1>2, <1>3, ChatRuns, PTL DEF Spec, AnswersInPlace

-----------------------------------------------------------------------------
(* Account logins: a session's process is started once, and until then and  *)
(* while it runs its account's entry names it; what a probe carries is      *)
(* believed as long as no logout overtook it.                               *)

AuthRequest ==
    [pc : {"probe"}, overtaken : BOOLEAN]
       \cup [pc : {"store"}, seen : SUBSET Accounts, overtaken : BOOLEAN]
       \cup [pc : {"invalidate", "logout", "register"}, on : Accounts]
       \cup [pc : {"start"}, of : Au!Sessions] \cup [pc : {"wait"}, on : Accounts, of : Au!Sessions]

AuthTypes ==
    /\ th \in [Clients -> AuthRequest \cup {None}] /\ signedIn \subseteq Accounts /\ late \in BOOLEAN
    /\ pending \in [Accounts -> Au!Sessions \cup {None}]
    /\ proc \in [Au!Sessions -> {"none", "registered", "running", "dead"}]
    /\ owner \in [Au!Sessions -> Accounts \cup {None}]

Tracked(s) ==
    proc[s] \in {"registered", "running"} => owner[s] \in Accounts /\ (pending[owner[s]] = s \/ s \in untracked)

StartsOnce ==
    \A t \in Clients : Au!At(t, "start") =>
        /\ proc[th[t].of] = "registered"
        /\ \A u \in Clients \ {t} : Au!At(u, "start") => th[u].of # th[t].of

LoginInv == StartsOnce /\ \A s \in Au!Sessions : Tracked(s)

\* An account signed in, lapsed, or whose logout has still to drop the cache.
Believed(a) ==
    \/ a \in signedIn \cup lapsed
    \/ \E t \in Clients : Au!At(t, "invalidate") /\ th[t].on = a

StatusInv ==
    /\ cache # None /\ ~late => \A a \in cache : Believed(a)
    /\ \A t \in Clients : Au!At(t, "store") /\ ~th[t].overtaken => \A a \in th[t].seen : Believed(a)

\* The record of a request says at which step it is.
LEMMA AuthShape ==
    ASSUME NEW r \in AuthRequest
    PROVE  /\ r.pc \in {"probe", "store", "invalidate", "logout", "register", "start", "wait"}
           /\ r.pc = "probe" => r \in [pc : {"probe"}, overtaken : BOOLEAN]
           /\ r.pc = "store" => r \in [pc : {"store"}, seen : SUBSET Accounts, overtaken : BOOLEAN]
           /\ r.pc \in {"invalidate", "logout", "register"} => r.on \in Accounts
           /\ r.pc = "start" => r.of \in Au!Sessions
           /\ r.pc = "wait" => r.on \in Accounts /\ r.of \in Au!Sessions
BY DEF AuthRequest

\* What another request's invalidate does to a request.
LEMMA OvertakenShape ==
    ASSUME None \notin AuthRequest, NEW r \in AuthRequest \cup {None}
    PROVE  /\ Au!Overtaken(r) \in AuthRequest \cup {None}
           /\ (Au!Overtaken(r) # None) <=> (r # None)
           /\ r # None => Au!Overtaken(r).pc = r.pc
           /\ r # None /\ r.pc \notin {"probe", "store"} => Au!Overtaken(r) = r
           /\ r # None /\ r.pc = "store" => Au!Overtaken(r).overtaken = TRUE
<1>1. CASE r = None
  BY <1>1 DEF Au!Overtaken
<1>2. CASE r # None /\ r.pc \notin {"probe", "store"}
  BY <1>2 DEF Au!Overtaken
<1>3. CASE r # None /\ r.pc = "probe"
  <2>1. r \in [pc : {"probe"}, overtaken : BOOLEAN] /\ Au!Overtaken(r) = [r EXCEPT !.overtaken = TRUE]
    BY <1>3, AuthShape DEF Au!Overtaken
  <2>2. [r EXCEPT !.overtaken = TRUE] \in [pc : {"probe"}, overtaken : BOOLEAN]
    BY <2>1
  <2> QED BY <1>3, <2>1, <2>2 DEF AuthRequest
<1>4. CASE r # None /\ r.pc = "store"
  <2>1. /\ r \in [pc : {"store"}, seen : SUBSET Accounts, overtaken : BOOLEAN]
        /\ Au!Overtaken(r) = [r EXCEPT !.overtaken = TRUE]
    BY <1>4, AuthShape DEF Au!Overtaken
  <2>2. /\ [r EXCEPT !.overtaken = TRUE] \in [pc : {"store"}, seen : SUBSET Accounts, overtaken : BOOLEAN]
        /\ [r EXCEPT !.overtaken = TRUE].overtaken = TRUE
    BY <2>1
  <2> QED BY <1>4, <2>1, <2>2 DEF AuthRequest
<1> QED BY <1>1, <1>2, <1>3, <1>4

\* A request goes on: the others stay where they are.
LEMMA AuthGoes ==
    ASSUME AuthTypes, NEW t \in Clients, NEW r \in AuthRequest \cup {None}, Au!Goes(t, r)
    PROVE  /\ th' \in [Clients -> AuthRequest \cup {None}] /\ th'[t] = r
           /\ \A u \in Clients \ {t} : th'[u] = th[u]
BY DEF AuthTypes, Au!Goes

\* The session Register takes was not used before.
LEMMA FreshSession ==
    ASSUME AuthTypes, Au!Used # Au!Sessions
    PROVE  Au!NewSession \in Au!Sessions /\ proc[Au!NewSession] = "none"
<1>1. \E s \in Au!Sessions : s \notin Au!Used
  BY DEF Au!Used
<1>2. Au!NewSession \in Au!Sessions /\ Au!NewSession \notin Au!Used
  BY <1>1 DEF Au!NewSession
<1> QED BY <1>2 DEF Au!Used

\* The types hold: every step leaves a request at a step it can be at.
LEMMA AuthTyped ==
    ASSUME None \notin AuthRequest, AuthTypes, LoginInv, [Au!Next]_Au!vars
    PROVE  AuthTypes'
<1> USE DEF AuthTypes
<1>1. ASSUME NEW t \in Clients, Au!StatusAll(t) PROVE AuthTypes'
  <2>1. [pc |-> "probe", overtaken |-> FALSE] \in AuthRequest
    BY DEF AuthRequest
  <2> QED BY <1>1, <2>1, AuthGoes DEF Au!StatusAll, Au!Begins
<1>2. ASSUME NEW t \in Clients, Au!Probe(t) PROVE AuthTypes'
  <2>1. th[t] \in [pc : {"probe"}, overtaken : BOOLEAN]
    BY <1>2, AuthShape DEF Au!Probe, Au!At
  <2>2. ASSUME NEW S \in SUBSET signedIn
        PROVE  [pc |-> "store", seen |-> S, overtaken |-> th[t].overtaken] \in AuthRequest
    BY <2>1 DEF AuthRequest
  <2> QED BY <1>2, <2>2, AuthGoes DEF Au!Probe
<1>3. ASSUME NEW t \in Clients, Au!Store(t) PROVE AuthTypes'
  <2>1. th[t].overtaken \in BOOLEAN
    BY <1>3, AuthShape DEF Au!Store, Au!At
  <2> QED BY <1>3, <2>1, AuthGoes DEF Au!Store
<1>4. ASSUME NEW t \in Clients, Au!Invalidates(t) PROVE AuthTypes'
  BY <1>4, OvertakenShape DEF Au!Invalidates
<1>5. ASSUME NEW t \in Clients, Au!LogoutCLI(t) PROVE AuthTypes'
  <2>1. [pc |-> "invalidate", on |-> th[t].on] \in AuthRequest
    BY <1>5, AuthShape DEF Au!LogoutCLI, Au!At, AuthRequest
  <2> QED BY <1>5, <2>1, AuthGoes DEF Au!LogoutCLI
<1>6. ASSUME NEW t \in Clients, Au!Register(t) PROVE AuthTypes'
  <2> DEFINE s == Au!NewSession
             a == th[t].on
  <2>1. s \in Au!Sessions
    BY <1>6, FreshSession DEF Au!Register
  <2>2. a \in Accounts
    BY <1>6, AuthShape DEF Au!Register, Au!At
  <2>3. [pc |-> "start", of |-> s] \in AuthRequest
    BY <2>1 DEF AuthRequest
  <2>4. /\ proc' = [Au!Superseded(a) EXCEPT ![s] = "registered"]
        /\ owner' = [owner EXCEPT ![s] = a] /\ pending' = [pending EXCEPT ![a] = s]
        /\ Au!Goes(t, [pc |-> "start", of |-> s]) /\ UNCHANGED <<signedIn, late>>
    BY <1>6 DEF Au!Register
  <2>5. Au!Superseded(a) \in [Au!Sessions -> {"none", "registered", "running", "dead"}]
    BY DEF Au!Superseded, Au!Killed
  <2> HIDE DEF s, a
  <2> QED BY <2>1, <2>2, <2>3, <2>4, <2>5, AuthGoes
<1>7. ASSUME NEW t \in Clients, Au!Start(t) PROVE AuthTypes'
  <2>1. /\ Au!Goes(t, None) /\ UNCHANGED <<signedIn, late, pending, owner>>
        /\ \E now \in {"running", "dead"} : proc' = [proc EXCEPT ![th[t].of] = now]
    BY <1>7 DEF Au!Start
  <2>2. proc' \in [Au!Sessions -> {"none", "registered", "running", "dead"}]
    BY <2>1
  <2> QED BY <2>1, <2>2, AuthGoes
<1>8. ASSUME NEW t \in Clients, Au!Submitted(t) PROVE AuthTypes'
  <2>1. [pc |-> "invalidate", on |-> th[t].on] \in AuthRequest
    BY <1>8, AuthShape DEF Au!Submitted, Au!At, AuthRequest
  <2> QED BY <1>8, <2>1, AuthGoes DEF Au!Submitted
<1>9. ASSUME NEW t \in Clients, Au!SubmitTimeout(t) PROVE AuthTypes'
  BY <1>9, AuthGoes DEF Au!SubmitTimeout
<1>10. ASSUME NEW t \in Clients, NEW a \in Accounts, Au!Logout(t, a) PROVE AuthTypes'
  <2>1. [pc |-> "logout", on |-> a] \in AuthRequest
    BY DEF AuthRequest
  <2> QED BY <1>10, <2>1, AuthGoes DEF Au!Logout, Au!Begins
<1>11. ASSUME NEW t \in Clients, NEW a \in Accounts, Au!BeginLogin(t, a) PROVE AuthTypes'
  <2>1. [pc |-> "register", on |-> a] \in AuthRequest
    BY DEF AuthRequest
  <2> QED BY <1>11, <2>1, AuthGoes DEF Au!BeginLogin, Au!Begins
<1>12. ASSUME NEW t \in Clients, NEW a \in Accounts, Au!SubmitCode(t, a) PROVE AuthTypes'
  <2>1. pending[a] # None => [pc |-> "wait", on |-> a, of |-> pending[a]] \in AuthRequest
    BY DEF AuthRequest
  <2> QED BY <1>12, <2>1, AuthGoes DEF Au!SubmitCode, Au!Begins
<1>13. ASSUME NEW t \in Clients, NEW a \in Accounts, Au!CancelLogin(t, a) PROVE AuthTypes'
  BY <1>13, AuthGoes DEF Au!CancelLogin, Au!Begins, Au!Killed
<1>14. ASSUME NEW s \in Au!Sessions, Au!Exits(s) PROVE AuthTypes'
  <2>1. owner[s] \in Accounts
    BY <1>14 DEF Au!Exits, LoginInv, Tracked
  <2> QED BY <1>14, <2>1 DEF Au!Exits
<1>15. CASE Au!Expire \/ (\E a \in Accounts : Au!Lapse(a)) \/ UNCHANGED Au!vars
  BY <1>15 DEF Au!Expire, Au!Lapse, Au!vars
<1> HIDE DEF AuthTypes
<1> QED BY <1>1, <1>2, <1>3, <1>4, <1>5, <1>6, <1>7, <1>8, <1>9, <1>10, <1>11, <1>12, <1>13, <1>14,
           <1>15 DEF Au!Next

\* A step that leaves the sessions alone and brings no request to cmd.Start.
LEMMA SessionsLeft ==
    ASSUME LoginInv, UNCHANGED <<proc, owner, pending>>, untracked \subseteq untracked',
           \A u \in Clients : Au!At(u, "start")' => th'[u] = th[u]
    PROVE  LoginInv'
<1>1. \A s \in Au!Sessions : Tracked(s)'
  BY DEF LoginInv, Tracked, Au!Sessions
<1>2. StartsOnce'
  BY DEF LoginInv, StartsOnce, Au!At
<1> QED BY <1>1, <1>2 DEF LoginInv

\* kill ends the session of an account, or finds it without a process and loses track of it.
LEMMA KillEffect ==
    ASSUME AuthTypes, None \notin Au!Sessions, NEW a \in Accounts, NEW s \in Au!Sessions
    PROVE  /\ Au!Killed(pending[a]) \in [Au!Sessions -> {"none", "registered", "running", "dead"}]
           /\ Au!Killed(pending[a])[s] \in {proc[s], "dead"}
           /\ proc[s] # "running" => Au!Killed(pending[a])[s] = proc[s]
           /\ proc[s] = "running" /\ pending[a] = s => Au!Killed(pending[a])[s] = "dead"
           /\ proc[s] = "registered" /\ pending[a] = s => s \in Au!KillMissed(pending[a])
BY DEF AuthTypes, Au!Killed, Au!KillMissed

\* Every running login process stays within reach.
LEMMA LoginKept ==
    ASSUME None \notin AuthRequest, None \notin Au!Sessions,
           AuthTypes, LoginInv, [Au!Next]_Au!vars
    PROVE  LoginInv'
<1>1. CASE \/ Au!Expire \/ \E a \in Accounts : Au!Lapse(a)
           \/ UNCHANGED Au!vars
  BY <1>1, SessionsLeft DEF Au!Expire, Au!Lapse, Au!vars
<1>2. ASSUME NEW t \in Clients,
             \/ Au!StatusAll(t) \/ Au!Probe(t) \/ Au!Store(t) \/ Au!LogoutCLI(t) \/ Au!SubmitTimeout(t)
             \/ \E a \in Accounts : Au!Logout(t, a) \/ Au!BeginLogin(t, a) \/ Au!SubmitCode(t, a)
      PROVE  LoginInv'
  <2>1. UNCHANGED <<proc, owner, pending, untracked>>
    BY <1>2 DEF Au!StatusAll, Au!Probe, Au!Store, Au!LogoutCLI, Au!SubmitTimeout, Au!Logout, Au!BeginLogin,
                Au!SubmitCode
  <2>2. \E r : Au!Goes(t, r) /\ (r = None \/ r.pc # "start")
    <3>1. CASE Au!StatusAll(t) \/ Au!Probe(t) \/ Au!Store(t) \/ Au!LogoutCLI(t) \/ Au!SubmitTimeout(t)
      <4>1. CASE Au!StatusAll(t)
        BY <4>1 DEF Au!StatusAll, Au!Begins
      <4>2. CASE Au!Probe(t)
        BY <4>2 DEF Au!Probe
      <4>3. CASE Au!Store(t) \/ Au!SubmitTimeout(t)
        BY <4>3 DEF Au!Store, Au!SubmitTimeout
      <4>4. CASE Au!LogoutCLI(t)
        BY <4>4 DEF Au!LogoutCLI
      <4> QED BY <3>1, <4>1, <4>2, <4>3, <4>4
    <3>2. ASSUME NEW a \in Accounts, Au!Logout(t, a) \/ Au!BeginLogin(t, a) \/ Au!SubmitCode(t, a)
          PROVE  \E r : Au!Goes(t, r) /\ (r = None \/ r.pc # "start")
      BY <3>2 DEF Au!Logout, Au!BeginLogin, Au!SubmitCode, Au!Begins
    <3> QED BY <1>2, <3>1, <3>2
  <2>3. \A u \in Clients : Au!At(u, "start")' => th'[u] = th[u]
    BY <2>2 DEF AuthTypes, Au!Goes, Au!At
  <2> QED BY <2>1, <2>3, SessionsLeft
<1>3. ASSUME NEW t \in Clients, Au!Invalidates(t) PROVE LoginInv'
  <2>1. \A u \in Clients : Au!At(u, "start")' => th'[u] = th[u]
    BY <1>3, OvertakenShape DEF AuthTypes, Au!Invalidates, Au!At
  <2> QED BY <1>3, <2>1, SessionsLeft DEF Au!Invalidates
<1>4. ASSUME NEW t \in Clients, Au!Start(t) PROVE LoginInv'
  <2>1. PICK now \in {"running", "dead"} : proc' = [proc EXCEPT ![th[t].of] = now]
    BY <1>4 DEF Au!Start
  <2>2. /\ th[t].of \in Au!Sessions /\ proc[th[t].of] = "registered" /\ Au!At(t, "start")
        /\ th'[t] = None /\ \A u \in Clients \ {t} : th'[u] = th[u]
        /\ UNCHANGED <<owner, pending, untracked>>
    BY <1>4, AuthGoes, AuthShape DEF Au!Start, Au!At, AuthTypes, LoginInv, StartsOnce
  <2>3. ASSUME NEW s \in Au!Sessions PROVE Tracked(s)'
    BY <2>1, <2>2 DEF LoginInv, Tracked, AuthTypes
  <2>4. StartsOnce'
    <3>1. ASSUME NEW u \in Clients, Au!At(u, "start")' PROVE u # t /\ Au!At(u, "start") /\ th'[u] = th[u]
      BY <2>2, <3>1 DEF Au!At
    <3>2. ASSUME NEW u \in Clients, Au!At(u, "start")' PROVE proc'[th[u].of] = "registered"
      BY <2>1, <2>2, <3>1, <3>2 DEF LoginInv, StartsOnce, AuthTypes
    <3> QED BY <3>1, <3>2 DEF LoginInv, StartsOnce
  <2> QED BY <2>3, <2>4 DEF LoginInv, Au!Sessions
<1>5. ASSUME NEW s \in Au!Sessions, Au!Exits(s) PROVE LoginInv'
  <2>1. /\ proc[s] = "running" /\ proc' = [proc EXCEPT ![s] = "dead"]
        /\ UNCHANGED <<pending, owner, th, untracked>>
    BY <1>5 DEF Au!Exits
  <2>2. ASSUME NEW q \in Au!Sessions PROVE Tracked(q)'
    BY <2>1 DEF LoginInv, Tracked, AuthTypes
  <2>3. StartsOnce'
    BY <2>1, AuthShape DEF LoginInv, StartsOnce, AuthTypes, Au!At
  <2> QED BY <2>2, <2>3 DEF LoginInv, Au!Sessions
<1>6. ASSUME NEW t \in Clients, Au!Submitted(t) PROVE LoginInv'
  <2> DEFINE a == th[t].on
  <2>1. /\ a \in Accounts /\ proc[th[t].of] = "dead" /\ pending' = [pending EXCEPT ![a] = None]
        /\ untracked' = untracked \cup ({pending[a]} \ {None, th[t].of})
        /\ UNCHANGED <<proc, owner>> /\ Au!Goes(t, [pc |-> "invalidate", on |-> a])
    BY <1>6, AuthShape DEF Au!Submitted, Au!At, AuthTypes
  <2> HIDE DEF a
  <2>2. ASSUME NEW s \in Au!Sessions PROVE Tracked(s)'
    BY <2>1 DEF LoginInv, Tracked, AuthTypes
  <2>3. StartsOnce'
    BY <2>1 DEF LoginInv, StartsOnce, AuthTypes, Au!Goes, Au!At
  <2> QED BY <2>2, <2>3 DEF LoginInv, Au!Sessions
<1>7. ASSUME NEW t \in Clients, NEW a \in Accounts, Au!CancelLogin(t, a) PROVE LoginInv'
  <2>1. /\ proc' = Au!Killed(pending[a]) /\ untracked' = untracked \cup Au!KillMissed(pending[a])
        /\ pending' = [pending EXCEPT ![a] = None] /\ owner' = owner /\ Au!Goes(t, None)
    BY <1>7 DEF Au!CancelLogin, Au!Begins
  <2>2. ASSUME NEW s \in Au!Sessions PROVE Tracked(s)'
    BY <2>1, KillEffect DEF LoginInv, Tracked, AuthTypes
  <2>3. StartsOnce'
    <3>1. ASSUME NEW u \in Clients, Au!At(u, "start")' PROVE Au!At(u, "start") /\ th'[u] = th[u]
      BY <2>1, <3>1 DEF Au!At, Au!Goes, AuthTypes
    <3>2. ASSUME NEW u \in Clients, Au!At(u, "start") PROVE proc'[th[u].of] = "registered"
      <4>1. th[u].of \in Au!Sessions /\ proc[th[u].of] = "registered"
        BY <3>2, AuthShape DEF Au!At, AuthTypes, LoginInv, StartsOnce
      <4> QED BY <2>1, <4>1, KillEffect
    <3> QED BY <3>1, <3>2 DEF LoginInv, StartsOnce
  <2> QED BY <2>2, <2>3 DEF LoginInv, Au!Sessions
<1>8. ASSUME NEW t \in Clients, Au!Register(t) PROVE LoginInv'
  <2> DEFINE n == Au!NewSession
             a == th[t].on
  <2>1. n \in Au!Sessions /\ proc[n] = "none"
    BY <1>8, FreshSession DEF Au!Register
  <2>2. /\ a \in Accounts /\ proc' = [Au!Killed(pending[a]) EXCEPT ![n] = "registered"]
        /\ untracked' = untracked \cup Au!KillMissed(pending[a])
        /\ owner' = [owner EXCEPT ![n] = a] /\ pending' = [pending EXCEPT ![a] = n]
        /\ Au!Goes(t, [pc |-> "start", of |-> n])
    BY <1>8, AuthShape DEF Au!Register, Au!At, AuthTypes, Au!Superseded
  <2>3. Au!Killed(pending[a]) \in [Au!Sessions -> {"none", "registered", "running", "dead"}]
    BY <2>1, <2>2, KillEffect
  <2>4. [pc |-> "start", of |-> n] \in AuthRequest
    BY <2>1 DEF AuthRequest
  <2>5. /\ th'[t] = [pc |-> "start", of |-> n] /\ \A u \in Clients \ {t} : th'[u] = th[u]
    BY <2>2, <2>4, AuthGoes
  <2> HIDE DEF n, a
  <2>6. ASSUME NEW s \in Au!Sessions PROVE Tracked(s)'
    BY <2>1, <2>2, <2>3, KillEffect DEF LoginInv, Tracked, AuthTypes
  <2>7. StartsOnce'
    <3>1. ASSUME NEW u \in Clients, Au!At(u, "start")', u # t
          PROVE  /\ Au!At(u, "start") /\ th'[u] = th[u] /\ th[u].of # n
                 /\ proc'[th[u].of] = "registered"
      <4>1. Au!At(u, "start") /\ th'[u] = th[u]
        BY <2>5, <3>1 DEF Au!At
      <4>2. th[u].of \in Au!Sessions /\ proc[th[u].of] = "registered"
        BY <4>1, AuthShape DEF Au!At, AuthTypes, LoginInv, StartsOnce
      <4> QED BY <2>1, <2>2, <2>3, <4>1, <4>2, KillEffect
    <3>2. th'[t].of = n /\ proc'[n] = "registered"
      BY <2>1, <2>2, <2>3, <2>5
    <3> QED BY <3>1, <3>2 DEF LoginInv, StartsOnce
  <2> QED BY <2>6, <2>7 DEF LoginInv, Au!Sessions
<1> QED BY <1>1, <1>2, <1>3, <1>4, <1>5, <1>6, <1>7, <1>8 DEF Au!Next

\* A step that brings no request to the cache and takes no belief away.
LEMMA StatusLeft ==
    ASSUME StatusInv, UNCHANGED <<cache, late>>, \A a : Believed(a) => Believed(a)',
           \A u \in Clients : Au!At(u, "store")' => th'[u] = th[u]
    PROVE  StatusInv'
BY DEF StatusInv, Au!At

\* A request that is not about to drop the cache takes no belief away as it goes on.
LEMMA BeliefKept ==
    ASSUME AuthTypes, NEW t \in Clients, ~Au!At(t, "invalidate"), NEW r, Au!Goes(t, r), NEW a, Believed(a),
           a \in signedIn \cup lapsed => a \in signedIn' \cup lapsed'
    PROVE  Believed(a)'
BY DEF Believed, AuthTypes, Au!Goes, Au!At

\* The status of the accounts stays right.
LEMMA StatusKept ==
    ASSUME None \notin AuthRequest, AuthTypes, LoginInv, StatusInv, [Au!Next]_Au!vars
    PROVE  StatusInv'
<1>1. CASE UNCHANGED Au!vars
  BY <1>1, StatusLeft DEF Au!vars, Believed, Au!At
<1>2. CASE Au!Expire
  BY <1>2 DEF Au!Expire, StatusInv, Believed, Au!At
<1>3. ASSUME NEW a \in Accounts, Au!Lapse(a) PROVE StatusInv'
  BY <1>3, StatusLeft DEF Au!Lapse, Believed, Au!At
<1>4. ASSUME NEW s \in Au!Sessions, Au!Exits(s) PROVE StatusInv'
  BY <1>4, StatusLeft DEF Au!Exits, Believed, Au!At
<1>5. ASSUME NEW t \in Clients, Au!Invalidates(t) PROVE StatusInv'
  <2>1. cache' = None
    BY <1>5 DEF Au!Invalidates, Au!Invalidate
  <2>2. ASSUME NEW u \in Clients, Au!At(u, "store")' PROVE th'[u].overtaken
    BY <1>5, <2>2, OvertakenShape DEF Au!Invalidates, AuthTypes, Au!At
  <2> QED BY <2>1, <2>2 DEF StatusInv
<1>6. ASSUME NEW t \in Clients, Au!Probe(t) PROVE StatusInv'
  <2>1. PICK S \in SUBSET signedIn : Au!Goes(t, [pc |-> "store", seen |-> S, overtaken |-> th[t].overtaken])
    BY <1>6 DEF Au!Probe
  <2>2. /\ UNCHANGED <<signedIn, lapsed, cache, late>>
        /\ ~Au!At(t, "invalidate")
    BY <1>6 DEF Au!Probe, Au!At
  <2>3. \A a : Believed(a) => Believed(a)'
    BY <2>1, <2>2, BeliefKept
  <2>4. th'[t].seen \subseteq signedIn /\ \A u \in Clients \ {t} : th'[u] = th[u]
    BY <2>1 DEF Au!Goes, AuthTypes
  <2>5. ASSUME NEW a \in signedIn PROVE Believed(a)'
    BY <2>2 DEF Believed
  <2> QED BY <2>2, <2>3, <2>4, <2>5 DEF StatusInv, Au!At
<1>7. ASSUME NEW t \in Clients, Au!Store(t) PROVE StatusInv'
  <2>1. /\ Au!Goes(t, None) /\ Au!At(t, "store") /\ ~Au!At(t, "invalidate") /\ UNCHANGED <<signedIn, lapsed>>
        /\ cache' = th[t].seen /\ late' = th[t].overtaken
    BY <1>7 DEF Au!Store, Au!At
  <2>2. \A a : Believed(a) => Believed(a)'
    BY <2>1, BeliefKept
  <2>3. th'[t] = None /\ \A u \in Clients \ {t} : th'[u] = th[u]
    BY <2>1 DEF Au!Goes, AuthTypes
  <2> QED BY <2>1, <2>2, <2>3 DEF StatusInv, Au!At
<1>8. ASSUME NEW t \in Clients, Au!LogoutCLI(t) PROVE StatusInv'
  <2>1. /\ Au!Goes(t, [pc |-> "invalidate", on |-> th[t].on]) /\ ~Au!At(t, "invalidate")
        /\ signedIn \ {th[t].on} \subseteq signedIn' /\ UNCHANGED <<cache, lapsed, late>>
        /\ [pc |-> "invalidate", on |-> th[t].on] \in AuthRequest
    BY <1>8, AuthShape DEF Au!LogoutCLI, Au!At, AuthTypes, AuthRequest
  <2>2. ASSUME NEW a, a = th[t].on PROVE Believed(a)'
    BY <2>1, <2>2 DEF Believed, Au!Goes, Au!At, AuthTypes
  <2>3. \A a : Believed(a) => Believed(a)'
    BY <2>1, <2>2, BeliefKept
  <2>4. \A u \in Clients : Au!At(u, "store")' => th'[u] = th[u]
    BY <2>1 DEF Au!Goes, AuthTypes, Au!At
  <2> QED BY <2>1, <2>3, <2>4, StatusLeft
<1>9. ASSUME NEW t \in Clients, NEW r, Au!Goes(t, r), r = None \/ r.pc # "store", ~Au!At(t, "invalidate"),
             UNCHANGED <<signedIn, lapsed, cache, late>>
      PROVE  StatusInv'
  <2>1. \A a : Believed(a) => Believed(a)'
    BY <1>9, BeliefKept
  <2>2. \A u \in Clients : Au!At(u, "store")' => th'[u] = th[u]
    BY <1>9 DEF Au!Goes, AuthTypes, Au!At
  <2> QED BY <1>9, <2>1, <2>2, StatusLeft
<1>10. ASSUME NEW t \in Clients,
              Au!StatusAll(t) \/ Au!Register(t) \/ Au!Start(t) \/ Au!Submitted(t) \/ Au!SubmitTimeout(t)
       PROVE  StatusInv'
  <2>1. UNCHANGED <<signedIn, lapsed, cache, late>> /\ ~Au!At(t, "invalidate")
    BY <1>10 DEF Au!StatusAll, Au!Register, Au!Start, Au!Submitted, Au!SubmitTimeout, Au!Begins, Au!At
  <2>2. \/ Au!Goes(t, [pc |-> "probe", overtaken |-> FALSE])
        \/ Au!Goes(t, [pc |-> "start", of |-> Au!NewSession])
        \/ Au!Goes(t, [pc |-> "invalidate", on |-> th[t].on])
        \/ Au!Goes(t, None)
    <3>1. CASE Au!StatusAll(t)
      BY <3>1 DEF Au!StatusAll, Au!Begins
    <3>2. CASE Au!Register(t)
      BY <3>2 DEF Au!Register
    <3>3. CASE Au!Start(t) \/ Au!SubmitTimeout(t)
      BY <3>3 DEF Au!Start, Au!SubmitTimeout
    <3>4. CASE Au!Submitted(t)
      BY <3>4 DEF Au!Submitted
    <3> QED BY <1>10, <3>1, <3>2, <3>3, <3>4
  <2> QED BY <1>9, <2>1, <2>2
<1>11. ASSUME NEW t \in Clients, NEW a \in Accounts,
              Au!Logout(t, a) \/ Au!BeginLogin(t, a) \/ Au!SubmitCode(t, a) \/ Au!CancelLogin(t, a)
       PROVE  StatusInv'
  <2>1. UNCHANGED <<signedIn, lapsed, cache, late>> /\ ~Au!At(t, "invalidate")
    BY <1>11 DEF Au!Logout, Au!BeginLogin, Au!SubmitCode, Au!CancelLogin, Au!Begins, Au!At
  <2>2. \/ Au!Goes(t, [pc |-> "logout", on |-> a])
        \/ Au!Goes(t, [pc |-> "register", on |-> a])
        \/ Au!Goes(t, [pc |-> "wait", on |-> a, of |-> pending[a]])
        \/ Au!Goes(t, None)
    BY <1>11 DEF Au!Logout, Au!BeginLogin, Au!SubmitCode, Au!CancelLogin, Au!Begins
  <2> QED BY <1>9, <2>1, <2>2
<1> QED BY <1>1, <1>2, <1>3, <1>4, <1>5, <1>6, <1>7, <1>8, <1>10, <1>11 DEF Au!Next

\* accountauth.go: for every number of accounts, requests and logins, a login process that runs can
\* be reached by the operator's code, by cancel and by the next login, and no account that a logout
\* signed out is shown as signed in, with the exceptions AuthSound names.
THEOREM LoginsAreSound ==
    ASSUME None \notin AuthRequest, None \notin Au!Sessions
    PROVE  Spec => []AuthSound
<1>1. Au!Init => AuthTypes /\ LoginInv /\ StatusInv
  BY DEF Au!Init, AuthTypes, LoginInv, StartsOnce, Tracked, StatusInv, Au!At
<1>2. AuthTypes /\ LoginInv /\ StatusInv /\ [Au!Next]_Au!vars => AuthTypes' /\ LoginInv' /\ StatusInv'
  BY AuthTyped, LoginKept, StatusKept
<1>3. AuthTypes /\ LoginInv /\ StatusInv => Au!AuthSound
  BY DEF AuthTypes, LoginInv, Tracked, StatusInv, Believed, Au!AuthSound, Au!LoginsTracked, Au!StatusRight
<1> QED BY <1>1, <1>2, <1>3, AuthRuns, PTL DEF Spec, AuthSound

-----------------------------------------------------------------------------
(* The scanner: a file has its blob before it is rewritten, and the manifest *)
(* in the hands of an optimizeFiles knows every file rewritten so far; the   *)
(* file at hand and, once its blob is dropped, the one a restore is at are   *)
(* the exceptions.                                                           *)

ScanContent(c) == c = [rev |-> c.rev, passes |-> c.passes]

\* p can be restored if and only if it was rewritten; man is the manifest that counts.
Undoable(p, man) ==
    /\ replaced[p] # None => p \in man /\ blob[p] = replaced[p]
    /\ p \in man => blob[p] # None

ScanInv ==
    /\ DOMAIN content = Files /\ DOMAIN blob = Files /\ DOMAIN replaced = Files
    /\ \A p \in Files : ScanContent(content[p]) /\ (blob[p] # None => ScanContent(blob[p]))
    /\ op # None => op.kind \in {"optimize", "restore"}
    /\ op = None => \A p \in Files \ doubt : Undoable(p, manifest)
    /\ op # None /\ op.kind = "optimize" =>
          /\ op.stage \in {"read", "backup", "write"} /\ manifest \subseteq op.man
          /\ op.stage # "read" /\ Sc!Current \in Files => ScanContent(op.data)
          /\ op.stage = "write" /\ Sc!Current \in Files => blob[Sc!Current] = op.data
          /\ \A p \in Files \ doubt : (op.stage = "write" /\ p = Sc!Current) \/ Undoable(p, op.man)
    /\ op # None /\ op.kind = "restore" =>
          /\ op = [kind |-> "restore", path |-> op.path, stage |-> op.stage]
          /\ op.stage = "save" /\ op.path \in Files => replaced[op.path] = None
          /\ \A p \in Files \ doubt : (op.stage # "drop" /\ p = op.path) \/ Undoable(p, manifest)

\* None is no content and no operation.
NoneIsApart ==
    /\ \A x, y : [rev |-> x, passes |-> y] # None
    /\ \A t, m, s, d : Sc!Optimize(t, m, s, d) # None
    /\ \A k, p, s : [kind |-> k, path |-> p, stage |-> s] # None

\* An optimizeFiles that goes on: its fields, and what the invariant then asks for.
LEMMA Optimized ==
    ASSUME NoneIsApart, NEW t, NEW m, NEW g, NEW d, op' = Sc!Optimize(t, m, g, d),
           DOMAIN content' = Files /\ DOMAIN blob' = Files /\ DOMAIN replaced' = Files,
           \A p \in Files : ScanContent(content'[p]) /\ (blob'[p] # None => ScanContent(blob'[p])),
           g \in {"read", "backup", "write"}, manifest' \subseteq m,
           g # "read" /\ Sc!Current' \in Files => ScanContent(d),
           g = "write" /\ Sc!Current' \in Files => blob'[Sc!Current'] = d,
           \A p \in Files \ doubt' :
               \/ g = "write" /\ p = Sc!Current'
               \/ /\ replaced'[p] # None => p \in m /\ blob'[p] = replaced'[p]
                  /\ p \in m => blob'[p] # None
    PROVE  ScanInv'
<1>1. op' # None /\ op'.kind = "optimize" /\ op'.man = m /\ op'.stage = g /\ op'.data = d
  BY DEF NoneIsApart, Sc!Optimize
<1> QED BY <1>1 DEF ScanInv, ScanContent, Undoable, Sc!Current

\* scan.go: whatever is scanned, optimized and restored, in any order and with any edits, a rewritten
\* file can be restored to what the rewrite replaced, with the exceptions Reversible names.
THEOREM RewritesReversible ==
    ASSUME NoneIsApart
    PROVE  Spec => []Reversible
<1>1. Sc!Init => ScanInv
  BY DEF Sc!Init, ScanInv, ScanContent, Undoable
<1>2. ScanInv /\ [Sc!Next]_Sc!vars => ScanInv'
  <2> SUFFICES ASSUME ScanInv, [Sc!Next]_Sc!vars PROVE ScanInv'
    OBVIOUS
  <2>0. /\ DOMAIN content = Files /\ DOMAIN blob = Files /\ DOMAIN replaced = Files
        /\ \A p \in Files : ScanContent(content[p]) /\ content[p] # None /\ (blob[p] # None => ScanContent(blob[p]))
    BY DEF ScanInv, ScanContent, NoneIsApart
  <2>a. CASE UNCHANGED <<content, blob, manifest, op, replaced, doubt>>
    BY <2>a DEF ScanInv, ScanContent, Undoable, Sc!Current
  <2>1. CASE Sc!OptimizeBegin
    <3>1. PICK S : op' = Sc!Optimize(S, manifest, "read", None)
      BY <2>1 DEF Sc!OptimizeBegin
    <3>2. op = None /\ UNCHANGED <<content, blob, manifest, replaced, doubt>>
      BY <2>1 DEF Sc!OptimizeBegin, Sc!stores, Sc!history
    <3>3. \A p \in Files \ doubt : Undoable(p, manifest)
      BY <3>2 DEF ScanInv
    <3> QED BY <2>0, <3>1, <3>2, <3>3, Optimized DEF Undoable
  \* What the invariant says of the optimizeFiles under way.
  <2>b. ASSUME NEW g, Sc!At(g)
        PROVE  /\ op.stage = g /\ manifest \subseteq op.man
               /\ g # "read" /\ Sc!Current \in Files => ScanContent(op.data)
               /\ g = "write" /\ Sc!Current \in Files => blob[Sc!Current] = op.data
               /\ \A p \in Files \ doubt : (g = "write" /\ p = Sc!Current) \/ Undoable(p, op.man)
    BY <2>b DEF ScanInv, Sc!At
  <2>2. CASE Sc!ReadFile
    <3>1. Sc!At("read") /\ UNCHANGED <<content, blob, manifest, replaced, doubt>>
      BY <2>2 DEF Sc!ReadFile, Sc!stores, Sc!history
    <3>2. \/ op' = Sc!Optimize(op.todo, op.man, "backup", content[Sc!Current])
          \/ op' = Sc!NextFile(op)
      BY <2>2 DEF Sc!ReadFile
    <3>3. manifest \subseteq op.man /\ \A p \in Files \ doubt : Undoable(p, op.man)
      BY <2>b, <3>1
    <3>4. CASE op' = Sc!NextFile(op)
      BY <2>0, <3>1, <3>3, <3>4, Optimized DEF Undoable, Sc!NextFile
    <3>5. CASE op' = Sc!Optimize(op.todo, op.man, "backup", content[Sc!Current])
      <4>1. Sc!Current' = Sc!Current
        BY <3>5 DEF Sc!Current, Sc!Optimize
      <4> QED BY <2>0, <3>1, <3>3, <3>5, <4>1, Optimized DEF Undoable
    <3> QED BY <3>2, <3>4, <3>5
  <2>3. CASE Sc!Backup
    <3>1. /\ Sc!At("backup") /\ blob' = [blob EXCEPT ![Sc!Current] = op.data]
          /\ op' = Sc!Optimize(op.todo, op.man, "write", op.data)
          /\ UNCHANGED <<content, manifest, replaced, doubt>>
      BY <2>3 DEF Sc!Backup, Sc!history
    <3>2. Sc!Current' = Sc!Current
      BY <3>1 DEF Sc!Current, Sc!Optimize
    <3>3. /\ manifest \subseteq op.man /\ (Sc!Current \in Files => ScanContent(op.data))
          /\ \A p \in Files \ doubt : Undoable(p, op.man)
      BY <2>b, <3>1
    <3> QED BY <2>0, <3>1, <3>2, <3>3, Optimized DEF Undoable
  <2>4. CASE Sc!BackupFails
    BY <2>0, <2>4, <2>b, Optimized DEF Sc!BackupFails, Sc!stores, Sc!history, Undoable, Sc!NextFile
  <2>5. CASE Sc!Rewrite
    BY <2>0, <2>5, <2>b, Optimized DEF Sc!Rewrite, Undoable, Sc!Noted, Sc!Current, Sc!Lean, ScanContent
  <2>6. CASE Sc!RewriteFails
    BY <2>0, <2>6, <2>b, Optimized DEF Sc!RewriteFails, Sc!stores, Undoable, Sc!NextFile
  <2>7. CASE Sc!OptimizeEnd
    BY <2>0, <2>7, <2>b DEF Sc!OptimizeEnd, Sc!history, Undoable, ScanInv, ScanContent
  <2>8. ASSUME NEW q, Sc!RestoreBegin(q), UNCHANGED <<replaced, doubt>> PROVE ScanInv'
    BY <2>0, <2>8 DEF Sc!RestoreBegin, Undoable, ScanInv, ScanContent
  <2>9. CASE Sc!RestoreDrop
    <3>1. op = [kind |-> "restore", path |-> op.path, stage |-> "drop"]
      BY <2>9 DEF Sc!RestoreDrop, ScanInv
    <3>2. op' = [kind |-> "restore", path |-> op.path, stage |-> "save"]
      BY <2>9, <3>1 DEF Sc!RestoreDrop
    <3>3. op' # None /\ op'.kind = "restore" /\ op'.path = op.path /\ op'.stage = "save"
      BY <3>2 DEF NoneIsApart
    <3>4. \A p \in Files \ doubt : Undoable(p, manifest)
      BY <2>9 DEF ScanInv, Sc!RestoreDrop
    <3> QED BY <2>0, <2>9, <3>2, <3>3, <3>4 DEF Sc!RestoreDrop, Undoable, ScanInv, ScanContent
  <2>10. CASE Sc!RestoreEnd
    BY <2>0, <2>10 DEF Sc!RestoreEnd, Undoable, ScanInv, ScanContent
  <2>11. CASE Sc!Crash
    BY <2>0, <2>11, <2>b DEF Sc!Crash, Sc!stores, Sc!Interrupted, Undoable, ScanInv, ScanContent, Sc!At
  <2>12. ASSUME NEW p \in Files, Sc!Edit(p) PROVE ScanInv'
    BY <2>0, <2>12 DEF Sc!Edit, Sc!history, Undoable, ScanInv, ScanContent, Sc!Current
  <2>13. CASE Sc!Scan \/ Sc!RestoreAll \/ UNCHANGED Sc!vars
    BY <2>a, <2>13 DEF Sc!Scan, Sc!RestoreAll, Sc!vars, Sc!stores, Sc!history
  <2>14. CASE Sc!Restore \/ Sc!RestoreNext
    BY <2>8, <2>a, <2>14 DEF Sc!Restore, Sc!RestoreNext, Sc!stores, Sc!history
  <2> QED BY <2>1, <2>2, <2>3, <2>4, <2>5, <2>6, <2>7, <2>9, <2>10, <2>11, <2>12, <2>13, <2>14 DEF Sc!Next
<1>3. ScanInv => Sc!Reversible
  BY DEF ScanInv, Undoable, Sc!Reversible
<1> QED BY <1>1, <1>2, <1>3, ScanRuns, PTL DEF Spec, Reversible

-----------------------------------------------------------------------------
(* Filing faults: a label is carried by one goroutine at a time, because    *)
(* CheckOne marks a fault as known before it is filed and only overlapping  *)
(* syncs carry the same one; and a goroutine that is about to create an     *)
(* issue was told that there is none.                                       *)

\* A goroutine of the monitor or of a sync.
Filing(r) ==
    /\ DOMAIN r = {"pc", "devices", "todo", "label", "created"} /\ r.pc \in {"loop", "create", "again"}
    /\ r.pc = "loop" => r.label = None

HasLabel(r, l) == l \in r.todo \/ r.label = l
Carries(t, l) == th[t] # None /\ HasLabel(th[t], l)
Creates(t, l) == th[t] # None /\ th[t].pc # "loop" /\ th[t].label = l

OfDevice(l, p, s) == l = Fi!devmonLabel(p, s)
OfSentry(l) == \E e \in Errors : l = Fi!idLabel(e)

FilerTypes ==
    /\ DOMAIN th = Fi!Threads /\ \A t \in Fi!Threads : th[t] # None => Filing(th[t])
    /\ bugs \in [Fi!Ports -> SUBSET Fi!AllSigs] /\ leaked \in [Fi!Ports -> BOOLEAN]
    /\ issues \in [Fi!Labels -> Nat]

\* What is carried is known, by one goroutine, and a sync carries issues of Sentry only.
CarriedOnce ==
    /\ \A t \in Fi!Threads, l \in Fi!Labels : Carries(t, l) =>
          /\ t \in Syncs <=> OfSentry(l)
          /\ \A p \in Fi!Ports, s \in Fi!AllSigs : OfDevice(l, p, s) =>
                s \in bugs[p] /\ (s = "heap_leak" => leaked[p])
    /\ \A t, u \in Fi!Threads, l \in Fi!Labels : t # u /\ Carries(t, l) /\ Carries(u, l) => overlap /\ OfSentry(l)
    /\ ~overlap => \A t, u \in Syncs : t # u => th[t] = None \/ th[u] = None

FiledOrCarried ==
    /\ \A l \in Fi!Labels : issues[l] > 0 => l \in filed
    /\ Fi!FaultFiled

CreatedOnce ==
    \A l \in Fi!Labels :
        \/ l \in excused \/ (overlap /\ OfSentry(l))
        \/ issues[l] = 0
        \/ issues[l] = 1 /\ \A t \in Fi!Threads : ~Creates(t, l)

FilerInv == FilerTypes /\ CarriedOnce /\ FiledOrCarried /\ CreatedOnce

\* None is neither a label nor a goroutine, a goroutine checks or syncs, and the analyzer's
\* signatures are not the monitor's own.
FilerHypotheses ==
    /\ None \notin Fi!Labels /\ DOMAIN None # {"pc", "devices", "todo", "label", "created"}
    /\ Checkers \cap Syncs = {} /\ "heap_leak" \notin Sigs

\* The two kinds of label.
LEMMA LabelKinds ==
    ASSUME NEW l \in Fi!Labels
    PROVE  /\ OfSentry(l) \/ \E p \in Fi!Ports, s \in Fi!AllSigs : OfDevice(l, p, s)
           /\ \A p, s : OfDevice(l, p, s) => ~OfSentry(l)
           /\ \A p, q, s, r : OfDevice(l, p, s) /\ OfDevice(l, q, r) => p = q /\ s = r
<1>1. OfSentry(l) \/ \E p \in Fi!Ports, s \in Fi!AllSigs : OfDevice(l, p, s)
  BY DEF Fi!Labels, OfSentry, OfDevice
<1>2. ASSUME NEW p, NEW s, OfDevice(l, p, s) PROVE ~OfSentry(l)
  BY <1>2 DEF OfSentry, OfDevice, Fi!devmonLabel, Fi!idLabel
<1>3. ASSUME NEW p, NEW q, NEW s, NEW r, OfDevice(l, p, s), OfDevice(l, q, r) PROVE p = q /\ s = r
  BY <1>3 DEF OfDevice, Fi!devmonLabel
<1> QED BY <1>1, <1>2, <1>3

\* A goroutine goes on with no label it did not carry.
LEMMA FilingGoesOn ==
    ASSUME FilerHypotheses, FilerInv, NEW t \in Fi!Threads, NEW r, th' = [th EXCEPT ![t] = r],
           r = None \/ Filing(r), \A l \in Fi!Labels : r # None /\ HasLabel(r, l) => Carries(t, l),
           r = None \/ th[t] # None \/ t \notin Syncs, UNCHANGED <<bugs, leaked, overlap>>,
           issues' \in [Fi!Labels -> Nat]
    PROVE  /\ FilerTypes' /\ CarriedOnce' /\ th'[t] = r
           /\ \A u \in Fi!Threads \ {t} : th'[u] = th[u]
<1>1. th'[t] = r /\ \A u \in Fi!Threads \ {t} : th'[u] = th[u]
  BY DEF FilerInv, FilerTypes
<1>2. FilerTypes'
  <2>1. DOMAIN th' = Fi!Threads /\ bugs' \in [Fi!Ports -> SUBSET Fi!AllSigs] /\ leaked' \in [Fi!Ports -> BOOLEAN]
    BY DEF FilerInv, FilerTypes
  <2>2. ASSUME NEW u \in Fi!Threads, th'[u] # None PROVE Filing(th'[u])
    BY <1>1, <2>2 DEF FilerInv, FilerTypes
  <2> QED BY <2>1, <2>2 DEF FilerTypes, Filing, Fi!Threads, Fi!Ports, Fi!Labels, Fi!AllSigs
<1>3. \A u \in Fi!Threads, l \in Fi!Labels : Carries(u, l)' => Carries(u, l)
  BY <1>1 DEF Carries, HasLabel
<1>4. ASSUME ~overlap, NEW u \in Syncs, NEW v \in Syncs, u # v PROVE th'[u] = None \/ th'[v] = None
  <2>1. u \in Fi!Threads /\ v \in Fi!Threads
    BY DEF Fi!Threads
  <2> QED BY <1>1, <1>4, <2>1 DEF FilerInv, CarriedOnce
<1>5. CarriedOnce'
  BY <1>3, <1>4 DEF FilerInv, CarriedOnce, OfSentry, OfDevice
<1> QED BY <1>1, <1>2, <1>5

\* A step of one goroutine that creates nothing: what it drops is filed, not the monitor's, or
\* there is no Jira; it goes to a create only for a label that has no issue or is excused.
LEMMA NothingCreated ==
    ASSUME FilerHypotheses, FilerInv, NEW t \in Fi!Threads, NEW r, th' = [th EXCEPT ![t] = r],
           r = None \/ Filing(r), \A l \in Fi!Labels : r # None /\ HasLabel(r, l) => Carries(t, l),
           r = None \/ th[t] # None \/ t \notin Syncs, UNCHANGED <<jc, bugs, leaked, overlap, issues, filed>>,
           excused \subseteq excused', gaveUp \subseteq gaveUp',
           \A l \in Fi!Labels : Carries(t, l) =>
               (r # None /\ HasLabel(r, l)) \/ l \in filed \/ l \in gaveUp' \/ OfSentry(l) \/ ~jc,
           \A l \in Fi!Labels : r # None /\ r.pc # "loop" /\ r.label = l =>
               Creates(t, l) \/ issues[l] = 0 \/ l \in excused'
    PROVE  FilerInv'
<1>1. /\ FilerTypes' /\ CarriedOnce' /\ th'[t] = r
      /\ \A u \in Fi!Threads \ {t} : th'[u] = th[u]
  BY FilingGoesOn DEF FilerInv, FilerTypes
<1>2. CreatedOnce'
  <2>1. \A u \in Fi!Threads, l \in Fi!Labels : Creates(u, l)' => Creates(u, l) \/ issues[l] = 0 \/ l \in excused'
    BY <1>1 DEF Creates
  <2> QED BY <2>1 DEF FilerInv, CreatedOnce, OfSentry, Fi!Threads, Fi!Labels
<1>3. FiledOrCarried'
  <2>1. ASSUME NEW p \in Fi!Ports, NEW s \in bugs[p]
        PROVE  LET l == Fi!devmonLabel(p, s) IN l \in filed \/ l \in gaveUp' \/ ~jc \/ \E u \in Fi!Threads : Carries(u, l)'
    <3> DEFINE l == Fi!devmonLabel(p, s)
    <3>1. l \in filed \/ l \in gaveUp \/ ~jc \/ \E u \in Fi!Threads : Carries(u, l)
      BY DEF FilerInv, FiledOrCarried, Fi!FaultFiled, Fi!InFlight, Carries, HasLabel
    <3>2. ASSUME NEW u \in Fi!Threads, Carries(u, l), u # t PROVE Carries(u, l)'
      BY <1>1, <3>2 DEF Carries, HasLabel
    <3>3. ASSUME Carries(t, l), l \in Fi!Labels PROVE l \in filed \/ l \in gaveUp' \/ ~jc \/ Carries(t, l)'
      <4>1. ~OfSentry(l)
        BY <3>3, LabelKinds DEF OfDevice
      <4>2. (r # None /\ HasLabel(r, l)) \/ l \in filed \/ l \in gaveUp' \/ ~jc
        BY <3>3, <4>1
      <4> QED BY <1>1, <4>2 DEF Carries, HasLabel
    <3>4. l \in Fi!Labels
      BY DEF FilerInv, FilerTypes, Fi!Labels
    <3> QED BY <3>1, <3>2, <3>3, <3>4
  <2> QED BY <2>1 DEF FilerInv, FiledOrCarried, Fi!FaultFiled, Fi!InFlight, Carries, HasLabel, Fi!Ports, Fi!Threads, Fi!Labels
<1> QED BY <1>1, <1>2, <1>3 DEF FilerInv

\* What the label a goroutine creates an issue for means for the others.
LEMMA CreatorAlone ==
    ASSUME FilerInv, NEW t \in Fi!Threads, NEW l \in Fi!Labels, Creates(t, l),
           ~(l \in excused \/ (overlap /\ OfSentry(l)))
    PROVE  issues[l] = 0 /\ \A u \in Fi!Threads : Creates(u, l) => u = t
<1>1. issues[l] = 0
  BY DEF FilerInv, CreatedOnce
<1>2. ASSUME NEW u \in Fi!Threads, Creates(u, l), u # t PROVE FALSE
  BY <1>2 DEF FilerInv, CarriedOnce, Carries, HasLabel, Creates
<1> QED BY <1>1, <1>2

\* Jira has one more issue of a label.
LEMMA AddsEffect ==
    ASSUME FilerTypes, NEW a, Fi!Adds(a)
    PROVE  /\ issues' \in [Fi!Labels -> Nat] /\ filed' = filed \cup {a}
           /\ \A l \in Fi!Labels : issues'[l] = IF l = a THEN issues[l] + 1 ELSE issues[l]
<1>1. /\ issues \in [Fi!Labels -> Nat] /\ filed' = filed \cup {a}
      /\ issues' = [issues EXCEPT ![a] = issues[a] + 1]
  BY DEF FilerTypes, Fi!Adds
<1>2. CASE a \in Fi!Labels
  BY <1>1, <1>2
<1>3. CASE a \notin Fi!Labels
  BY <1>1, <1>3
<1> QED BY <1>2, <1>3

\* A create that Jira carries out: the goroutine goes on, and not to a second create unless the
\* answer was lost.
LEMMA IssueCreated ==
    ASSUME FilerHypotheses, FilerInv, NEW t \in Fi!Threads, NEW a, Creates(t, a), Fi!Adds(a), NEW r,
           th' = [th EXCEPT ![t] = r], r = None \/ Filing(r),
           \A l \in Fi!Labels : r # None /\ HasLabel(r, l) => Carries(t, l),
           UNCHANGED <<jc, bugs, leaked, overlap>>, excused \subseteq excused', gaveUp \subseteq gaveUp',
           \A l \in Fi!Labels : Carries(t, l) /\ l # a => (r # None /\ HasLabel(r, l)) \/ OfSentry(l),
           r = None \/ r.pc = "loop" \/ (r.label = a /\ a \in excused')
    PROVE  FilerInv'
<1>0. /\ issues' \in [Fi!Labels -> Nat] /\ filed' = filed \cup {a}
      /\ \A l \in Fi!Labels : issues'[l] = IF l = a THEN issues[l] + 1 ELSE issues[l]
  BY AddsEffect DEF FilerInv
<1>1. /\ FilerTypes' /\ CarriedOnce' /\ th'[t] = r
      /\ \A u \in Fi!Threads \ {t} : th'[u] = th[u]
  BY <1>0, FilingGoesOn DEF Creates
<1>2. CreatedOnce'
  <2> SUFFICES ASSUME NEW l \in Fi!Labels, ~(l \in excused' \/ (overlap /\ OfSentry(l)))
               PROVE  issues'[l] = 0 \/ (issues'[l] = 1 /\ \A u \in Fi!Threads : ~Creates(u, l)')
    BY DEF CreatedOnce, OfSentry, Fi!Threads, Fi!Labels, Fi!Ports, Fi!AllSigs
  <2>1. CASE l = a
    <3>1. issues[l] = 0 /\ \A u \in Fi!Threads : Creates(u, l) => u = t
      BY <2>1, CreatorAlone
    <3>2. ASSUME NEW u \in Fi!Threads PROVE ~Creates(u, l)'
      BY <1>1, <2>1, <3>1 DEF Creates
    <3> QED BY <1>0, <2>1, <3>1, <3>2
  <2>2. CASE l # a
    <3>1. ASSUME NEW u \in Fi!Threads, Creates(u, l)' PROVE Creates(u, l)
      BY <1>1, <2>2, <3>1 DEF Creates
    <3> QED BY <1>0, <2>2, <3>1 DEF FilerInv, CreatedOnce
  <2> QED BY <2>1, <2>2
<1>3. FiledOrCarried'
  <2>1. ASSUME NEW p \in Fi!Ports, NEW s \in bugs[p]
        PROVE  LET l == Fi!devmonLabel(p, s) IN l \in filed' \/ l \in gaveUp' \/ ~jc \/ \E u \in Fi!Threads : Carries(u, l)'
    <3> DEFINE l == Fi!devmonLabel(p, s)
    <3>1. l \in filed \/ l \in gaveUp \/ ~jc \/ \E u \in Fi!Threads : Carries(u, l)
      BY DEF FilerInv, FiledOrCarried, Fi!FaultFiled, Fi!InFlight, Carries, HasLabel
    <3>2. ASSUME NEW u \in Fi!Threads, Carries(u, l), u # t PROVE Carries(u, l)'
      BY <1>1, <3>2 DEF Carries, HasLabel
    <3>3. ASSUME Carries(t, l), l \in Fi!Labels, l # a PROVE Carries(t, l)'
      <4>1. ~OfSentry(l)
        BY <3>3, LabelKinds DEF OfDevice
      <4> QED BY <1>1, <3>3, <4>1 DEF Carries, HasLabel
    <3>4. l \in Fi!Labels
      BY DEF FilerInv, FilerTypes, Fi!Labels
    <3> QED BY <1>0, <3>1, <3>2, <3>3, <3>4
  <2>2. \A l \in Fi!Labels : issues'[l] > 0 => l \in filed'
    BY <1>0 DEF FilerInv, FiledOrCarried
  <2> QED BY <2>1, <2>2 DEF FiledOrCarried, Fi!FaultFiled, Fi!InFlight, Carries, HasLabel, Fi!Ports, Fi!Threads, Fi!Labels
<1> QED BY <1>1, <1>2, <1>3 DEF FilerInv

\* CheckOne of the device p, with ds still to check: the signatures it takes up were not known, or
\* are the first leak of the device.
Takes(t, p, ds, all) ==
    /\ all \subseteq Fi!AllSigs /\ \A s \in all : s \notin bugs[p] \/ s = "heap_leak"
    /\ "heap_leak" \in all => ~leaked[p] /\ (p \in Fi!Ports => leaked'[p])
    /\ leaked' \in [Fi!Ports -> BOOLEAN] /\ \A q \in Fi!Ports : leaked[q] => leaked'[q]
    /\ bugs' = [bugs EXCEPT ![p] = @ \cup all]
    /\ th' = [th EXCEPT ![t] = Fi!Loop(ds, {Fi!devmonLabel(p, s) : s \in all})]

\* An absent port is skipped; otherwise what is taken up is as above.
LEMMA CheckEffect ==
    ASSUME "heap_leak" \notin Sigs, FilerTypes, NEW t, Fi!CheckOne(t)
    PROVE  \/ th' = [th EXCEPT ![t] = [th[t] EXCEPT !.devices = Tail(@)]] /\ UNCHANGED <<bugs, leaked>>
           \/ \E p, ds, all : Takes(t, p, ds, all)
<1> DEFINE p == Head(th[t].devices)
           leak(h) == ~leaked[p] /\ Fi!Leaks(Fi!Appended(trend[p], h))
           all(sg, h) == Fi!NewBugs(p, sg) \cup (IF leak(h) THEN {"heap_leak"} ELSE {})
<1>1. \/ th' = [th EXCEPT ![t] = [th[t] EXCEPT !.devices = Tail(@)]] /\ UNCHANGED <<bugs, leaked>>
      \/ \E sg \in {Fi!Reported(c) : c \in Fi!Captures}, h \in Heaps \cup {None} :
            /\ leaked' = [leaked EXCEPT ![p] = @ \/ leak(h)] /\ bugs' = [bugs EXCEPT ![p] = @ \cup all(sg, h)]
            /\ th' = [th EXCEPT ![t] = Fi!Loop(Tail(th[t].devices), {Fi!devmonLabel(p, s) : s \in all(sg, h)})]
  BY Zenon DEF Fi!CheckOne, Fi!Goes, Fi!Marked, Fi!mon
<1>2. ASSUME NEW sg \in {Fi!Reported(c) : c \in Fi!Captures}, NEW h \in Heaps \cup {None},
             leaked' = [leaked EXCEPT ![p] = @ \/ leak(h)], bugs' = [bugs EXCEPT ![p] = @ \cup all(sg, h)],
             th' = [th EXCEPT ![t] = Fi!Loop(Tail(th[t].devices), {Fi!devmonLabel(p, s) : s \in all(sg, h)})]
      PROVE  Takes(t, p, Tail(th[t].devices), all(sg, h))
  <2> DEFINE lk == leak(h)
  <2>1. lk \in BOOLEAN /\ (lk => ~leaked[p])
    OBVIOUS
  <2>2. sg \subseteq Sigs \cup {"setup_incomplete"}
    BY DEF Fi!Reported, Fi!Captures
  <2>3. leaked' = [leaked EXCEPT ![p] = @ \/ lk]
    BY <1>2
  <2> HIDE DEF lk
  <2>4. all(sg, h) = Fi!NewBugs(p, sg) \cup (IF lk THEN {"heap_leak"} ELSE {})
    BY DEF lk
  <2> HIDE DEF p
  <2>5. /\ all(sg, h) \subseteq Fi!AllSigs /\ ("heap_leak" \in all(sg, h) => lk)
        /\ \A s \in all(sg, h) : s \notin bugs[p] \/ s = "heap_leak"
    BY <2>1, <2>2, <2>4 DEF Fi!NewBugs, Fi!AllSigs
  <2>6. /\ leaked' \in [Fi!Ports -> BOOLEAN] /\ \A q \in Fi!Ports : leaked[q] => leaked'[q]
        /\ p \in Fi!Ports /\ lk => leaked'[p]
    BY <2>1, <2>3 DEF FilerTypes
  <2> HIDE DEF all
  <2> QED BY <1>2, <2>1, <2>5, <2>6 DEF Takes
<1> HIDE DEF p, leak, all
<1> QED BY <1>1, <1>2, Zenon

\* devicemon and sentry_sync.go: for any devices, faults, Sentry issues and goroutines, whatever Jira
\* answers and whenever the process restarts, a known fault is filed or on its way, and none is filed
\* twice, with the exceptions OneTicket names.
THEOREM FaultsFiledOnce ==
    ASSUME FilerHypotheses
    PROVE  Spec => []NeitherLostNorTwice
<1>1. Fi!Init => FilerInv
  <2> SUFFICES ASSUME Fi!Init PROVE FilerInv
    OBVIOUS
  <2>1. \A t \in Fi!Threads : th[t] = None
    BY DEF Fi!Init
  <2>2. FilerTypes
    BY <2>1 DEF Fi!Init, Fi!Blank, FilerTypes
  <2>3. CarriedOnce
    BY <2>1 DEF CarriedOnce, Carries, Fi!Threads
  <2>4. FiledOrCarried /\ CreatedOnce
    BY DEF Fi!Init, Fi!Blank, FiledOrCarried, Fi!FaultFiled, CreatedOnce
  <2> QED BY <2>2, <2>3, <2>4 DEF FilerInv
<1>2. FilerInv /\ [Fi!Next]_Fi!vars => FilerInv'
  <2> SUFFICES ASSUME FilerInv, [Fi!Next]_Fi!vars PROVE FilerInv'
    OBVIOUS
  <2>0. /\ DOMAIN th = Fi!Threads /\ \A t \in Fi!Threads : th[t] # None => Filing(th[t])
        /\ bugs \in [Fi!Ports -> SUBSET Fi!AllSigs] /\ leaked \in [Fi!Ports -> BOOLEAN]
        /\ issues \in [Fi!Labels -> Nat]
    BY DEF FilerInv, FilerTypes
  <2>a. ASSUME NEW ds, NEW ls
        PROVE  /\ Filing(Fi!Loop(ds, ls)) /\ Fi!Loop(ds, ls).pc = "loop" /\ Fi!Loop(ds, ls) # None
               /\ \A l \in Fi!Labels : HasLabel(Fi!Loop(ds, ls), l) <=> l \in ls
    BY DEF Filing, Fi!Loop, HasLabel, FilerHypotheses
  <2>1. ASSUME NEW t \in Checkers, Fi!Checks(t) PROVE FilerInv'
    <3>1. \E ds : Fi!StartCheck(t, ds)
      BY <2>1 DEF Fi!Checks
    <3>2. PICK ds : Fi!StartCheck(t, ds)
      BY <3>1
    <3> DEFINE r == Fi!Loop(ds, {})
    <3>3. /\ th[t] = None /\ th' = [th EXCEPT ![t] = r]
          /\ UNCHANGED <<jc, bugs, leaked, issues, filed, excused, gaveUp, overlap>>
      BY <3>2 DEF Fi!StartCheck, Fi!Goes, Fi!mon
    <3>4. t \in Fi!Threads /\ t \notin Syncs
      BY DEF Fi!Threads, FilerHypotheses
    <3>5. \A l : ~Carries(t, l)
      BY <3>3 DEF Carries
    <3>6. Filing(r) /\ r.pc = "loop" /\ \A l \in Fi!Labels : ~HasLabel(r, l)
      BY <2>a
    <3> HIDE DEF r
    <3> QED BY <3>3, <3>4, <3>5, <3>6, NothingCreated
  <2>2. ASSUME NEW t \in Checkers, Fi!CheckOne(t) PROVE FilerInv'
    <3>1. /\ th[t] # None /\ th[t].pc = "loop" /\ th[t].todo = {} /\ t \in Fi!Threads /\ t \notin Syncs
          /\ UNCHANGED <<jc, issues, filed, excused, gaveUp, overlap>>
      BY <2>2 DEF Fi!CheckOne, Fi!At, Fi!Threads, FilerHypotheses
    <3>2. CASE th' = [th EXCEPT ![t] = [th[t] EXCEPT !.devices = Tail(@)]] /\ UNCHANGED <<bugs, leaked>>
      <4> DEFINE r == [th[t] EXCEPT !.devices = Tail(th[t].devices)]
      <4>1. Filing(r) /\ r.todo = th[t].todo /\ r.label = th[t].label /\ r.pc = "loop"
        BY <2>0, <3>1 DEF Filing
      <4>2. r # None
        BY <4>1 DEF Filing, FilerHypotheses
      <4> HIDE DEF r
      <4>3. \A l : HasLabel(r, l) <=> Carries(t, l)
        BY <3>1, <4>1 DEF Carries, HasLabel
      <4>4. th' = [th EXCEPT ![t] = r]
        BY <3>2 DEF r
      <4> QED BY <3>1, <3>2, <4>1, <4>2, <4>3, <4>4, NothingCreated
    <3>3. ASSUME NEW p, NEW ds, NEW all, Takes(t, p, ds, all) PROVE FilerInv'
      <4> DEFINE r == Fi!Loop(ds, {Fi!devmonLabel(p, s) : s \in all})
      <4>1. /\ Filing(r) /\ r # None /\ r.pc = "loop"
            /\ \A l \in Fi!Labels : HasLabel(r, l) <=> \E s \in all : OfDevice(l, p, s)
        BY <2>a DEF OfDevice
      <4>2. th' = [th EXCEPT ![t] = r]
        BY <3>3 DEF Takes
      <4> HIDE DEF r
      <4>3. /\ th'[t] = r /\ DOMAIN th' = Fi!Threads /\ \A u \in Fi!Threads \ {t} : th'[u] = th[u]
        BY <2>0, <3>1, <4>2
      <4>4. /\ \A q \in Fi!Ports : bugs'[q] = IF q = p THEN bugs[q] \cup all ELSE bugs[q]
            /\ \A q \in Fi!Ports : leaked[q] => leaked'[q]
            /\ bugs' \in [Fi!Ports -> SUBSET Fi!AllSigs] /\ leaked' \in [Fi!Ports -> BOOLEAN]
        BY <2>0, <3>3 DEF Takes
      <4>5. \A l \in Fi!Labels : ~Carries(t, l)
        BY <2>0, <3>1 DEF Carries, HasLabel, Filing, FilerHypotheses
      <4>6. FilerTypes'
        BY <2>0, <3>1, <4>1, <4>3, <4>4 DEF FilerTypes, Filing, Fi!Threads, Fi!Labels, Fi!Ports, Fi!AllSigs
      <4>7. ASSUME NEW l \in Fi!Labels, HasLabel(r, l)
            PROVE  /\ ~OfSentry(l) /\ \A u \in Fi!Threads : ~Carries(u, l)
                   /\ \A q \in Fi!Ports, s \in Fi!AllSigs : OfDevice(l, q, s) =>
                         s \in bugs'[q] /\ (s = "heap_leak" => leaked'[q])
        <5>1. PICK s \in all : OfDevice(l, p, s)
          BY <4>1, <4>7
        <5>2. ~OfSentry(l) /\ p \in Fi!Ports /\ s \in Fi!AllSigs
          BY <3>3, <5>1, LabelKinds DEF Takes
        <5>3. ASSUME NEW u \in Fi!Threads, Carries(u, l) PROVE FALSE
          <6>1. s \in bugs[p] /\ (s = "heap_leak" => leaked[p])
            BY <5>1, <5>2, <5>3 DEF FilerInv, CarriedOnce
          <6> QED BY <3>3, <5>1, <6>1 DEF Takes
        <5>4. ASSUME NEW q \in Fi!Ports, NEW x \in Fi!AllSigs, OfDevice(l, q, x)
              PROVE  x \in bugs'[q] /\ (x = "heap_leak" => leaked'[q])
          <6>1. q = p /\ x = s
            BY <5>1, <5>4, LabelKinds
          <6> QED BY <3>3, <4>4, <5>1, <5>2, <6>1 DEF Takes
        <5> QED BY <5>2, <5>3, <5>4
      <4>8. CarriedOnce'
        <5>1. ASSUME NEW u \in Fi!Threads, NEW l \in Fi!Labels, Carries(u, l)'
              PROVE  (u = t /\ HasLabel(r, l)) \/ (u # t /\ Carries(u, l))
          BY <4>3, <5>1 DEF Carries, HasLabel
        <5>2. ASSUME NEW u \in Fi!Threads, NEW l \in Fi!Labels, Carries(u, l)'
              PROVE  /\ u \in Syncs <=> OfSentry(l)
                     /\ \A q \in Fi!Ports, s \in Fi!AllSigs : OfDevice(l, q, s) =>
                           s \in bugs'[q] /\ (s = "heap_leak" => leaked'[q])
          <6>1. CASE u = t
            BY <3>1, <4>7, <5>1, <5>2, <6>1
          <6>2. CASE u # t
            BY <4>4, <5>1, <5>2, <6>2 DEF FilerInv, CarriedOnce
          <6> QED BY <6>1, <6>2
        <5>3. ASSUME NEW u \in Fi!Threads, NEW v \in Fi!Threads, NEW l \in Fi!Labels,
                     u # v, Carries(u, l)', Carries(v, l)'
              PROVE  overlap /\ OfSentry(l)
          <6>1. CASE u = t \/ v = t
            BY <4>7, <5>1, <5>3, <6>1
          <6>2. CASE u # t /\ v # t
            BY <5>1, <5>3, <6>2 DEF FilerInv, CarriedOnce
          <6> QED BY <6>1, <6>2
        <5>4. ASSUME ~overlap, NEW u \in Syncs, NEW v \in Syncs, u # v PROVE th'[u] = None \/ th'[v] = None
          BY <3>1, <4>3, <5>4 DEF FilerInv, CarriedOnce, Fi!Threads
        <5> QED BY <3>1, <5>2, <5>3, <5>4
                DEF CarriedOnce, OfSentry, OfDevice, Fi!Threads, Fi!Labels, Fi!Ports, Fi!AllSigs, Fi!devmonLabel, Fi!idLabel
      <4>9. CreatedOnce'
        <5>1. \A u \in Fi!Threads, l \in Fi!Labels : Creates(u, l)' => Creates(u, l)
          BY <4>1, <4>3 DEF Creates
        <5> QED BY <3>1, <5>1 DEF FilerInv, CreatedOnce, OfSentry, Fi!Threads, Fi!Labels
      <4>10. FiledOrCarried'
        <5>1. ASSUME NEW q \in Fi!Ports, NEW s \in bugs'[q]
              PROVE  LET l == Fi!devmonLabel(q, s) IN
                     l \in filed \/ l \in gaveUp \/ ~jc \/ \E u \in Fi!Threads : Carries(u, l)'
          <6> DEFINE l == Fi!devmonLabel(q, s)
          <6>0. l \in Fi!Labels
            BY <4>4 DEF Fi!Labels
          <6>1. CASE s \in bugs[q]
            <7>1. l \in filed \/ l \in gaveUp \/ ~jc \/ \E u \in Fi!Threads : Carries(u, l)
              BY <6>1 DEF FilerInv, FiledOrCarried, Fi!FaultFiled, Fi!InFlight, Carries, HasLabel
            <7>2. ASSUME NEW u \in Fi!Threads, Carries(u, l) PROVE Carries(u, l)'
              BY <4>3, <4>5, <6>0, <7>2 DEF Carries, HasLabel
            <7> QED BY <7>1, <7>2
          <6>2. CASE s \notin bugs[q]
            <7>1. q = p /\ s \in all
              BY <4>4, <6>2
            <7>2. HasLabel(r, l)
              BY <4>1, <6>0, <7>1 DEF OfDevice
            <7> QED BY <3>1, <4>1, <4>3, <7>2 DEF Carries, HasLabel
          <6> QED BY <6>1, <6>2
        <5>2. \A l \in Fi!Labels : issues'[l] > 0 => l \in filed'
          BY <3>1 DEF FilerInv, FiledOrCarried
        <5> QED BY <3>1, <5>1, <5>2
                DEF FiledOrCarried, Fi!FaultFiled, Fi!InFlight, Carries, HasLabel, Fi!Ports, Fi!Threads, Fi!Labels
      <4> QED BY <4>6, <4>8, <4>9, <4>10 DEF FilerInv
    <3>4. FilerTypes /\ "heap_leak" \notin Sigs
      BY DEF FilerInv, FilerHypotheses
    <3> QED BY <2>2, <3>2, <3>3, <3>4, CheckEffect
  <2>3. ASSUME NEW t \in Syncs, Fi!StartSync(t) PROVE FilerInv'
    <3>1. /\ th[t] = None /\ t \in Fi!Threads
          /\ overlap' = (overlap \/ \E s \in Syncs \ {t} : th[s] # None)
          /\ UNCHANGED <<jc, bugs, leaked, issues, filed, excused, gaveUp>>
      BY <2>3 DEF Fi!StartSync, Fi!mon, Fi!Threads
    <3>2. \/ th' = th
          \/ \E seen : th' = [th EXCEPT ![t] = Fi!Loop(<<>>, {Fi!idLabel(e) : e \in seen})] /\ seen \subseteq Errors
      <4>1. PICK seen \in [Orgs -> (SUBSET Errors) \cup {None}] :
               LET ok == {o \in Orgs : seen[o] # None} IN
               \/ th' = th
               \/ th' = [th EXCEPT ![t] = Fi!Loop(<<>>, {Fi!idLabel(e) : e \in UNION {seen[o] : o \in ok}})]
        BY <2>3, Zenon DEF Fi!StartSync, Fi!Goes
      <4>2. UNION {seen[o] : o \in {o \in Orgs : seen[o] # None}} \subseteq Errors
        OBVIOUS
      <4> QED BY <4>1, <4>2, Zenon
    <3>3. /\ \A u \in Fi!Threads \ {t} : th'[u] = th[u]
          /\ DOMAIN th' = Fi!Threads
          /\ \/ th'[t] = None
             \/ /\ Filing(th'[t]) /\ th'[t].pc = "loop"
                /\ \A l \in Fi!Labels : HasLabel(th'[t], l) => OfSentry(l)
      <4>1. CASE th' = th
        BY <2>0, <3>1, <4>1
      <4>2. ASSUME NEW seen, th' = [th EXCEPT ![t] = Fi!Loop(<<>>, {Fi!idLabel(e) : e \in seen})], seen \subseteq Errors
            PROVE  /\ \A u \in Fi!Threads \ {t} : th'[u] = th[u]
                   /\ DOMAIN th' = Fi!Threads /\ Filing(th'[t]) /\ th'[t].pc = "loop"
                   /\ \A l \in Fi!Labels : HasLabel(th'[t], l) => OfSentry(l)
        BY <2>0, <2>a, <3>1, <4>2 DEF OfSentry
      <4> QED BY <3>2, <4>1, <4>2
    <3>4. overlap => overlap'
      BY <3>1
    <3>5. FilerTypes'
      BY <2>0, <3>1, <3>3 DEF FilerTypes, Filing, Fi!Threads, Fi!Labels, Fi!Ports, Fi!AllSigs
    <3>6. ASSUME NEW u \in Fi!Threads, NEW l \in Fi!Labels, Carries(u, l)'
          PROVE  Carries(u, l) \/ (u = t /\ OfSentry(l))
      BY <3>3, <3>6 DEF Carries, HasLabel
    <3>7. CarriedOnce'
      <4>1. ASSUME NEW u \in Fi!Threads, NEW l \in Fi!Labels, Carries(u, l)'
            PROVE  /\ u \in Syncs <=> OfSentry(l)
                   /\ \A p \in Fi!Ports, s \in Fi!AllSigs : OfDevice(l, p, s) =>
                         s \in bugs[p] /\ (s = "heap_leak" => leaked[p])
        <5>1. CASE Carries(u, l)
          BY <5>1 DEF FilerInv, CarriedOnce
        <5>2. CASE u = t /\ OfSentry(l)
          BY <5>2, LabelKinds
        <5> QED BY <3>6, <4>1, <5>1, <5>2
      <4>2. ASSUME ~overlap', NEW u \in Syncs, NEW v \in Syncs, u # v PROVE th'[u] = None \/ th'[v] = None
        <5>1. u \in Fi!Threads /\ v \in Fi!Threads
          BY DEF Fi!Threads
        <5>2. ~overlap /\ \A s \in Syncs \ {t} : th[s] = None
          BY <3>1, <4>2
        <5> QED BY <3>3, <4>2, <5>1, <5>2
      <4>3. ASSUME NEW u \in Fi!Threads, NEW v \in Fi!Threads, NEW l \in Fi!Labels,
                   u # v, Carries(u, l)', Carries(v, l)'
            PROVE  overlap' /\ OfSentry(l)
        <5>1. CASE Carries(u, l) /\ Carries(v, l)
          BY <3>4, <4>3, <5>1 DEF FilerInv, CarriedOnce
        <5>2. CASE ~(Carries(u, l) /\ Carries(v, l))
          <6>1. OfSentry(l) /\ u \in Syncs /\ v \in Syncs
            BY <3>6, <4>1, <4>3, <5>2
          <6>2. th'[u] # None /\ th'[v] # None
            BY <4>3 DEF Carries
          <6> QED BY <4>2, <4>3, <6>1, <6>2
        <5> QED BY <5>1, <5>2
      <4> QED BY <3>1, <4>1, <4>2, <4>3
              DEF CarriedOnce, OfSentry, OfDevice, Fi!Threads, Fi!Labels, Fi!Ports, Fi!AllSigs, Fi!devmonLabel, Fi!idLabel
    <3>8. CreatedOnce'
      <4>1. \A u \in Fi!Threads, l \in Fi!Labels : Creates(u, l)' => Creates(u, l)
        BY <3>3 DEF Creates
      <4> QED BY <3>1, <3>4, <4>1 DEF FilerInv, CreatedOnce, OfSentry, Fi!Threads, Fi!Labels
    <3>9. FiledOrCarried'
      <4>1. \A u \in Fi!Threads : \A l : Carries(u, l) => Carries(u, l)'
        BY <3>1, <3>3 DEF Carries, HasLabel
      <4> QED BY <3>1, <4>1 DEF FilerInv, FiledOrCarried, Fi!FaultFiled, Fi!InFlight, Carries, HasLabel,
                                Fi!Ports, Fi!Threads, Fi!Labels
    <3> QED BY <3>5, <3>7, <3>8, <3>9 DEF FilerInv
  <2>b. ASSUME NEW t \in Syncs, NEW l \in Fi!Labels, Carries(t, l) PROVE OfSentry(l)
    BY <2>b DEF FilerInv, CarriedOnce, Fi!Threads
  <2>4. ASSUME NEW t \in Fi!Threads, Fi!End(t) PROVE FilerInv'
    <3> DEFINE r == None
    <3>1. /\ th[t] # None /\ th[t].pc = "loop" /\ (th[t].todo = {} \/ t \in Syncs) /\ th' = [th EXCEPT ![t] = r]
          /\ UNCHANGED <<jc, bugs, leaked, issues, filed, excused, gaveUp, overlap>>
      BY <2>4 DEF Fi!End, Fi!At, Fi!LoopEnds, Fi!Goes, Fi!mon
    <3>2. \A l \in Fi!Labels : Carries(t, l) => OfSentry(l)
      BY <2>0, <2>b, <3>1 DEF Carries, HasLabel, Filing, FilerHypotheses
    <3>3. r = None
      OBVIOUS
    <3> HIDE DEF r
    <3> QED BY <3>1, <3>2, <3>3, NothingCreated
  <2>5. ASSUME NEW t \in Fi!Threads, Fi!Search(t) PROVE FilerInv'
    <3>1. /\ th[t] # None /\ th[t].pc = "loop" /\ Filing(th[t])
          /\ UNCHANGED <<jc, bugs, leaked, issues, filed, gaveUp, overlap>>
      BY <2>0, <2>5 DEF Fi!Search, Fi!At, Fi!mon
    <3>2. PICK l \in th[t].todo :
             LET rest == [th[t] EXCEPT !.todo = @ \ {l}] IN
             \/ th' = [th EXCEPT ![t] = rest] /\ (~jc \/ issues[l] > 0) /\ excused' = excused
             \/ /\ th' = [th EXCEPT ![t] = [rest EXCEPT !.pc = "create", !.label = l]]
                /\ jc /\ ((~(issues[l] > 0) /\ excused' = excused) \/ excused' = excused \cup {l})
      BY <2>5, Zenon DEF Fi!Search, Fi!Goes, Fi!Ticketed
    <3> DEFINE rest == [th[t] EXCEPT !.todo = th[t].todo \ {l}]
               next == [rest EXCEPT !.pc = "create", !.label = l]
    <3>3. /\ DOMAIN rest = {"pc", "devices", "todo", "label", "created"}
          /\ rest.todo = th[t].todo \ {l} /\ rest.pc = "loop" /\ rest.label = None
      BY <3>1 DEF Filing
    <3>4. /\ DOMAIN next = {"pc", "devices", "todo", "label", "created"}
          /\ next.todo = th[t].todo \ {l} /\ next.pc = "create" /\ next.label = l
      <4> HIDE DEF rest
      <4> QED BY <3>3
    <3>5. th[t].label = None
      BY <3>1 DEF Filing
    <3>6. /\ Filing(rest) /\ rest # None
          /\ \A k : HasLabel(rest, k) => k \in th[t].todo \/ k = None
          /\ \A k \in th[t].todo : k # l => HasLabel(rest, k)
      BY <3>3 DEF Filing, HasLabel, FilerHypotheses
    <3>7. /\ Filing(next) /\ next # None
          /\ \A k : HasLabel(next, k) <=> k \in th[t].todo
      BY <3>4 DEF Filing, HasLabel, FilerHypotheses
    <3>8. \A k \in Fi!Labels : Carries(t, k) <=> k \in th[t].todo
      BY <3>1, <3>5 DEF Carries, HasLabel, FilerHypotheses
    <3>9. CASE th' = [th EXCEPT ![t] = rest] /\ (~jc \/ issues[l] > 0) /\ excused' = excused
      <4>1. rest.pc = "loop"
        BY <3>3
      <4>2. th' = [th EXCEPT ![t] = rest]
        BY <3>9
      <4> HIDE DEF rest
      <4>3. \A k \in Fi!Labels : HasLabel(rest, k) => Carries(t, k)
        BY <3>6, <3>8 DEF FilerHypotheses
      <4>4. \A k \in Fi!Labels : Carries(t, k) => HasLabel(rest, k) \/ k \in filed \/ ~jc
        BY <3>6, <3>8, <3>9 DEF FilerInv, FiledOrCarried
      <4> QED BY <3>1, <3>6, <3>9, <4>1, <4>2, <4>3, <4>4, NothingCreated
    <3>10. CASE /\ th' = [th EXCEPT ![t] = next]
                /\ jc /\ ((~(issues[l] > 0) /\ excused' = excused) \/ excused' = excused \cup {l})
      <4>1. next.label = l
        BY <3>4
      <4>2. th' = [th EXCEPT ![t] = next]
        BY <3>10
      <4> HIDE DEF next
      <4>3. \A k \in Fi!Labels : HasLabel(next, k) <=> Carries(t, k)
        BY <3>7, <3>8
      <4>4. \A k \in Fi!Labels : next.label = k => issues[k] = 0 \/ k \in excused'
        BY <2>0, <3>10, <4>1
      <4>5. excused \subseteq excused'
        BY <3>10
      <4> QED BY <3>1, <3>7, <4>2, <4>3, <4>4, <4>5, NothingCreated
    <3> QED BY <3>2, <3>9, <3>10
  <2>c. ASSUME NEW t \in Fi!Threads, th[t] # None, NEW r, NEW x, x \in {"loop", "again"},
               DOMAIN r = DOMAIN th[t], r.pc = x, r.todo = th[t].todo, r.label = IF x = "loop" THEN None ELSE th[t].label
        PROVE  /\ Filing(r) /\ r # None /\ \A l \in Fi!Labels : HasLabel(r, l) => Carries(t, l)
               /\ \A l \in Fi!Labels : Carries(t, l) /\ l # th[t].label => HasLabel(r, l)
    BY <2>0, <2>c DEF Filing, HasLabel, Carries, FilerHypotheses
  <2>d. ASSUME NEW t \in Fi!Threads, th[t] # None, Fi!Created(t)
        PROVE  \E r : /\ th' = [th EXCEPT ![t] = r] /\ Filing(r) /\ r # None /\ r.pc = "loop"
                      /\ \A l \in Fi!Labels : HasLabel(r, l) => Carries(t, l)
                      /\ \A l \in Fi!Labels : Carries(t, l) /\ l # th[t].label => HasLabel(r, l)
    <3> DEFINE r == [th[t] EXCEPT !.pc = "loop", !.label = None, !.created = @ + 1]
    <3>1. th' = [th EXCEPT ![t] = r]
      BY <2>d, Zenon DEF Fi!Created, Fi!Goes
    <3>2. DOMAIN r = DOMAIN th[t] /\ r.pc = "loop" /\ r.todo = th[t].todo /\ r.label = None
      BY <2>0, <2>d DEF Filing
    <3> HIDE DEF r
    <3> QED BY <2>c, <2>d, <3>1, <3>2
  <2>6. ASSUME NEW t \in Fi!Threads, Fi!Create(t) PROVE FilerInv'
    <3> DEFINE a == th[t].label
               r == [th[t] EXCEPT !.pc = "again"]
    <3>1. /\ th[t] # None /\ th[t].pc = "create"
          /\ UNCHANGED <<jc, bugs, leaked, gaveUp, overlap>>
      BY <2>6 DEF Fi!Create, Fi!At, Fi!mon
    <3>2. \/ Fi!Adds(a) /\ Fi!Created(t) /\ UNCHANGED excused
          \/ Fi!Adds(a) /\ excused' = excused \cup {a} /\ th' = [th EXCEPT ![t] = r]
          \/ UNCHANGED <<issues, filed, excused>> /\ th' = [th EXCEPT ![t] = r]
      BY <2>6, Zenon DEF Fi!Create, Fi!Goes
    <3>3. DOMAIN r = DOMAIN th[t] /\ r.pc = "again" /\ r.todo = th[t].todo /\ r.label = a
      BY <2>0, <3>1 DEF Filing
    <3>4. Creates(t, a)
      BY <3>1 DEF Creates
    <3> HIDE DEF a, r
    <3>5. /\ Filing(r) /\ r # None /\ \A l \in Fi!Labels : HasLabel(r, l) <=> Carries(t, l)
      <4>1. /\ Filing(r) /\ r # None /\ \A l \in Fi!Labels : HasLabel(r, l) => Carries(t, l)
        BY <2>c, <3>1, <3>3 DEF a
      <4>2. \A l \in Fi!Labels : Carries(t, l) => HasLabel(r, l)
        BY <3>3 DEF a, Carries, HasLabel
      <4> QED BY <4>1, <4>2
    <3>6. CASE Fi!Adds(a) /\ Fi!Created(t) /\ UNCHANGED excused
      <4>1. PICK q : /\ th' = [th EXCEPT ![t] = q] /\ Filing(q) /\ q # None /\ q.pc = "loop"
                     /\ \A l \in Fi!Labels : HasLabel(q, l) => Carries(t, l)
                     /\ \A l \in Fi!Labels : Carries(t, l) /\ l # a => HasLabel(q, l)
        BY <2>d, <3>1, <3>6 DEF a
      <4> QED BY <3>1, <3>4, <3>6, <4>1, IssueCreated
    <3>7. CASE Fi!Adds(a) /\ excused' = excused \cup {a} /\ th' = [th EXCEPT ![t] = r]
      BY <3>1, <3>3, <3>4, <3>5, <3>7, IssueCreated
    <3>8. CASE UNCHANGED <<issues, filed, excused>> /\ th' = [th EXCEPT ![t] = r]
      <4>1. \A l \in Fi!Labels : r.label = l => Creates(t, l)
        BY <3>3, <3>4
      <4> QED BY <3>1, <3>5, <3>8, <4>1, NothingCreated
    <3> QED BY <3>2, <3>6, <3>7, <3>8
  <2>7. ASSUME NEW t \in Fi!Threads, Fi!CreateAgain(t) PROVE FilerInv'
    <3> DEFINE a == th[t].label
               q == [th[t] EXCEPT !.pc = "loop", !.label = None]
               r == IF t \in Syncs THEN None ELSE q
    <3>1. /\ th[t] # None /\ th[t].pc = "again"
          /\ UNCHANGED <<jc, bugs, leaked, overlap>>
      BY <2>7 DEF Fi!CreateAgain, Fi!At, Fi!mon
    <3>2. \/ Fi!Adds(a) /\ Fi!Created(t) /\ UNCHANGED <<excused, gaveUp>>
          \/ Fi!Adds(a) /\ excused' = excused \cup {a} /\ gaveUp' = gaveUp \cup {a} /\ th' = [th EXCEPT ![t] = r]
          \/ UNCHANGED <<issues, filed, excused>> /\ gaveUp' = gaveUp \cup {a} /\ th' = [th EXCEPT ![t] = r]
      BY <2>7, Zenon DEF Fi!CreateAgain, Fi!Goes
    <3>3. DOMAIN q = DOMAIN th[t] /\ q.pc = "loop" /\ q.todo = th[t].todo /\ q.label = None
      BY <2>0, <3>1 DEF Filing
    <3>4. Creates(t, a)
      BY <3>1 DEF Creates
    <3>r. (r = None /\ t \in Syncs) \/ (r = q /\ t \notin Syncs)
      OBVIOUS
    <3> HIDE DEF a, q, r
    <3>5. /\ Filing(q) /\ q # None /\ \A l \in Fi!Labels : HasLabel(q, l) => Carries(t, l)
          /\ \A l \in Fi!Labels : Carries(t, l) /\ l # a => HasLabel(q, l)
      BY <2>c, <3>1, <3>3 DEF a
    <3>6. /\ r = None \/ (Filing(r) /\ r.pc = "loop")
          /\ \A l \in Fi!Labels : r # None /\ HasLabel(r, l) => Carries(t, l)
          /\ \A l \in Fi!Labels : Carries(t, l) /\ l # a => (r # None /\ HasLabel(r, l)) \/ OfSentry(l)
      BY <2>b, <3>r, <3>3, <3>5
    <3>7. CASE Fi!Adds(a) /\ Fi!Created(t) /\ UNCHANGED <<excused, gaveUp>>
      <4>1. PICK n : /\ th' = [th EXCEPT ![t] = n] /\ Filing(n) /\ n # None /\ n.pc = "loop"
                     /\ \A l \in Fi!Labels : HasLabel(n, l) => Carries(t, l)
                     /\ \A l \in Fi!Labels : Carries(t, l) /\ l # a => HasLabel(n, l)
        BY <2>d, <3>1, <3>7 DEF a
      <4> QED BY <3>1, <3>4, <3>7, <4>1, IssueCreated
    <3>8. CASE Fi!Adds(a) /\ excused' = excused \cup {a} /\ gaveUp' = gaveUp \cup {a} /\ th' = [th EXCEPT ![t] = r]
      BY <3>1, <3>4, <3>6, <3>8, IssueCreated
    <3>9. CASE UNCHANGED <<issues, filed, excused>> /\ gaveUp' = gaveUp \cup {a} /\ th' = [th EXCEPT ![t] = r]
      BY <3>1, <3>6, <3>9, NothingCreated
    <3> QED BY <3>2, <3>7, <3>8, <3>9
  <2>8. ASSUME NEW a \in Fi!Labels, Fi!DeleteIssue(a) PROVE FilerInv'
    <3>1. /\ UNCHANGED <<jc, bugs, leaked, th, filed, excused, gaveUp, overlap>>
          /\ issues[a] > 0 /\ issues' = [issues EXCEPT ![a] = @ - 1]
      BY <2>8 DEF Fi!DeleteIssue, Fi!mon
    <3>2. /\ issues' \in [Fi!Labels -> Nat]
          /\ \A l \in Fi!Labels : issues'[l] = issues[l] \/ (issues[l] > 0 /\ issues'[l] = issues[l] - 1)
      BY <2>0, <3>1
    <3>3. FilerTypes' /\ CarriedOnce'
      BY <3>1, <3>2 DEF FilerInv, FilerTypes, CarriedOnce, Carries, HasLabel, OfSentry, OfDevice, Filing,
                        Fi!Threads, Fi!Labels, Fi!Ports, Fi!AllSigs, Fi!devmonLabel, Fi!idLabel
    <3>4. \A l \in Fi!Labels : issues'[l] > 0 => l \in filed'
      BY <2>0, <3>1, <3>2 DEF FilerInv, FiledOrCarried
    <3>5. FiledOrCarried'
      BY <3>1, <3>4 DEF FilerInv, FiledOrCarried, Fi!FaultFiled, Fi!InFlight, Fi!Ports, Fi!Threads, Fi!Labels
    <3>6. CreatedOnce'
      BY <2>0, <3>1, <3>2 DEF FilerInv, CreatedOnce, Creates, OfSentry, Fi!Threads, Fi!Labels
    <3> QED BY <3>3, <3>5, <3>6 DEF FilerInv
  <2>9. ASSUME Fi!Restart PROVE FilerInv'
    <3>1. /\ bugs' = [p \in Fi!Ports |-> {}] /\ leaked' = [p \in Fi!Ports |-> FALSE]
          /\ th' = [t \in Fi!Threads |-> None] /\ UNCHANGED <<jc, excused, gaveUp, overlap>>
      BY <2>9 DEF Fi!Restart
    <3>2. \/ UNCHANGED <<issues, filed>>
          \/ \E t \in Fi!Threads : \E a : Creates(t, a) /\ Fi!Adds(a)
      BY <2>9 DEF Fi!Restart, Fi!At, Creates
    <3>3. \A t \in Fi!Threads : th'[t] = None
      BY <3>1
    <3>4. CarriedOnce'
      BY <3>3 DEF CarriedOnce, Carries, Fi!Threads
    <3>5. ASSUME NEW l \in Fi!Labels
          PROVE  /\ issues' \in [Fi!Labels -> Nat] /\ (issues'[l] > 0 => l \in filed')
                 /\ l \in excused \/ (overlap /\ OfSentry(l)) \/ issues'[l] \in {0, 1}
      <4>1. CASE UNCHANGED <<issues, filed>>
        BY <2>0, <4>1 DEF FilerInv, FiledOrCarried, CreatedOnce
      <4>2. ASSUME NEW t \in Fi!Threads, NEW a, Creates(t, a), Fi!Adds(a) 
            PROVE  /\ issues' \in [Fi!Labels -> Nat] /\ (issues'[l] > 0 => l \in filed')
                   /\ l \in excused \/ (overlap /\ OfSentry(l)) \/ issues'[l] \in {0, 1}
        <5>1. /\ issues' \in [Fi!Labels -> Nat] /\ filed' = filed \cup {a}
              /\ issues'[l] = IF l = a THEN issues[l] + 1 ELSE issues[l]
          BY <4>2, AddsEffect DEF FilerInv
        <5>2. l = a => l \in excused \/ (overlap /\ OfSentry(l)) \/ issues[l] = 0
          BY <4>2, CreatorAlone
        <5> QED BY <5>1, <5>2 DEF FilerInv, FiledOrCarried, CreatedOnce
      <4> QED BY <3>2, <4>1, <4>2
    <3>6. issues' \in [Fi!Labels -> Nat]
      BY <2>0, <3>2, AddsEffect DEF FilerInv
    <3>7. FilerTypes'
      BY <3>1, <3>3, <3>6 DEF FilerTypes, Fi!Threads, Fi!Labels, Fi!Ports, Fi!AllSigs
    <3>8. FiledOrCarried'
      <4>1. (\A l \in Fi!Labels : issues'[l] > 0 => l \in filed') /\ \A p \in Fi!Ports : bugs'[p] = {}
        BY <3>1, <3>5
      <4> QED BY <4>1 DEF FiledOrCarried, Fi!FaultFiled, Fi!Ports, Fi!Labels
    <3>9. CreatedOnce'
      <4>1. \A l \in Fi!Labels : l \in excused \/ (overlap /\ OfSentry(l)) \/ issues'[l] = 0 \/ issues'[l] = 1
        BY <3>5
      <4>2. \A t \in Fi!Threads, l \in Fi!Labels : ~Creates(t, l)'
        BY <3>3 DEF Creates
      <4> QED BY <3>1, <4>1, <4>2 DEF CreatedOnce, OfSentry, Fi!Threads, Fi!Labels
    <3> QED BY <3>4, <3>7, <3>8, <3>9 DEF FilerInv
  <2>10. CASE UNCHANGED Fi!vars
    BY <2>10 DEF Fi!vars, FilerInv, FilerTypes, CarriedOnce, FiledOrCarried, CreatedOnce, Fi!FaultFiled, Fi!InFlight,
                 Carries, HasLabel, Creates, OfSentry, OfDevice, Filing, Fi!Threads, Fi!Labels, Fi!Ports, Fi!AllSigs
  <2> QED BY <2>1, <2>2, <2>3, <2>4, <2>5, <2>6, <2>7, <2>8, <2>9, <2>10 DEF Fi!Next
<1>3. FilerInv => Fi!NeitherLostNorTwice
  BY DEF FilerInv, FiledOrCarried, CreatedOnce, OfSentry, FilerTypes, Fi!NeitherLostNorTwice, Fi!OneTicket
<1> QED BY <1>1, <1>2, <1>3, FilerRuns, PTL DEF Spec, NeitherLostNorTwice

-----------------------------------------------------------------------------
(* Task boxes and logs: a live count is of the run that develops, so the    *)
(* snapshot taken when it ended is what was banked; and memory shows no     *)
(* sign of a failure that the log file does not show or is about to.        *)

BoxRecord == [start : Nat, bank : Nat, live : Nat]
FileRecord == [start : Nat, total : Nat]
Plain == [pc : {"stage", "develop"}]
Failing == [pc : {"failing"}, reason : {"sign", "technical"}]
Lining ==
    [pc : {"line"}, kind : Ta!Kinds, then : {Ta!At0("develop")}] \cup [pc : {"line"}, kind : {"other"}, then : Failing]
Saving == [pc : {"write"}, snap : FileRecord, banked : Nat, then : {None, Ta!At0("stage")}]
Pipeline == Plain \cup Failing \cup Lining \cup Saving

ActivityTypes ==
    /\ box \in [Issues -> {None} \cup BoxRecord] /\ file \in [Issues -> {None} \cup FileRecord]
    /\ mem \in [Issues -> Seq(Ta!Kinds)] /\ log \in [Issues -> Seq(Ta!Kinds)]
    /\ run \in [Issues -> {None} \cup Pipeline] /\ operator \in {None} \cup [on : Issues]
    /\ reasons \in [Issues -> {None, "sign", "technical"}] /\ failedAs \in [Issues -> {None, "sign", "technical"}]
    /\ spent \in [Issues -> Nat] /\ logged \in [Issues -> Nat] /\ clock \in Nat

\* The run of the issue is under way; a line of it may be on its way to the file.
Developing(r) == r # None /\ (r.pc = "develop" \/ (r.pc = "line" /\ r.then.pc = "develop"))

TotalsOf(i) ==
    /\ box[i] # None /\ ~Developing(run[i]) => box[i].live = 0
    /\ i \notin excused =>
          /\ IF file[i] = None THEN spent[i] = 0 ELSE file[i].total = spent[i]
          /\ IF Ta!At(i, "write")
             THEN /\ box[i] # None /\ box[i].bank = spent[i] + run[i].banked
                  /\ run[i].snap.total = spent[i] + run[i].banked
             ELSE IF box[i] = None THEN spent[i] = 0 ELSE box[i].bank = spent[i]

\* The last run of a transcript shows a sign.
Shows(s) == \E k \in DOMAIN s : s[k] = "sign" /\ \A j \in DOMAIN s : j > k => s[j] # "start"

\* The log shows it, or does once the pipeline's line is in the file.
WillShow(i) ==
    IF Ta!At(i, "line") THEN run[i].kind = "sign" \/ (run[i].kind = "other" /\ Shows(log[i])) ELSE Shows(log[i])

FailsAsSign(r) ==
    r # None /\ \/ r.pc = "failing" /\ r.reason = "sign"
                \/ r.pc = "line" /\ r.then.pc = "failing" /\ r.then.reason = "sign"

SignsOf(i) ==
    /\ logged[i] = Len(log[i])
    /\ Shows(mem[i]) => WillShow(i)
    /\ FailsAsSign(run[i]) => Shows(log[i])
    /\ failedAs[i] = "sign" => Shows(log[i]) /\ reasons[i] \in {None, "sign"}
    /\ failedAs[i] # None => run[i] = None \/ (run[i].pc = "write" /\ run[i].then = None)

ActivityInv == ActivityTypes /\ \A i \in Issues : TotalsOf(i) /\ SignsOf(i)

\* None is none of the records and reasons, and a run reports a number of tokens.
ActivityHypotheses ==
    /\ None \notin BoxRecord \cup FileRecord \cup Pipeline \cup [on : Issues] \cup {"sign", "technical"}
    /\ Tokens \subseteq Nat /\ MaxStream \in Nat

\* A nonempty set of places of a sequence has a greatest one.
LEMMA GreatestPlace ==
    ASSUME NEW n \in Nat, NEW K \in SUBSET (1..n), K # {}
    PROVE  \E x \in K : \A y \in K : y <= x
<1> DEFINE R == OpToRel(<, Nat)
           T == {n - k : k \in K}
<1>1. IsWellFoundedOn(R, Nat)
  BY NatLessThanWellFounded, Zenon
<1>2. ASSUME NEW x \in Nat, NEW y \in Nat, y < x PROVE <<y, x>> \in R
  BY <1>2 DEF OpToRel
<1>3. T \in SUBSET Nat /\ T # {}
  <2>1. \A k \in K : n - k \in Nat
    OBVIOUS
  <2>2. PICK k : k \in K
    OBVIOUS
  <2>3. n - k \in T
    BY <2>2
  <2> QED BY <2>1, <2>3
<1> HIDE DEF R
<1>4. PICK m \in T : \A y \in T : ~(<<y, m>> \in R)
  BY <1>1, <1>3, WFMin
<1>5. PICK x \in K : m = n - x
  BY <1>4
<1>6. ASSUME NEW y \in K PROVE y <= x
  <2>1. n - y \in T /\ n - y \in Nat /\ m \in Nat
    BY <1>3, <1>4
  <2>2. ~(n - y < m)
    BY <1>2, <1>4, <2>1
  <2> QED BY <1>5, <2>1, <2>2
<1> QED BY <1>6

\* simpleFailReason is "sign" exactly if a sign follows the last start.
LEMMA ReasonIsShown ==
    ASSUME NEW s \in Seq(Ta!Kinds)
    PROVE  Ta!simpleFailReason(s) = "sign" <=> Shows(s)
<1> DEFINE starts == {k \in DOMAIN s : s[k] = "start"}
           m == CHOOSE k \in starts : \A j \in starts : j <= k
<1>0. Len(s) \in Nat /\ DOMAIN s = 1..Len(s)
  OBVIOUS
<1>1. Ta!simpleFailReason(s) = "sign" <=> \E k \in DOMAIN Ta!lastRun(s) : Ta!lastRun(s)[k] = "sign"
  BY DEF Ta!simpleFailReason, Ta!Range
<1>2. CASE starts = {}
  <2>1. Ta!lastRun(s) = s
    BY <1>2 DEF Ta!lastRun
  <2> QED BY <1>1, <1>2, <2>1 DEF Shows
<1>3. CASE starts # {}
  <2>1. \E k \in starts : \A j \in starts : j <= k
    BY <1>0, <1>3, GreatestPlace
  <2>2. m \in starts /\ \A j \in starts : j <= m
    BY <2>1
  <2>3. Ta!lastRun(s) = SubSeq(s, m, Len(s))
    BY <1>3 DEF Ta!lastRun
  <2> HIDE DEF m
  <2>4. m \in 1..Len(s) /\ s[m] = "start" /\ \A j \in DOMAIN s : s[j] = "start" => j <= m
    BY <1>0, <2>2
  <2>5. /\ Len(SubSeq(s, m, Len(s))) = Len(s) - m + 1 /\ DOMAIN SubSeq(s, m, Len(s)) = 1..(Len(s) - m + 1)
        /\ \A k \in 1..(Len(s) - m + 1) : SubSeq(s, m, Len(s))[k] = s[m + k - 1]
    BY <1>0, <2>4
  <2>6. ASSUME NEW k \in 1..(Len(s) - m + 1), SubSeq(s, m, Len(s))[k] = "sign" PROVE Shows(s)
    <3>1. m + k - 1 \in DOMAIN s /\ s[m + k - 1] = "sign"
      BY <1>0, <2>4, <2>5, <2>6
    <3>2. \A j \in DOMAIN s : j > m + k - 1 => s[j] # "start"
      BY <1>0, <2>4
    <3> QED BY <3>1, <3>2 DEF Shows
  <2>7. ASSUME NEW k \in DOMAIN s, s[k] = "sign", \A j \in DOMAIN s : j > k => s[j] # "start"
        PROVE  \E n \in 1..(Len(s) - m + 1) : SubSeq(s, m, Len(s))[n] = "sign"
    <3>1. k >= m
      BY <1>0, <2>4, <2>7
    <3>2. k - m + 1 \in 1..(Len(s) - m + 1) /\ m + (k - m + 1) - 1 = k
      BY <1>0, <2>4, <3>1
    <3> QED BY <2>5, <2>7, <3>2
  <2> QED BY <1>1, <2>3, <2>5, <2>6, <2>7 DEF Shows
<1> QED BY <1>2, <1>3

\* What a further line does to a transcript.
LEMMA ShowsAfter ==
    ASSUME NEW s \in Seq(Ta!Kinds), NEW e \in Ta!Kinds, NEW u, u = Append(s, e)
    PROVE  /\ u \in Seq(Ta!Kinds) /\ Len(u) = Len(s) + 1
           /\ Shows(u) <=> e = "sign" \/ (e = "other" /\ Shows(s))
<1>1. /\ Len(s) \in Nat /\ DOMAIN s = 1..Len(s) /\ DOMAIN u = 1..(Len(s) + 1) /\ u[Len(s) + 1] = e
      /\ \A k \in 1..Len(s) : u[k] = s[k]
  OBVIOUS
<1>2. CASE e = "sign"
  <2>1. Len(s) + 1 \in DOMAIN u /\ \A j \in DOMAIN u : ~(j > Len(s) + 1)
    BY <1>1
  <2> QED BY <1>1, <1>2, <2>1 DEF Shows
<1>3. CASE e = "start"
  <2>1. ~Shows(u)
    BY <1>1, <1>3 DEF Shows
  <2> QED BY <1>3, <2>1
<1>4. CASE e = "other"
  <2>1. ASSUME Shows(s) PROVE Shows(u)
    <3>1. PICK k \in 1..Len(s) : s[k] = "sign" /\ \A j \in 1..Len(s) : j > k => s[j] # "start"
      BY <1>1, <2>1 DEF Shows
    <3>2. k \in DOMAIN u /\ u[k] = "sign" /\ \A j \in DOMAIN u : j > k => u[j] # "start"
      BY <1>1, <1>4, <3>1
    <3> QED BY <3>2 DEF Shows
  <2>2. ASSUME Shows(u) PROVE Shows(s)
    <3>1. PICK k \in 1..(Len(s) + 1) : u[k] = "sign" /\ \A j \in 1..(Len(s) + 1) : j > k => u[j] # "start"
      BY <1>1, <2>2 DEF Shows
    <3>2. k \in DOMAIN s /\ s[k] = "sign" /\ \A j \in DOMAIN s : j > k => s[j] # "start"
      BY <1>1, <1>4, <3>1
    <3> QED BY <3>2 DEF Shows
  <2> QED BY <1>4, <2>1, <2>2
<1> QED BY <1>2, <1>3, <1>4 DEF Ta!Kinds

\* The last lines of a transcript show no more than all of them.
LEMMA CappedShows ==
    ASSUME MaxStream \in Nat, NEW s \in Seq(Ta!Kinds)
    PROVE  /\ Ta!Capped(s) \in Seq(Ta!Kinds)
           /\ Len(Ta!Capped(s)) = IF Len(s) > MaxStream THEN MaxStream ELSE Len(s)
           /\ Shows(Ta!Capped(s)) => Shows(s)
<1> DEFINE m == IF Len(s) > MaxStream THEN Len(s) - MaxStream + 1 ELSE 1
           u == SubSeq(s, m, Len(s))
<1>0. Ta!Capped(s) = u
  BY DEF Ta!Capped
<1>1. Len(s) \in Nat /\ DOMAIN s = 1..Len(s) /\ m \in Nat /\ m >= 1 /\ m <= Len(s) + 1
      /\ Len(s) - m + 1 = (IF Len(s) > MaxStream THEN MaxStream ELSE Len(s))
  OBVIOUS
<1> HIDE DEF m
<1>2. /\ u \in Seq(Ta!Kinds) /\ Len(u) = Len(s) - m + 1 /\ DOMAIN u = 1..(Len(s) - m + 1)
      /\ \A k \in 1..(Len(s) - m + 1) : u[k] = s[m + k - 1]
  <2>1. \A k \in m..Len(s) : s[k] \in Ta!Kinds
    BY <1>1
  <2> QED BY <1>1, <2>1, SubSeqProperties
<1> HIDE DEF u
<1>3. ASSUME Shows(u) PROVE Shows(s)
  <2>1. PICK k \in 1..(Len(s) - m + 1) : u[k] = "sign" /\ \A j \in 1..(Len(s) - m + 1) : j > k => u[j] # "start"
    BY <1>2, <1>3 DEF Shows
  <2>2. m + k - 1 \in DOMAIN s /\ s[m + k - 1] = "sign"
    BY <1>1, <1>2, <2>1
  <2>3. ASSUME NEW j \in DOMAIN s, j > m + k - 1 PROVE s[j] # "start"
    <3>1. j - m + 1 \in 1..(Len(s) - m + 1) /\ j - m + 1 > k /\ m + (j - m + 1) - 1 = j
      BY <1>1, <2>1, <2>3
    <3> QED BY <1>2, <2>1, <3>1
  <2> QED BY <2>2, <2>3 DEF Shows
<1> QED BY <1>0, <1>1, <1>2, <1>3

\* recordAction: the box exists afterwards, and what it evicts is excused.
LEMMA RecordEffect ==
    ASSUME ActivityHypotheses, ActivityTypes, NEW i \in Issues, NEW then \in {None, Ta!At0("stage")},
           Ta!RecordAction(i, then)
    PROVE  /\ box' \in [Issues -> {None} \cup BoxRecord] /\ clock' \in Nat /\ excused \subseteq excused'
           /\ run' \in [Issues -> {None} \cup Pipeline] /\ run'[i] \in Saving
           /\ run'[i].snap.total = box'[i].bank + box'[i].live /\ run'[i].banked = 0 /\ run'[i].then = then
           /\ box'[i] # None /\ box'[i] = IF box[i] # None THEN box[i] ELSE Ta!NewBox
           /\ \A j \in Issues \ {i} : run'[j] = run[j] /\ (box'[j] = box[j] \/ (j \in excused' /\ box'[j] = None))
<1>0. /\ box \in [Issues -> {None} \cup BoxRecord] /\ run \in [Issues -> {None} \cup Pipeline] /\ clock \in Nat
      /\ None \notin BoxRecord
  BY DEF ActivityTypes, ActivityHypotheses
<1>1. Ta!NewBox \in BoxRecord
  BY <1>0 DEF Ta!NewBox, BoxRecord
<1>2. Ta!EnsureTask(i) = (IF box[i] # None THEN box[i] ELSE Ta!NewBox) /\ Ta!EnsureTask(i) \in BoxRecord
  BY <1>0, <1>1 DEF Ta!EnsureTask, Ta!Boxes
<1>3. /\ box' = [j \in Issues |-> IF j = i THEN Ta!EnsureTask(i) ELSE IF j \in Ta!Evicted(i) THEN None ELSE box[j]]
      /\ excused' = excused \cup Ta!Evicted(i)
      /\ clock' = IF i \in Ta!Boxes THEN clock ELSE clock + 1
      /\ run' = [run EXCEPT ![i] = [pc |-> "write", snap |-> Ta!snapshot(box'[i]), banked |-> 0, then |-> then]]
  BY DEF Ta!RecordAction, Ta!Goes
<1>4. /\ box' \in [Issues -> {None} \cup BoxRecord] /\ clock' \in Nat /\ excused \subseteq excused'
      /\ box'[i] = Ta!EnsureTask(i)
      /\ \A j \in Issues \ {i} : box'[j] = box[j] \/ (j \in excused' /\ box'[j] = None)
  BY <1>0, <1>2, <1>3
<1>5. [pc |-> "write", snap |-> Ta!snapshot(box'[i]), banked |-> 0, then |-> then] \in Saving
  BY <1>2, <1>4 DEF Saving, Ta!snapshot, FileRecord, BoxRecord
<1>6. /\ run'[i] = [pc |-> "write", snap |-> Ta!snapshot(box'[i]), banked |-> 0, then |-> then]
      /\ run' \in [Issues -> {None} \cup Pipeline] /\ \A j \in Issues \ {i} : run'[j] = run[j]
  <2> DEFINE r == [pc |-> "write", snap |-> Ta!snapshot(box'[i]), banked |-> 0, then |-> then]
  <2>1. r \in Pipeline
    BY <1>5 DEF Pipeline
  <2> HIDE DEF r
  <2>2. run' = [run EXCEPT ![i] = r]
    BY <1>3 DEF r
  <2>3. run'[i] = r /\ run' \in [Issues -> {None} \cup Pipeline] /\ \A j \in Issues \ {i} : run'[j] = run[j]
    BY <1>0, <2>1, <2>2
  <2> QED BY <2>3 DEF r
<1>7. run'[i].snap.total = box'[i].bank + box'[i].live /\ run'[i].banked = 0 /\ run'[i].then = then
  BY <1>6 DEF Ta!snapshot
<1> QED BY <1>0, <1>2, <1>4, <1>5, <1>6, <1>7

\* AppendTaskLog under the lock: the box exists afterwards and memory has the line.
LEMMA RememberEffect ==
    ASSUME ActivityHypotheses, ActivityTypes, NEW i \in Issues, NEW kind \in Ta!Kinds, Ta!Remember(i, kind)
    PROVE  /\ box' \in [Issues -> {None} \cup BoxRecord] /\ mem' \in [Issues -> Seq(Ta!Kinds)]
           /\ box'[i] # None /\ box'[i] = IF box[i] # None THEN box[i] ELSE Ta!NewBox
           /\ Shows(mem'[i]) => kind = "sign" \/ (kind = "other" /\ Shows(mem[i]))
           /\ \A j \in Issues \ {i} : mem'[j] = mem[j] /\ box'[j] = box[j]
<1>0. /\ box \in [Issues -> {None} \cup BoxRecord] /\ mem \in [Issues -> Seq(Ta!Kinds)] /\ clock \in Nat
      /\ None \notin BoxRecord /\ MaxStream \in Nat
  BY DEF ActivityTypes, ActivityHypotheses
<1>1. Ta!NewBox \in BoxRecord
  BY <1>0 DEF Ta!NewBox, BoxRecord
<1>2. Ta!EnsureTask(i) = (IF box[i] # None THEN box[i] ELSE Ta!NewBox) /\ Ta!EnsureTask(i) \in BoxRecord
  BY <1>0, <1>1 DEF Ta!EnsureTask, Ta!Boxes
<1> DEFINE u == Append(mem[i], kind)
           c == Ta!Capped(u)
<1>3. mem' = [mem EXCEPT ![i] = c] /\ box' = [box EXCEPT ![i] = Ta!EnsureTask(i)]
  BY DEF Ta!Remember
<1>4. mem[i] \in Seq(Ta!Kinds)
  BY <1>0
<1>5. u \in Seq(Ta!Kinds) /\ (Shows(u) <=> kind = "sign" \/ (kind = "other" /\ Shows(mem[i])))
  BY <1>4, ShowsAfter
<1> HIDE DEF u
<1>6. c \in Seq(Ta!Kinds) /\ (Shows(c) => Shows(u))
  BY <1>0, <1>5, CappedShows
<1> HIDE DEF c
<1> QED BY <1>0, <1>2, <1>3, <1>5, <1>6

\* What the steps of a pipeline carry.
LEMMA PipelineFields ==
    ASSUME ActivityHypotheses, NEW r \in {None} \cup Pipeline, r # None
    PROVE  /\ r.pc \in {"stage", "develop", "failing", "line", "write"}
           /\ r.pc = "failing" => r.reason \in {"sign", "technical"}
           /\ r.pc = "write" => /\ r.snap \in FileRecord /\ r.banked \in Nat
                                /\ r.then = None \/ (r.then \in Pipeline /\ r.then.pc = "stage")
           /\ r.pc = "line" => /\ r.kind \in Ta!Kinds /\ r.then \in Pipeline /\ r.then # None
                               /\ r.then.pc = "develop" \/ (r.then.pc = "failing" /\ r.kind = "other")
<1>1. CASE r \in Plain
  BY <1>1 DEF Plain
<1>2. CASE r \in Failing
  BY <1>2 DEF Failing
<1>3. CASE r \in Saving
  BY <1>3 DEF Saving, Pipeline, Plain, Ta!At0
<1>4. CASE r \in Lining
  <2>1. r.pc = "line" /\ r.kind \in Ta!Kinds
    BY <1>4 DEF Lining, Ta!Kinds
  <2>2. r.then \in Plain \cup Failing /\ (r.then.pc = "develop" \/ (r.then.pc = "failing" /\ r.kind = "other"))
    BY <1>4 DEF Lining, Plain, Failing, Ta!At0
  <2>3. r.then \in Pipeline
    BY <2>2 DEF Pipeline
  <2> QED BY <2>1, <2>2, <2>3 DEF ActivityHypotheses
<1> QED BY <1>1, <1>2, <1>3, <1>4 DEF Pipeline

\* Nothing that the invariant says of the issue changes, unless its box is evicted.
Untouched(j) ==
    /\ run'[j] = run[j] /\ (box'[j] = box[j] \/ (j \in excused' /\ box'[j] = None))
    /\ file'[j] = file[j] /\ spent'[j] = spent[j] /\ log'[j] = log[j] /\ mem'[j] = mem[j]
    /\ logged'[j] = logged[j] /\ reasons'[j] = reasons[j] /\ failedAs'[j] = failedAs[j]

\* A step of one issue.
LEMMA StepOfOne ==
    ASSUME ActivityInv, ActivityTypes', NEW i \in Issues, excused \subseteq excused',
           \A j \in Issues \ {i} : Untouched(j), TotalsOf(i)', SignsOf(i)'
    PROVE  ActivityInv'
<1>1. ASSUME NEW j \in Issues \ {i} PROVE TotalsOf(j)'
  BY <1>1 DEF ActivityInv, TotalsOf, Untouched, Developing, Ta!At
<1>2. ASSUME NEW j \in Issues \ {i} PROVE SignsOf(j)'
  BY <1>2 DEF ActivityInv, SignsOf, Untouched, WillShow, Shows, FailsAsSign, Ta!At
<1> QED BY <1>1, <1>2 DEF ActivityInv

\* The pipeline of one issue goes on.
LEMMA PipelineGoes ==
    ASSUME ActivityTypes, NEW i \in Issues, NEW r \in {None} \cup Pipeline, run' = [run EXCEPT ![i] = r]
    PROVE  run' \in [Issues -> {None} \cup Pipeline] /\ run'[i] = r /\ \A j \in Issues \ {i} : run'[j] = run[j]
BY DEF ActivityTypes

\* The totals over a step that records an action of a pipeline that neither develops nor writes.
LEMMA RecordTotals ==
    ASSUME ActivityHypotheses, ActivityInv, NEW i \in Issues, NEW then \in {None, Ta!At0("stage")},
           Ta!RecordAction(i, then), ~Developing(run[i]), ~Ta!At(i, "write"), file' = file, spent' = spent
    PROVE  TotalsOf(i)'
<1>1. /\ excused \subseteq excused' /\ run'[i] \in Saving
      /\ run'[i].snap.total = box'[i].bank + box'[i].live /\ run'[i].banked = 0
      /\ box'[i] # None /\ box'[i] = IF box[i] # None THEN box[i] ELSE Ta!NewBox
  BY RecordEffect DEF ActivityInv
<1>2. run'[i] # None /\ run'[i].pc = "write"
  BY <1>1 DEF Saving, Pipeline, ActivityHypotheses
<1>3. TotalsOf(i) /\ spent[i] \in Nat /\ box[i] \in {None} \cup BoxRecord
  BY DEF ActivityInv, ActivityTypes
<1>4. Ta!NewBox.bank = 0 /\ Ta!NewBox.live = 0
  BY DEF Ta!NewBox
<1>5. box'[i].live = 0 /\ (i \notin excused => box'[i].bank = spent[i])
  BY <1>1, <1>3, <1>4 DEF TotalsOf
<1> QED BY <1>1, <1>2, <1>3, <1>5 DEF TotalsOf, Ta!At, Developing

\* The totals over a step that remembers a line.
LEMMA RememberTotals ==
    ASSUME ActivityHypotheses, ActivityInv, NEW i \in Issues, NEW kind \in Ta!Kinds, Ta!Remember(i, kind),
           Developing(run[i]) => Developing(run'[i]),
           run'[i] = run[i] \/ ~(Ta!At(i, "write") \/ Ta!At(i, "write")'),
           file' = file, spent' = spent, excused' = excused
    PROVE  TotalsOf(i)'
<1>1. box'[i] # None /\ box'[i] = IF box[i] # None THEN box[i] ELSE Ta!NewBox
  BY RememberEffect DEF ActivityInv
<1>2. TotalsOf(i) /\ spent[i] \in Nat
  BY DEF ActivityInv, ActivityTypes
<1>3. Ta!NewBox.bank = 0 /\ Ta!NewBox.live = 0
  BY DEF Ta!NewBox
<1>4. ~Developing(run'[i]) => box'[i].live = 0
  BY <1>1, <1>2, <1>3 DEF TotalsOf
<1>5. CASE run'[i] = run[i]
  BY <1>1, <1>2, <1>3, <1>4, <1>5 DEF TotalsOf, Ta!At
<1>6. CASE ~(Ta!At(i, "write") \/ Ta!At(i, "write")')
  BY <1>1, <1>2, <1>3, <1>4, <1>6 DEF TotalsOf
<1> QED BY <1>5, <1>6

\* The log of an issue grows by a line.
LEMMA PersistEffect ==
    ASSUME ActivityTypes, NEW i \in Issues, NEW kind \in Ta!Kinds, Ta!Persist(i, kind), logged[i] = Len(log[i])
    PROVE  /\ log' \in [Issues -> Seq(Ta!Kinds)] /\ logged' \in [Issues -> Nat] /\ logged'[i] = Len(log'[i])
           /\ Shows(log'[i]) <=> kind = "sign" \/ (kind = "other" /\ Shows(log[i]))
           /\ \A j \in Issues \ {i} : log'[j] = log[j] /\ logged'[j] = logged[j]
<1> DEFINE u == Append(log[i], kind)
<1>1. /\ log \in [Issues -> Seq(Ta!Kinds)] /\ logged \in [Issues -> Nat]
      /\ log' = [log EXCEPT ![i] = u] /\ logged' = [logged EXCEPT ![i] = logged[i] + 1]
  BY DEF ActivityTypes, Ta!Persist
<1>2. log[i] \in Seq(Ta!Kinds)
  BY <1>1
<1>3. /\ u \in Seq(Ta!Kinds) /\ Len(u) = Len(log[i]) + 1
      /\ Shows(u) <=> kind = "sign" \/ (kind = "other" /\ Shows(log[i]))
  BY <1>2, ShowsAfter
<1> HIDE DEF u
<1> QED BY <1>1, <1>3

\* internal/orchestrator: for any issues, caps, token counts and lines, however operator and agent
\* append together and wherever a crash falls, totals are exact, the transcript has every line up
\* to its cap and a failure is explained after a restart as before it, an evicted box and a failed
\* write of a snapshot excepted.
THEOREM ActivityIsKept ==
    ASSUME ActivityHypotheses
    PROVE  Spec => []ActivityKept
<1>1. Ta!Init => ActivityInv
  <2> SUFFICES ASSUME Ta!Init PROVE ActivityInv
    OBVIOUS
  <2>1. ActivityTypes
    BY DEF Ta!Init, ActivityTypes
  <2>2. ~Shows(<<>>)
    BY DEF Shows
  <2>3. ASSUME NEW i \in Issues PROVE TotalsOf(i) /\ SignsOf(i)
    BY <2>2 DEF Ta!Init, TotalsOf, SignsOf, FailsAsSign, Ta!At, ActivityHypotheses
  <2> QED BY <2>1, <2>3 DEF ActivityInv
<1>2. ActivityInv /\ [Ta!Next]_Ta!vars => ActivityInv'
  <2> SUFFICES ASSUME ActivityInv, [Ta!Next]_Ta!vars PROVE ActivityInv'
    OBVIOUS
  <2>0. ActivityTypes /\ \A i \in Issues : TotalsOf(i) /\ SignsOf(i)
    BY DEF ActivityInv
  <2>a. ASSUME NEW i \in Issues, run[i] # None PROVE run[i] \in Pipeline
    BY <2>0, <2>a DEF ActivityTypes
  <2>b. /\ Ta!At0("stage") \in Pipeline /\ Ta!At0("stage") # None /\ Ta!At0("stage").pc = "stage"
        /\ Ta!At0("develop") \in Pipeline /\ Ta!At0("develop") # None /\ Ta!At0("develop").pc = "develop"
    BY DEF Ta!At0, Plain, Pipeline, ActivityHypotheses
  <2>1. ASSUME NEW i \in Issues, Ta!Claim(i) PROVE ActivityInv'
    <3> DEFINE then == Ta!At0("stage")
    <3>1. /\ run[i] = None /\ Ta!RecordAction(i, then) /\ failedAs' = [failedAs EXCEPT ![i] = None]
          /\ UNCHANGED <<file, mem, log, operator, reasons, spent, logged>>
      BY <2>1 DEF Ta!Claim
    <3>2. then \in {None, Ta!At0("stage")}
      OBVIOUS
    <3> HIDE DEF then
    <3>3. /\ box' \in [Issues -> {None} \cup BoxRecord] /\ clock' \in Nat /\ excused \subseteq excused'
          /\ run' \in [Issues -> {None} \cup Pipeline] /\ run'[i] \in Saving
          /\ \A j \in Issues \ {i} : run'[j] = run[j] /\ (box'[j] = box[j] \/ (j \in excused' /\ box'[j] = None))
      BY <2>0, <3>1, <3>2, RecordEffect
    <3>4. TotalsOf(i)'
      BY <2>0, <3>1, <3>2, RecordTotals DEF Developing, Ta!At
    <3>5. ActivityTypes' /\ \A j \in Issues \ {i} : Untouched(j)
      BY <2>0, <3>1, <3>3 DEF ActivityTypes, Untouched
    <3>6. run'[i].pc = "write" /\ failedAs'[i] = None
      BY <2>0, <3>1, <3>3 DEF Saving, ActivityTypes
    <3>7. SignsOf(i)'
      BY <2>0, <3>1, <3>6 DEF SignsOf, WillShow, FailsAsSign, Ta!At, Shows, ActivityHypotheses
    <3> QED BY <3>3, <3>4, <3>5, <3>7, StepOfOne
  <2>2. ASSUME NEW i \in Issues, Ta!Develop(i) PROVE ActivityInv'
    <3> DEFINE r == Ta!At0("develop")
    <3>1. /\ run[i] # None /\ run[i].pc = "stage" /\ run' = [run EXCEPT ![i] = r]
          /\ UNCHANGED <<box, file, mem, log, operator, reasons, clock, spent, logged, excused, failedAs>>
      BY <2>2 DEF Ta!Develop, Ta!At, Ta!Goes
    <3>2. r \in Pipeline /\ r # None /\ r.pc = "develop"
      BY <2>b
    <3> HIDE DEF r
    <3>3. run' \in [Issues -> {None} \cup Pipeline] /\ run'[i] = r /\ \A j \in Issues \ {i} : run'[j] = run[j]
      BY <2>0, <3>1, <3>2, PipelineGoes
    <3>4. ActivityTypes' /\ \A j \in Issues \ {i} : Untouched(j)
      BY <2>0, <3>1, <3>3 DEF ActivityTypes, Untouched
    <3>5. TotalsOf(i)'
      BY <2>0, <3>1, <3>2, <3>3 DEF TotalsOf, Developing, Ta!At
    <3>6. SignsOf(i)'
      BY <2>0, <3>1, <3>2, <3>3 DEF SignsOf, WillShow, FailsAsSign, Ta!At, Shows
    <3> QED BY <3>1, <3>4, <3>5, <3>6, StepOfOne
  <2>3. ASSUME NEW i \in Issues, Ta!Defer(i) PROVE ActivityInv'
    <3> DEFINE r == None
    <3>1. /\ run[i] # None /\ run[i].pc = "stage" /\ run' = [run EXCEPT ![i] = r]
          /\ UNCHANGED <<box, file, mem, log, operator, reasons, clock, spent, logged, excused, failedAs>>
      BY <2>3 DEF Ta!Defer, Ta!At, Ta!Goes
    <3>2. r = None
      OBVIOUS
    <3> HIDE DEF r
    <3>3. run' \in [Issues -> {None} \cup Pipeline] /\ run'[i] = r /\ \A j \in Issues \ {i} : run'[j] = run[j]
      BY <2>0, <3>1, <3>2, PipelineGoes
    <3>4. ActivityTypes' /\ \A j \in Issues \ {i} : Untouched(j)
      BY <2>0, <3>1, <3>3 DEF ActivityTypes, Untouched
    <3>5. TotalsOf(i)'
      BY <2>0, <3>1, <3>2, <3>3 DEF TotalsOf, Developing, Ta!At
    <3>6. SignsOf(i)'
      BY <2>0, <3>1, <3>2, <3>3 DEF SignsOf, WillShow, FailsAsSign, Ta!At, Shows
    <3> QED BY <3>1, <3>4, <3>5, <3>6, StepOfOne
  <2>4. ASSUME NEW i \in Issues, Ta!Write(i) PROVE ActivityInv'
    <3> DEFINE r == run[i].then
    <3>1. /\ run[i] # None /\ run[i].pc = "write" /\ run' = [run EXCEPT ![i] = r]
          /\ \/ /\ file' = [file EXCEPT ![i] = run[i].snap] /\ spent' = [spent EXCEPT ![i] = @ + run[i].banked]
                /\ excused' = excused
             \/ excused' = excused \cup {i} /\ file' = file /\ spent' = spent
          /\ UNCHANGED <<box, mem, log, operator, reasons, clock, logged, failedAs>>
      BY <2>4 DEF Ta!Write, Ta!At, Ta!Goes
    <3>2. /\ r = None \/ (r \in Pipeline /\ r.pc = "stage")
          /\ run[i].snap \in FileRecord /\ run[i].banked \in Nat
      BY <2>a, <3>1, PipelineFields
    <3>3. run' \in [Issues -> {None} \cup Pipeline] /\ run'[i] = r /\ \A j \in Issues \ {i} : run'[j] = run[j]
      <4> HIDE DEF r
      <4> QED BY <2>0, <3>1, <3>2, PipelineGoes
    <3>4. /\ file' \in [Issues -> {None} \cup FileRecord] /\ spent' \in [Issues -> Nat]
          /\ excused \subseteq excused' /\ \A j \in Issues \ {i} : file'[j] = file[j] /\ spent'[j] = spent[j]
          /\ i \in excused' \/ (file'[i] = run[i].snap /\ spent'[i] = spent[i] + run[i].banked /\ i \notin excused)
      <4>1. file \in [Issues -> {None} \cup FileRecord] /\ spent \in [Issues -> Nat]
        BY <2>0 DEF ActivityTypes
      <4>2. CASE /\ file' = [file EXCEPT ![i] = run[i].snap] /\ spent' = [spent EXCEPT ![i] = @ + run[i].banked]
                 /\ excused' = excused
        <5>1. /\ spent' \in [Issues -> Nat] /\ spent'[i] = spent[i] + run[i].banked
              /\ \A j \in Issues \ {i} : spent'[j] = spent[j]
          BY <3>2, <4>1, <4>2
        <5>2. /\ file' \in [Issues -> {None} \cup FileRecord] /\ file'[i] = run[i].snap
              /\ \A j \in Issues \ {i} : file'[j] = file[j]
          BY <3>2, <4>1, <4>2
        <5> QED BY <4>2, <5>1, <5>2
      <4>3. CASE excused' = excused \cup {i} /\ file' = file /\ spent' = spent
        BY <4>1, <4>3
      <4> QED BY <3>1, <4>2, <4>3
    <3>5. ActivityTypes' /\ \A j \in Issues \ {i} : Untouched(j)
      BY <2>0, <3>1, <3>3, <3>4 DEF ActivityTypes, Untouched
    <3>6. run[i].snap # None /\ run[i].snap.total \in Nat
      BY <3>2 DEF FileRecord, ActivityHypotheses
    <3>7. TotalsOf(i)'
      BY <2>0, <3>1, <3>2, <3>3, <3>4, <3>6 DEF TotalsOf, Developing, Ta!At
    <3>8. SignsOf(i)'
      BY <2>0, <3>1, <3>2, <3>3 DEF SignsOf, WillShow, FailsAsSign, Ta!At, Shows
    <3> QED BY <3>4, <3>5, <3>7, <3>8, StepOfOne
  <2>5. ASSUME NEW i \in Issues, Ta!OperatorLine(i) PROVE ActivityInv'
    <3> DEFINE kind == "other"
    <3>1. /\ Ta!Remember(i, kind) /\ operator' = [on |-> i]
          /\ UNCHANGED <<file, log, run, reasons, clock, spent, logged, excused, failedAs>>
      BY <2>5 DEF Ta!OperatorLine
    <3>2. kind = "other" /\ kind \in Ta!Kinds
      BY DEF Ta!Kinds
    <3> HIDE DEF kind
    <3>3. /\ box' \in [Issues -> {None} \cup BoxRecord] /\ mem' \in [Issues -> Seq(Ta!Kinds)]
          /\ Shows(mem'[i]) => Shows(mem[i])
          /\ \A j \in Issues \ {i} : mem'[j] = mem[j] /\ box'[j] = box[j]
      BY <2>0, <3>1, <3>2, RememberEffect
    <3>4. ActivityTypes' /\ \A j \in Issues \ {i} : Untouched(j)
      BY <2>0, <3>1, <3>3 DEF ActivityTypes, Untouched
    <3>5. TotalsOf(i)'
      BY <3>1, <3>2, RememberTotals
    <3>6. SignsOf(i)'
      BY <2>0, <3>1, <3>3 DEF SignsOf, WillShow, FailsAsSign, Ta!At, Shows
    <3> QED BY <3>1, <3>4, <3>5, <3>6, StepOfOne
  <2>6. ASSUME NEW i \in Issues, Ta!LineOut(i) PROVE ActivityInv'
    <3> DEFINE r == run[i].then
               kind == run[i].kind
    <3>1. /\ run[i] # None /\ run[i].pc = "line" /\ Ta!Persist(i, kind) /\ run' = [run EXCEPT ![i] = r]
          /\ UNCHANGED <<box, file, mem, operator, reasons, clock, spent, excused, failedAs>>
      BY <2>6 DEF Ta!LineOut, Ta!At, Ta!Goes
    <3>2. /\ kind \in Ta!Kinds /\ r \in Pipeline /\ r # None
          /\ r.pc = "develop" \/ (r.pc = "failing" /\ kind = "other")
      BY <2>a, <3>1, PipelineFields
    <3>3. /\ run' \in [Issues -> {None} \cup Pipeline] /\ run'[i] = r /\ \A j \in Issues \ {i} : run'[j] = run[j]
          /\ log' \in [Issues -> Seq(Ta!Kinds)] /\ logged' \in [Issues -> Nat] /\ logged'[i] = Len(log'[i])
          /\ Shows(log'[i]) <=> kind = "sign" \/ (kind = "other" /\ Shows(log[i]))
          /\ \A j \in Issues \ {i} : log'[j] = log[j] /\ logged'[j] = logged[j]
      <4>1. logged[i] = Len(log[i])
        BY <2>0 DEF SignsOf
      <4> HIDE DEF r, kind
      <4> QED BY <2>0, <3>1, <3>2, <4>1, PersistEffect, PipelineGoes
    <3>4. ActivityTypes' /\ \A j \in Issues \ {i} : Untouched(j)
      BY <2>0, <3>1, <3>3 DEF ActivityTypes, Untouched
    <3>5. TotalsOf(i)'
      BY <2>0, <3>1, <3>2, <3>3 DEF TotalsOf, Developing, Ta!At
    <3>6. SignsOf(i)'
      <4>1. Shows(mem'[i]) => Shows(log'[i])
        BY <2>0, <3>1, <3>3 DEF SignsOf, WillShow, Ta!At
      <4>2. failedAs[i] = None
        BY <2>0, <3>1 DEF SignsOf
      <4>3. FailsAsSign(r) => Shows(log'[i])
        BY <2>0, <3>1, <3>2, <3>3 DEF SignsOf, FailsAsSign
      <4> QED BY <3>1, <3>2, <3>3, <4>1, <4>2, <4>3
              DEF SignsOf, WillShow, FailsAsSign, Ta!At, Shows, ActivityHypotheses
    <3> QED BY <3>1, <3>4, <3>5, <3>6, StepOfOne
  <2>7. ASSUME NEW i \in Issues, NEW n \in Tokens, Ta!SetTaskTokens(i, n) PROVE ActivityInv'
    <3> DEFINE b == Ta!EnsureTask(i)
               c == [b EXCEPT !.live = n]
    <3>1. /\ run[i] # None /\ run[i].pc = "develop" /\ box' = [box EXCEPT ![i] = c]
          /\ UNCHANGED <<file, mem, log, run, operator, reasons, clock, spent, logged, excused, failedAs>>
      BY <2>7 DEF Ta!SetTaskTokens, Ta!At
    <3>2. b \in BoxRecord /\ b = (IF box[i] # None THEN box[i] ELSE Ta!NewBox) /\ Ta!NewBox.bank = 0
      BY <2>0 DEF Ta!EnsureTask, Ta!Boxes, Ta!NewBox, BoxRecord, ActivityTypes
    <3> HIDE DEF b
    <3>3. c \in BoxRecord /\ c.bank = b.bank /\ c # None
      BY <3>2 DEF BoxRecord, ActivityHypotheses
    <3> HIDE DEF c
    <3>4. /\ box' \in [Issues -> {None} \cup BoxRecord] /\ box'[i] = c /\ \A j \in Issues \ {i} : box'[j] = box[j]
      BY <2>0, <3>1, <3>3 DEF ActivityTypes
    <3>5. ActivityTypes' /\ \A j \in Issues \ {i} : Untouched(j)
      BY <2>0, <3>1, <3>4 DEF ActivityTypes, Untouched
    <3>6. TotalsOf(i)'
      BY <2>0, <3>1, <3>2, <3>3, <3>4 DEF TotalsOf, Developing, Ta!At
    <3>7. SignsOf(i)'
      BY <2>0, <3>1 DEF SignsOf, WillShow, FailsAsSign, Ta!At, Shows
    <3> QED BY <3>1, <3>5, <3>6, <3>7, StepOfOne
  <2>8. ASSUME NEW i \in Issues, NEW n \in Tokens, Ta!BankTaskTokens(i, n) PROVE ActivityInv'
    <3> DEFINE b == Ta!EnsureTask(i)
               c == Ta!Banked(b, n)
               r == [pc |-> "write", snap |-> Ta!snapshot(box'[i]), banked |-> n, then |-> Ta!At0("stage")]
    <3>1. /\ run[i] # None /\ run[i].pc = "develop" /\ box' = [box EXCEPT ![i] = c] /\ run' = [run EXCEPT ![i] = r]
          /\ UNCHANGED <<file, mem, log, operator, reasons, clock, spent, logged, excused, failedAs>>
      BY <2>8 DEF Ta!BankTaskTokens, Ta!At, Ta!Goes
    <3>2. b \in BoxRecord /\ b = (IF box[i] # None THEN box[i] ELSE Ta!NewBox) /\ Ta!NewBox.bank = 0
      BY <2>0 DEF Ta!EnsureTask, Ta!Boxes, Ta!NewBox, BoxRecord, ActivityTypes
    <3> HIDE DEF b
    <3>3. n \in Nat /\ c \in BoxRecord /\ c.bank = b.bank + n /\ c.live = 0 /\ c # None /\ b.bank \in Nat
      <4>1. n \in Nat /\ None \notin BoxRecord
        BY DEF ActivityHypotheses
      <4>2. b.start \in Nat /\ b.bank \in Nat /\ b.live \in Nat
        BY <3>2 DEF BoxRecord
      <4>3. c \in BoxRecord /\ c.bank = b.bank + n /\ c.live = 0
        BY <4>1, <4>2 DEF BoxRecord, Ta!Banked
      <4> QED BY <4>1, <4>2, <4>3
    <3> HIDE DEF c
    <3>4. /\ box' \in [Issues -> {None} \cup BoxRecord] /\ box'[i] = c /\ \A j \in Issues \ {i} : box'[j] = box[j]
      BY <2>0, <3>1, <3>3 DEF ActivityTypes
    <3>5. r \in Saving /\ r.pc = "write" /\ r.banked = n /\ r.snap.total = b.bank + n
      BY <3>3, <3>4 DEF Saving, Ta!snapshot, FileRecord, BoxRecord
    <3> HIDE DEF r
    <3>6. r \in Pipeline /\ r # None
      BY <3>5 DEF Pipeline, ActivityHypotheses
    <3>7. run' \in [Issues -> {None} \cup Pipeline] /\ run'[i] = r /\ \A j \in Issues \ {i} : run'[j] = run[j]
      BY <2>0, <3>1, <3>6, PipelineGoes
    <3>8. ActivityTypes' /\ \A j \in Issues \ {i} : Untouched(j)
      BY <2>0, <3>1, <3>4, <3>7 DEF ActivityTypes, Untouched
    <3>9. TotalsOf(i)'
      <4>1. i \notin excused => b.bank = spent[i]
        BY <2>0, <3>1, <3>2 DEF TotalsOf, Ta!At
      <4> QED BY <2>0, <3>1, <3>3, <3>4, <3>5, <3>6, <3>7, <4>1 DEF TotalsOf, Developing, Ta!At
    <3>10. SignsOf(i)'
      BY <2>0, <3>1, <3>5, <3>6, <3>7 DEF SignsOf, WillShow, FailsAsSign, Ta!At, Shows
    <3> QED BY <3>1, <3>8, <3>9, <3>10, StepOfOne
  <2>9. ASSUME NEW i \in Issues, Ta!Fail(i) PROVE ActivityInv'
    <3> DEFINE kind == "other"
               why == Ta!simpleFailReason(Ta!TaskStream(i))
               f == [pc |-> "failing", reason |-> why]
               r == [pc |-> "line", kind |-> kind, then |-> f]
    <3>1. /\ run[i] # None /\ run[i].pc = "stage" /\ Ta!Remember(i, kind) /\ run' = [run EXCEPT ![i] = r]
          /\ UNCHANGED <<file, log, operator, reasons, clock, spent, logged, excused, failedAs>>
      BY <2>9 DEF Ta!Fail, Ta!At, Ta!Goes
    <3>2. why \in {"sign", "technical"}
      BY DEF Ta!simpleFailReason
    <3>3. why = "sign" => Shows(log[i])
      <4>1. log[i] \in Seq(Ta!Kinds) /\ mem[i] \in Seq(Ta!Kinds) /\ MaxStream \in Nat
        BY <2>0 DEF ActivityTypes, ActivityHypotheses
      <4>2. Shows(mem[i]) => Shows(log[i])
        BY <2>0, <3>1 DEF SignsOf, WillShow, Ta!At
      <4>3. Ta!Capped(log[i]) \in Seq(Ta!Kinds) /\ (Shows(Ta!Capped(log[i])) => Shows(log[i]))
        BY <4>1, CappedShows
      <4>4. /\ Ta!simpleFailReason(Ta!Capped(log[i])) = "sign" => Shows(log[i])
            /\ Ta!simpleFailReason(mem[i]) = "sign" => Shows(log[i])
        BY <4>1, <4>2, <4>3, ReasonIsShown
      <4>5. Ta!TaskStream(i) = Ta!Capped(log[i]) \/ Ta!TaskStream(i) = mem[i]
        BY DEF Ta!TaskStream
      <4> QED BY <4>4, <4>5
    <3> HIDE DEF why
    <3>4. f \in Failing /\ f.pc = "failing" /\ f.reason = why
      BY <3>2 DEF Failing
    <3> HIDE DEF f
    <3>5. r \in Lining /\ r.pc = "line" /\ r.kind = "other" /\ r.then = f
      BY <3>4 DEF Lining
    <3>6. kind = "other" /\ kind \in Ta!Kinds
      BY DEF Ta!Kinds
    <3> HIDE DEF r, kind
    <3>7. r \in Pipeline /\ r # None
      BY <3>5 DEF Pipeline, ActivityHypotheses
    <3>8. run' \in [Issues -> {None} \cup Pipeline] /\ run'[i] = r /\ \A j \in Issues \ {i} : run'[j] = run[j]
      BY <2>0, <3>1, <3>7, PipelineGoes
    <3>9. /\ box' \in [Issues -> {None} \cup BoxRecord] /\ mem' \in [Issues -> Seq(Ta!Kinds)]
          /\ Shows(mem'[i]) => Shows(mem[i])
          /\ \A j \in Issues \ {i} : mem'[j] = mem[j] /\ box'[j] = box[j]
      BY <2>0, <3>1, <3>6, RememberEffect
    <3>10. ActivityTypes' /\ \A j \in Issues \ {i} : Untouched(j)
      BY <2>0, <3>1, <3>8, <3>9 DEF ActivityTypes, Untouched
    <3>11. TotalsOf(i)'
      BY <3>1, <3>5, <3>6, <3>8, RememberTotals DEF Developing, Ta!At
    <3>12. SignsOf(i)'
      <4>1. Shows(mem[i]) => Shows(log[i])
        BY <2>0, <3>1 DEF SignsOf, WillShow, Ta!At
      <4>2. failedAs[i] = None /\ logged[i] = Len(log[i])
        BY <2>0, <3>1 DEF SignsOf
      <4> QED BY <3>1, <3>3, <3>4, <3>5, <3>7, <3>8, <3>9, <4>1, <4>2
              DEF SignsOf, WillShow, FailsAsSign, Ta!At, Shows, ActivityHypotheses
    <3> QED BY <3>1, <3>10, <3>11, <3>12, StepOfOne
  <2>10. ASSUME NEW i \in Issues, Ta!FailEnd(i) PROVE ActivityInv'
    <3> DEFINE then == None
               why == run[i].reason
    <3>1. /\ run[i] # None /\ run[i].pc = "failing" /\ Ta!RecordAction(i, then)
          /\ reasons' = [reasons EXCEPT ![i] = why] /\ failedAs' = [failedAs EXCEPT ![i] = why]
          /\ UNCHANGED <<file, mem, log, operator, spent, logged>>
      BY <2>10 DEF Ta!FailEnd, Ta!At
    <3>2. then \in {None, Ta!At0("stage")} /\ then = None
      OBVIOUS
    <3>3. why \in {"sign", "technical"} /\ (why = "sign" => Shows(log[i]))
      BY <2>0, <2>a, <3>1, PipelineFields DEF SignsOf, FailsAsSign
    <3> HIDE DEF then, why
    <3>4. /\ box' \in [Issues -> {None} \cup BoxRecord] /\ clock' \in Nat /\ excused \subseteq excused'
          /\ run' \in [Issues -> {None} \cup Pipeline] /\ run'[i] \in Saving /\ run'[i].then = then
          /\ \A j \in Issues \ {i} : run'[j] = run[j] /\ (box'[j] = box[j] \/ (j \in excused' /\ box'[j] = None))
      BY <2>0, <3>1, <3>2, RecordEffect
    <3>5. TotalsOf(i)'
      BY <2>0, <3>1, <3>2, RecordTotals DEF Developing, Ta!At
    <3>6. /\ reasons' \in [Issues -> {None, "sign", "technical"}] /\ failedAs' \in [Issues -> {None, "sign", "technical"}]
          /\ reasons'[i] = why /\ failedAs'[i] = why
          /\ \A j \in Issues \ {i} : reasons'[j] = reasons[j] /\ failedAs'[j] = failedAs[j]
      BY <2>0, <3>1, <3>3 DEF ActivityTypes
    <3>7. ActivityTypes' /\ \A j \in Issues \ {i} : Untouched(j)
      BY <2>0, <3>1, <3>4, <3>6 DEF ActivityTypes, Untouched
    <3>8. run'[i].pc = "write"
      BY <3>4 DEF Saving
    <3>9. SignsOf(i)'
      BY <2>0, <3>1, <3>2, <3>3, <3>4, <3>6, <3>8 DEF SignsOf, WillShow, FailsAsSign, Ta!At, Shows
    <3> QED BY <3>4, <3>5, <3>7, <3>9, StepOfOne
  <2>11. ASSUME NEW i \in Issues, Ta!Finish(i) PROVE ActivityInv'
    <3> DEFINE then == None
    <3>1. /\ run[i] # None /\ run[i].pc = "stage" /\ Ta!RecordAction(i, then)
          /\ UNCHANGED <<file, mem, log, operator, reasons, spent, logged, failedAs>>
      BY <2>11 DEF Ta!Finish, Ta!At
    <3>2. then \in {None, Ta!At0("stage")} /\ then = None
      OBVIOUS
    <3> HIDE DEF then
    <3>3. /\ box' \in [Issues -> {None} \cup BoxRecord] /\ clock' \in Nat /\ excused \subseteq excused'
          /\ run' \in [Issues -> {None} \cup Pipeline] /\ run'[i] \in Saving /\ run'[i].then = then
          /\ \A j \in Issues \ {i} : run'[j] = run[j] /\ (box'[j] = box[j] \/ (j \in excused' /\ box'[j] = None))
      BY <2>0, <3>1, <3>2, RecordEffect
    <3>4. TotalsOf(i)'
      BY <2>0, <3>1, <3>2, RecordTotals DEF Developing, Ta!At
    <3>5. ActivityTypes' /\ \A j \in Issues \ {i} : Untouched(j)
      BY <2>0, <3>1, <3>3 DEF ActivityTypes, Untouched
    <3>6. run'[i].pc = "write"
      BY <3>3 DEF Saving
    <3>7. SignsOf(i)'
      BY <2>0, <3>1, <3>6 DEF SignsOf, WillShow, FailsAsSign, Ta!At, Shows, ActivityHypotheses
    <3> QED BY <3>3, <3>4, <3>5, <3>7, StepOfOne
  <2>12. ASSUME NEW i \in Issues, NEW kind \in Ta!Kinds, Ta!AgentLine(i, kind) PROVE ActivityInv'
    <3> DEFINE r == [pc |-> "line", kind |-> kind, then |-> Ta!At0("develop")]
    <3>1. /\ run[i] # None /\ run[i].pc = "develop" /\ Ta!Remember(i, kind) /\ run' = [run EXCEPT ![i] = r]
          /\ UNCHANGED <<file, log, operator, reasons, clock, spent, logged, excused, failedAs>>
      BY <2>12 DEF Ta!AgentLine, Ta!At, Ta!Goes
    <3>2. r \in Lining /\ r.pc = "line" /\ r.kind = kind /\ r.then.pc = "develop"
      BY <2>b DEF Lining
    <3> HIDE DEF r
    <3>3. r \in Pipeline /\ r # None
      BY <3>2 DEF Pipeline, ActivityHypotheses
    <3>4. run' \in [Issues -> {None} \cup Pipeline] /\ run'[i] = r /\ \A j \in Issues \ {i} : run'[j] = run[j]
      BY <2>0, <3>1, <3>3, PipelineGoes
    <3>5. /\ box' \in [Issues -> {None} \cup BoxRecord] /\ mem' \in [Issues -> Seq(Ta!Kinds)]
          /\ Shows(mem'[i]) => kind = "sign" \/ (kind = "other" /\ Shows(mem[i]))
          /\ \A j \in Issues \ {i} : mem'[j] = mem[j] /\ box'[j] = box[j]
      BY <2>0, <3>1, RememberEffect
    <3>6. ActivityTypes' /\ \A j \in Issues \ {i} : Untouched(j)
      BY <2>0, <3>1, <3>4, <3>5 DEF ActivityTypes, Untouched
    <3>7. TotalsOf(i)'
      BY <3>1, <3>2, <3>3, <3>4, RememberTotals DEF Developing, Ta!At
    <3>8. SignsOf(i)'
      <4>1. Shows(mem[i]) => Shows(log[i])
        BY <2>0, <3>1 DEF SignsOf, WillShow, Ta!At
      <4>2. failedAs[i] = None /\ logged[i] = Len(log[i])
        BY <2>0, <3>1 DEF SignsOf
      <4> QED BY <3>1, <3>2, <3>3, <3>4, <3>5, <4>1, <4>2
              DEF SignsOf, WillShow, FailsAsSign, Ta!At, Shows, ActivityHypotheses
    <3> QED BY <3>1, <3>6, <3>7, <3>8, StepOfOne
  <2>13. ASSUME Ta!OperatorLineOut PROVE ActivityInv'
    <3> DEFINE i == operator.on
               kind == "other"
    <3>1. /\ operator # None /\ Ta!Persist(i, kind) /\ operator' = None
          /\ UNCHANGED <<box, file, mem, run, reasons, clock, spent, excused, failedAs>>
      BY <2>13 DEF Ta!OperatorLineOut
    <3>2. i \in Issues /\ kind \in Ta!Kinds /\ kind = "other"
      BY <2>0, <3>1 DEF ActivityTypes, Ta!Kinds
    <3>3. \E k \in Issues : k = i
      BY <3>2
    <3> HIDE DEF i, kind
    <3>4. PICK k \in Issues : k = i
      BY <3>3
    <3>5. logged[k] = Len(log[k]) /\ Ta!Persist(k, kind)
      BY <2>0, <3>1, <3>4 DEF SignsOf
    <3>6. /\ log' \in [Issues -> Seq(Ta!Kinds)] /\ logged' \in [Issues -> Nat] /\ logged'[k] = Len(log'[k])
          /\ Shows(log'[k]) <=> Shows(log[k])
          /\ \A j \in Issues \ {k} : log'[j] = log[j] /\ logged'[j] = logged[j]
      BY <2>0, <3>2, <3>5, PersistEffect
    <3>7. ActivityTypes' /\ \A j \in Issues \ {k} : Untouched(j)
      BY <2>0, <3>1, <3>6 DEF ActivityTypes, Untouched
    <3>8. TotalsOf(k)'
      BY <2>0, <3>1 DEF TotalsOf, Developing, Ta!At
    <3>9. SignsOf(k)'
      <4>1. Shows(mem[k]) = Shows(mem[k])'
        BY <3>1 DEF Shows
      <4>2. Shows(log[k]) <=> Shows(log[k])'
        BY <3>6 DEF Shows
      <4> QED BY <2>0, <3>1, <3>6, <4>1, <4>2 DEF SignsOf, WillShow, FailsAsSign, Ta!At
    <3> QED BY <3>1, <3>7, <3>8, <3>9, StepOfOne
  <2>14. ASSUME Ta!Crash PROVE ActivityInv'
    <3>1. PICK hit \in SUBSET Issues : /\ file' = [i \in Issues |-> IF i \in hit THEN None ELSE file[i]]
                                       /\ excused' = excused \cup hit
      BY <2>14 DEF Ta!Crash
    <3>2. /\ box' = [i \in Issues |-> IF file'[i] = None THEN None ELSE Ta!Restored(file'[i])]
          /\ mem' = [i \in Issues |-> <<>>] /\ run' = [i \in Issues |-> None]
          /\ operator' = None /\ reasons' = [i \in Issues |-> None]
          /\ UNCHANGED <<log, clock, spent, logged, failedAs>>
      BY <2>14 DEF Ta!Crash
    <3>3. /\ file' \in [Issues -> {None} \cup FileRecord]
          /\ \A i \in Issues : i \in excused' \/ (file'[i] = file[i] /\ i \notin excused)
      BY <2>0, <3>1 DEF ActivityTypes
    <3>4. ASSUME NEW i \in Issues, file'[i] # None
          PROVE  Ta!Restored(file'[i]) \in BoxRecord /\ Ta!Restored(file'[i]).bank = file'[i].total /\ Ta!Restored(file'[i]).live = 0
      BY <3>3, <3>4 DEF Ta!Restored, BoxRecord, FileRecord
    <3>5. ActivityTypes'
      <4>1. box' \in [Issues -> {None} \cup BoxRecord]
        BY <3>2, <3>4
      <4>2. <<>> \in Seq(Ta!Kinds)
        OBVIOUS
      <4> QED BY <2>0, <3>2, <3>3, <4>1, <4>2 DEF ActivityTypes
    <3>6. ASSUME NEW i \in Issues PROVE TotalsOf(i)'
      <4>1. CASE file'[i] = None
        BY <2>0, <3>2, <3>3, <4>1 DEF TotalsOf, Ta!At
      <4>2. CASE file'[i] # None
        <5>1. box'[i] = Ta!Restored(file'[i]) /\ run'[i] = None /\ spent'[i] = spent[i]
          BY <3>2, <4>2
        <5>2. box'[i].live = 0 /\ box'[i].bank = file'[i].total /\ box'[i] # None
          BY <3>4, <4>2, <5>1 DEF ActivityHypotheses
        <5>3. i \notin excused' => file'[i].total = spent[i]
          BY <2>0, <3>3, <4>2 DEF TotalsOf
        <5> QED BY <4>2, <5>1, <5>2, <5>3 DEF TotalsOf, Ta!At
      <4> QED BY <4>1, <4>2
    <3>7. ASSUME NEW i \in Issues PROVE SignsOf(i)'
      <4>1. mem'[i] = <<>> /\ run'[i] = None /\ reasons'[i] = None
        BY <3>2
      <4>2. ~Shows(mem[i])'
        BY <4>1 DEF Shows
      <4> QED BY <2>0, <3>2, <4>1, <4>2 DEF SignsOf, FailsAsSign, Shows
    <3> QED BY <3>5, <3>6, <3>7 DEF ActivityInv
  <2>15. CASE UNCHANGED Ta!vars
    BY <2>0, <2>15 DEF Ta!vars, ActivityInv, ActivityTypes, TotalsOf, SignsOf, Developing, WillShow, FailsAsSign, Shows, Ta!At
  <2> QED BY <2>1, <2>2, <2>3, <2>4, <2>5, <2>6, <2>7, <2>8, <2>9, <2>10, <2>11, <2>12, <2>13, <2>14, <2>15 DEF Ta!Next
<1>3. ActivityInv => Ta!ActivityKept
  <2> SUFFICES ASSUME ActivityInv PROVE Ta!ActivityKept
    OBVIOUS
  <2>0. ActivityTypes /\ \A i \in Issues : TotalsOf(i) /\ SignsOf(i)
    BY DEF ActivityInv
  <2>1. Ta!TotalsExact
    BY <2>0 DEF Ta!TotalsExact, TotalsOf, Ta!Boxes, ActivityTypes
  <2>2. ASSUME NEW i \in Issues
        PROVE  /\ Len(Ta!TaskStream(i)) >= IF logged[i] > MaxStream THEN MaxStream ELSE logged[i]
               /\ failedAs[i] = "sign" => Ta!FailReason(i) = "sign"
    <3>1. log[i] \in Seq(Ta!Kinds) /\ mem[i] \in Seq(Ta!Kinds) /\ MaxStream \in Nat /\ SignsOf(i)
      BY <2>0 DEF ActivityTypes, ActivityHypotheses
    <3>2. Len(Ta!Capped(log[i])) = IF Len(log[i]) > MaxStream THEN MaxStream ELSE Len(log[i])
      BY <3>1, CappedShows
    <3>3. Len(Ta!TaskStream(i)) >= Len(Ta!Capped(log[i]))
      BY <3>1, <3>2 DEF Ta!TaskStream
    <3>4. Shows(log[i]) => Ta!simpleFailReason(log[i]) = "sign"
      BY <3>1, ReasonIsShown
    <3> QED BY <3>1, <3>2, <3>3, <3>4 DEF SignsOf, Ta!FailReason
  <2> QED BY <2>1, <2>2 DEF Ta!ActivityKept, Ta!StreamComplete, Ta!ReasonSurvives
<1> QED BY <1>1, <1>2, <1>3, ActivityRuns, PTL DEF Spec, ActivityKept

-----------------------------------------------------------------------------
(* Lists: what a loop keeps of a list. *)

\* Lists: the k-th place exists, and the places are in order.
LEMMA PlacesInOrder ==
    ASSUME NEW n \in Nat, NEW K \in SUBSET (1..n)
    PROVE  /\ Cardinality(K) \in Nat /\ IsFiniteSet(K)
           /\ \A k \in 1..Cardinality(K) : Place(K, k) \in K
           /\ \A k, m \in 1..Cardinality(K) : k < m => Place(K, k) < Place(K, m)
           /\ \A i \in K : \E k \in 1..Cardinality(K) : Place(K, k) = i
<1> DEFINE upTo(i) == {j \in K : j <= i}
           c == Cardinality(K)
           f == [i \in K |-> Cardinality(upTo(i))]
<1>0. \A i \in K : i \in Nat /\ i \in 1..n
  OBVIOUS
<1>1. IsFiniteSet(K) /\ c \in Nat
  <2>1. IsFiniteSet(1..n)
    BY FS_Interval
  <2> QED BY <2>1, FS_Subset, FS_CardinalityType
<1>2. ASSUME NEW i \in K PROVE IsFiniteSet(upTo(i)) /\ Cardinality(upTo(i)) \in 1..c
  <2>1. IsFiniteSet(upTo(i)) /\ Cardinality(upTo(i)) <= c /\ Cardinality(upTo(i)) \in Nat
    BY <1>1, FS_Subset, FS_CardinalityType
  <2>2. Cardinality(upTo(i)) # 0
    <3>1. i \in upTo(i)
      OBVIOUS
    <3> QED BY <2>1, <3>1, FS_EmptySet
  <2> QED BY <1>1, <2>1, <2>2
<1>3. ASSUME NEW i \in K, NEW j \in K, i < j PROVE Cardinality(upTo(i)) < Cardinality(upTo(j))
  <2>1. upTo(i) \in SUBSET upTo(j) /\ j \in upTo(j) /\ j \notin upTo(i)
    <3>1. i \in Nat /\ j \in Nat
      BY <1>0
    <3>2. \A x \in K : x <= i => x <= j
      <4> SUFFICES ASSUME NEW x \in K, x <= i PROVE x <= j
        OBVIOUS
      <4>1. x \in Nat
        BY <1>0
      <4> QED BY <1>3, <3>1, <4>1
    <3>3. upTo(i) \subseteq upTo(j)
      BY <3>2
    <3>4. j \in upTo(j) /\ j \notin upTo(i)
      BY <1>3, <3>1
    <3> HIDE DEF upTo
    <3> QED BY <3>3, <3>4
  <2> HIDE DEF upTo
  <2>2. Cardinality(upTo(i)) <= Cardinality(upTo(j)) /\ (Cardinality(upTo(j)) = Cardinality(upTo(i)) => upTo(j) = upTo(i))
    <3>1. IsFiniteSet(upTo(i)) /\ IsFiniteSet(upTo(j))
      BY <1>2
    <3> QED BY <2>1, <3>1, FS_Subset
  <2>3. Cardinality(upTo(j)) # Cardinality(upTo(i))
    BY <2>1, <2>2
  <2> QED BY <1>1, <1>2, <2>2, <2>3
<1> HIDE DEF upTo
<1>4. f \in Injection(K, 1..c)
  <2>1. f \in [K -> 1..c]
    BY <1>2
  <2>2. ASSUME NEW i \in K, NEW j \in K, f[i] = f[j] PROVE i = j
    <3>1. ~(i < j) /\ ~(j < i)
      BY <1>1, <1>2, <1>3, <2>2
    <3> QED BY <3>1
  <2> QED BY <2>1, <2>2 DEF Injection, IsInjective
<1>5. IsFiniteSet(1..c) /\ Cardinality(1..c) = c
  BY <1>1, FS_Interval
<1>6. f \in Surjection(K, 1..c)
  BY <1>4, <1>5, FS_Injection
<1>7. ASSUME NEW k \in 1..c PROVE Place(K, k) \in K /\ Cardinality(upTo(Place(K, k))) = k
  <2>1. \E i \in K : Cardinality(upTo(i)) = k
    BY <1>6 DEF Surjection
  <2> QED BY <2>1 DEF Place, upTo
<1>8. ASSUME NEW k \in 1..c, NEW m \in 1..c, k < m PROVE Place(K, k) < Place(K, m)
  <2>1. /\ Place(K, k) \in K /\ Cardinality(upTo(Place(K, k))) = k
        /\ Place(K, m) \in K /\ Cardinality(upTo(Place(K, m))) = m
    BY <1>7
  <2>2. Place(K, k) # Place(K, m)
    BY <1>8, <2>1
  <2>3. ~(Place(K, m) < Place(K, k))
    <3> SUFFICES ASSUME Place(K, m) < Place(K, k) PROVE FALSE
      OBVIOUS
    <3>1. Cardinality(upTo(Place(K, m))) < Cardinality(upTo(Place(K, k)))
      BY <1>3, <2>1
    <3>2. m < k
      BY <2>1, <3>1
    <3> QED BY <1>1, <1>8, <3>2
  <2>4. Place(K, k) \in Nat /\ Place(K, m) \in Nat
    BY <1>0, <2>1
  <2> QED BY <2>2, <2>3, <2>4
<1>9. ASSUME NEW i \in K PROVE \E k \in 1..c : Place(K, k) = i
  <2>1. Cardinality(upTo(i)) \in 1..c
    BY <1>2
  <2>2. \A j \in K : Cardinality(upTo(j)) = Cardinality(upTo(i)) => j = i
    <3> SUFFICES ASSUME NEW j \in K, Cardinality(upTo(j)) = Cardinality(upTo(i)) PROVE j = i
      OBVIOUS
    <3>1. ~(i < j) /\ ~(j < i)
      BY <1>1, <1>2, <1>3
    <3> QED BY <3>1
  <2> QED BY <1>7, <2>1, <2>2
<1> QED BY <1>1, <1>7, <1>8, <1>9

\* Lists: what is kept is a list of elements of s at places of K, in their order, and all of them.
LEMMA KeptElements ==
    ASSUME NEW S, NEW s \in Seq(S), NEW K \in SUBSET (DOMAIN s)
    PROVE  /\ Kept(s, K) \in Seq(S) /\ Len(Kept(s, K)) = Cardinality(K) /\ Cardinality(K) \in Nat
           /\ DOMAIN Kept(s, K) = 1..Cardinality(K)
           /\ \A k \in DOMAIN Kept(s, K) : Place(K, k) \in K /\ Kept(s, K)[k] = s[Place(K, k)]
           /\ \A k, m \in DOMAIN Kept(s, K) : Place(K, k) = Place(K, m) => k = m
           /\ \A i \in K : \E k \in DOMAIN Kept(s, K) : Place(K, k) = i
<1>1. DOMAIN s = 1..Len(s) /\ Len(s) \in Nat
  OBVIOUS
<1>2. /\ Cardinality(K) \in Nat
      /\ \A k \in 1..Cardinality(K) : Place(K, k) \in K
      /\ \A k, m \in 1..Cardinality(K) : k < m => Place(K, k) < Place(K, m)
      /\ \A i \in K : \E k \in 1..Cardinality(K) : Place(K, k) = i
  BY <1>1, PlacesInOrder
<1>3. DOMAIN Kept(s, K) = 1..Cardinality(K) /\ \A k \in 1..Cardinality(K) : Kept(s, K)[k] = s[Place(K, k)]
  BY DEF Kept
<1>4. Kept(s, K) \in [1..Cardinality(K) -> S]
  BY <1>1, <1>2 DEF Kept
<1>5. Kept(s, K) \in Seq(S) /\ Len(Kept(s, K)) = Cardinality(K)
  BY <1>2, <1>3, <1>4, IsASeq, LenProperties
<1>6. \A k, m \in 1..Cardinality(K) : Place(K, k) = Place(K, m) => k = m
  <2> SUFFICES ASSUME NEW k \in 1..Cardinality(K), NEW m \in 1..Cardinality(K), Place(K, k) = Place(K, m) PROVE k = m
    OBVIOUS
  <2>1. Place(K, k) \in Nat /\ ~(k < m) /\ ~(m < k)
    BY <1>1, <1>2
  <2> QED BY <1>2, <2>1
<1> QED BY <1>2, <1>3, <1>5, <1>6

-----------------------------------------------------------------------------
(* Providers: every list that is saved, or about to be, names a provider    *)
(* once and has at most one default; and while commands come one after      *)
(* another, the one under way is the only one, and the keychain is in step  *)
(* with the file until its keychain call and with its copy from then on.    *)

OneDefaultIn(ps) == \A i, j \in DOMAIN ps : ps[i].isDefault /\ ps[j].isDefault => i = j
NamedOnce(ps) == \A i, j \in DOMAIN ps : ps[i].id = ps[j].id => i = j
GoodProviders(ps) == ps \in Seq(Pr!Providers) /\ OneDefaultIn(ps) /\ NamedOnce(ps)

ProviderRequest(r) ==
    \/ r = [pc |-> "idle"]
    \/ r.pc = "test"
    \/ /\ r = [pc |-> "key", ps |-> r.ps, put |-> r.put, del |-> r.del]
       /\ GoodProviders(r.ps)
    \/ r = [pc |-> "save", ps |-> r.ps] /\ GoodProviders(r.ps)

InStepWith(r) ==
    /\ r.pc \in {"idle", "test"} => keychain = Pr!Refs(file)
    /\ r.pc = "key" => keychain = Pr!Refs(file) /\ (keychain \cup r.put) \ r.del = Pr!Refs(r.ps)
    /\ r.pc = "save" => keychain = Pr!Refs(r.ps)

ProvidersInv ==
    /\ GoodProviders(file) /\ DOMAIN req = Clients /\ inStep \in BOOLEAN
    /\ \A t \in Clients : ProviderRequest(req[t])
    /\ inStep => /\ \A t, u \in Clients : req[t].pc # "idle" /\ req[u].pc # "idle" => t = u
                 /\ (\A t \in Clients : req[t].pc = "idle") => keychain = Pr!Refs(file)
                 /\ \A t \in Clients : req[t].pc # "idle" => InStepWith(req[t])

ChangesCopy(t) ==
    \E ps, put, del :
        /\ GoodProviders(ps) /\ (Pr!Refs(file) \cup put) \ del = Pr!Refs(ps)
        /\ req' = [req EXCEPT ![t] = [pc |-> "key", ps |-> ps, put |-> put, del |-> del]]

\* The instance's Cardinality and Kept are those the lemmas about lists speak of.
LEMMA ProvidersKept ==
    /\ \A S : Pr!Cardinality(S) = Cardinality(S)
    /\ \A ps, K : Pr!Kept(ps, K) = Kept(ps, K)
<1>1. ASSUME NEW S PROVE Pr!Cardinality(S) = Cardinality(S)
  BY DEF Pr!Cardinality, Cardinality
<1>2. ASSUME NEW K, NEW k PROVE Pr!Place(K, k) = Place(K, k)
  BY <1>1 DEF Pr!Place, Place
<1>3. ASSUME NEW ps, NEW K PROVE Pr!Kept(ps, K) = Kept(ps, K)
  BY <1>1, <1>2 DEF Pr!Kept, Kept
<1> QED BY <1>1, <1>3

\* Two lists of the same providers with the same keys refer to the same entries of the keychain.
LEMMA SameRefs ==
    ASSUME NEW ps, NEW qs, DOMAIN qs = DOMAIN ps,
           \A i \in DOMAIN ps : qs[i].id = ps[i].id /\ qs[i].keyed = ps[i].keyed
    PROVE  Pr!Refs(qs) = Pr!Refs(ps)
<1>1. \A i \in DOMAIN ps : {qs[i].id} \X qs[i].keyed = {ps[i].id} \X ps[i].keyed
  OBVIOUS
<1>2. {{qs[i].id} \X qs[i].keyed : i \in DOMAIN qs} = {{ps[i].id} \X ps[i].keyed : i \in DOMAIN ps}
  BY <1>1
<1> QED BY <1>2 DEF Pr!Refs

\* What it means to be an entry of the keychain that a list refers to.
LEMMA RefsOf ==
    ASSUME NEW ps
    PROVE  /\ \A i \in DOMAIN ps : \A a \in ps[i].keyed : <<ps[i].id, a>> \in Pr!Refs(ps)
           /\ \A r \in Pr!Refs(ps) : \E i \in DOMAIN ps : \E a \in ps[i].keyed : r = <<ps[i].id, a>>
<1>1. ASSUME NEW i \in DOMAIN ps, NEW a \in ps[i].keyed PROVE <<ps[i].id, a>> \in Pr!Refs(ps)
  BY DEF Pr!Refs
<1>2. ASSUME NEW r \in Pr!Refs(ps) PROVE \E i \in DOMAIN ps : \E a \in ps[i].keyed : r = <<ps[i].id, a>>
  <2>1. PICK i \in DOMAIN ps : r \in {ps[i].id} \X ps[i].keyed
    BY DEF Pr!Refs
  <2> QED BY <2>1
<1> QED BY <1>1, <1>2

\* A change of one provider that leaves its ID alone, and makes it the default only if it was
\* or no provider is, gives a good list.
LEMMA OneChanged ==
    ASSUME NEW ps, GoodProviders(ps), NEW i \in DOMAIN ps, NEW p \in Pr!Providers, p.id = ps[i].id,
           p.isDefault => ps[i].isDefault \/ \A j \in DOMAIN ps : ~ps[j].isDefault
    PROVE  /\ GoodProviders([ps EXCEPT ![i] = p]) /\ DOMAIN [ps EXCEPT ![i] = p] = DOMAIN ps
           /\ [ps EXCEPT ![i] = p][i] = p
           /\ \A j \in DOMAIN ps : j # i => [ps EXCEPT ![i] = p][j] = ps[j]
           /\ p.keyed = ps[i].keyed => Pr!Refs([ps EXCEPT ![i] = p]) = Pr!Refs(ps)
<1> DEFINE qs == [ps EXCEPT ![i] = p]
<1>1. ps \in Seq(Pr!Providers)
  BY DEF GoodProviders
<1>2. /\ qs \in Seq(Pr!Providers) /\ DOMAIN qs = DOMAIN ps /\ qs[i] = p
      /\ \A j \in DOMAIN ps : j # i => qs[j] = ps[j]
  BY <1>1, ExceptSeq
<1> HIDE DEF qs
<1>3. NamedOnce(qs)
  BY <1>2 DEF GoodProviders, NamedOnce
<1>4. OneDefaultIn(qs)
  BY <1>2 DEF GoodProviders, OneDefaultIn
<1>5. p.keyed = ps[i].keyed => Pr!Refs(qs) = Pr!Refs(ps)
  BY <1>2, SameRefs
<1> QED BY <1>2, <1>3, <1>4, <1>5 DEF qs, GoodProviders

\* find returns the place of a listed provider.
LEMMA Found ==
    ASSUME NEW ps, NEW id \in Pr!Listed(ps)
    PROVE  Pr!Find(ps, id) \in DOMAIN ps /\ ps[Pr!Find(ps, id)].id = id
BY DEF Pr!Listed, Pr!Find

\* add: the new provider is the only one of its ID, and the default only of an empty list.
LEMMA AddedGood ==
    ASSUME NEW ps, GoodProviders(ps), NEW id \in ProviderIds, id \notin Pr!Listed(ps)
    PROVE  GoodProviders(Pr!Added(ps, id)) /\ Pr!Refs(Pr!Added(ps, id)) = Pr!Refs(ps)
<1> DEFINE p == [id |-> id, enabled |-> TRUE, isDefault |-> ps = <<>>, lastTestOK |-> FALSE,
                 accounts |-> {}, keyed |-> {}]
           qs == Append(ps, p)
<1>1. ps \in Seq(Pr!Providers) /\ p \in Pr!Providers /\ p.id = id /\ p.keyed = {} /\ (p.isDefault <=> ps = <<>>)
  BY DEF GoodProviders, Pr!Providers
<1> HIDE DEF p
<1>2. /\ qs \in Seq(Pr!Providers) /\ DOMAIN ps = 1..Len(ps) /\ Len(ps) \in Nat
      /\ DOMAIN qs = 1..(Len(ps) + 1) /\ qs[Len(ps) + 1] = p
      /\ \A i \in 1..Len(ps) : qs[i] = ps[i]
  BY <1>1, AppendProperties
<1> HIDE DEF qs
<1>3. \A i \in 1..(Len(ps) + 1) : i = Len(ps) + 1 \/ i \in 1..Len(ps)
  BY <1>2
<1>4. \A i \in DOMAIN ps : ps[i].id # id
  BY DEF Pr!Listed
<1>5. NamedOnce(qs)
  BY <1>1, <1>2, <1>3, <1>4 DEF NamedOnce, GoodProviders
<1>6. p.isDefault => DOMAIN ps = {}
  BY <1>1, <1>2
<1>7. OneDefaultIn(qs)
  BY <1>1, <1>2, <1>3, <1>6 DEF OneDefaultIn, GoodProviders
<1>8. Pr!Refs(qs) = Pr!Refs(ps)
  <2>1. ASSUME NEW r \in Pr!Refs(qs) PROVE r \in Pr!Refs(ps)
    <3>1. PICK i \in DOMAIN qs : \E a \in qs[i].keyed : r = <<qs[i].id, a>>
      BY RefsOf
    <3>2. i \in DOMAIN ps /\ qs[i] = ps[i]
      BY <1>1, <1>2, <1>3, <3>1
    <3> QED BY <3>1, <3>2, RefsOf
  <2>2. ASSUME NEW r \in Pr!Refs(ps) PROVE r \in Pr!Refs(qs)
    <3>1. PICK i \in DOMAIN ps : \E a \in ps[i].keyed : r = <<ps[i].id, a>>
      BY RefsOf
    <3>2. i \in DOMAIN qs /\ qs[i] = ps[i]
      BY <1>2, <1>3
    <3> QED BY <3>1, <3>2, RefsOf
  <2> QED BY <2>1, <2>2
<1> QED BY <1>2, <1>5, <1>7, <1>8 DEF GoodProviders, Pr!Added, qs, p

\* Promoting a provider where there is no default leaves one.
LEMMA PromotedGood ==
    ASSUME NEW ps, GoodProviders(ps), \A i \in DOMAIN ps : ~ps[i].isDefault
    PROVE  GoodProviders(Pr!PromoteFirst(ps)) /\ Pr!Refs(Pr!PromoteFirst(ps)) = Pr!Refs(ps)
<1> DEFINE x == CHOOSE i \in DOMAIN ps : ps[i].enabled /\ \A j \in 1..(i - 1) : ~ps[j].enabled
           qs == [ps EXCEPT ![x].isDefault = TRUE]
<1>1. ps \in Seq(Pr!Providers) /\ Pr!PromoteFirst(ps) \in {ps, qs}
  BY DEF GoodProviders, Pr!PromoteFirst
<1> HIDE DEF x
<1>2. CASE x \in DOMAIN ps
  <2> DEFINE p == [ps[x] EXCEPT !.isDefault = TRUE]
  <2>1. ps[x] \in Pr!Providers
    BY <1>1, <1>2
  <2>2. p \in Pr!Providers /\ p.id = ps[x].id /\ p.keyed = ps[x].keyed
    BY <2>1 DEF Pr!Providers
  <2>3. qs = [ps EXCEPT ![x] = p]
    OBVIOUS
  <2> HIDE DEF p, qs
  <2>4. p.isDefault => ps[x].isDefault \/ \A j \in DOMAIN ps : ~ps[j].isDefault
    OBVIOUS
  <2>5. GoodProviders([ps EXCEPT ![x] = p]) /\ Pr!Refs([ps EXCEPT ![x] = p]) = Pr!Refs(ps)
    BY <1>2, <2>2, <2>4, OneChanged
  <2> QED BY <1>1, <2>3, <2>5
<1>3. CASE x \notin DOMAIN ps
  <2>1. qs = ps
    BY <1>1, <1>3
  <2> QED BY <1>1, <2>1
<1> QED BY <1>2, <1>3

\* remove: the list without the provider is good, and refers to no key of the provider.
LEMMA RemovedGood ==
    ASSUME NEW ps, GoodProviders(ps), NEW id
    PROVE  GoodProviders(Pr!Removed(ps, id)) /\ Pr!Refs(Pr!Removed(ps, id)) = Pr!Refs(ps) \ {r \in Pr!Refs(ps) : r[1] = id}
<1> DEFINE K == {i \in DOMAIN ps : ps[i].id # id}
           rest == Kept(ps, K)
<1>1. ps \in Seq(Pr!Providers) /\ K \in SUBSET (DOMAIN ps)
  BY DEF GoodProviders
<1>2. /\ rest \in Seq(Pr!Providers)
      /\ \A k \in DOMAIN rest : Place(K, k) \in K /\ rest[k] = ps[Place(K, k)]
      /\ \A k, m \in DOMAIN rest : Place(K, k) = Place(K, m) => k = m
      /\ \A i \in K : \E k \in DOMAIN rest : Place(K, k) = i
  <2> HIDE DEF K
  <2> QED BY <1>1, KeptElements
<1>3. Pr!Removed(ps, id) = IF Pr!AnyDefault(rest) THEN rest ELSE Pr!PromoteFirst(rest)
  <2>1. Pr!Kept(ps, K) = rest
    BY ProvidersKept
  <2> HIDE DEF rest
  <2> QED BY <2>1 DEF Pr!Removed
<1> HIDE DEF rest
<1>4. GoodProviders(rest)
  <2>1. ASSUME NEW k \in DOMAIN rest, NEW m \in DOMAIN rest, rest[k].id = rest[m].id PROVE k = m
    BY <1>2, <2>1 DEF GoodProviders, NamedOnce
  <2>2. ASSUME NEW k \in DOMAIN rest, NEW m \in DOMAIN rest, rest[k].isDefault, rest[m].isDefault PROVE k = m
    BY <1>2, <2>2 DEF GoodProviders, OneDefaultIn
  <2> QED BY <1>2, <2>1, <2>2 DEF GoodProviders, NamedOnce, OneDefaultIn
<1>5. Pr!Refs(rest) = Pr!Refs(ps) \ {r \in Pr!Refs(ps) : r[1] = id}
  <2>1. ASSUME NEW r \in Pr!Refs(rest) PROVE r \in Pr!Refs(ps) /\ r[1] # id
    <3>1. PICK k \in DOMAIN rest : \E a \in rest[k].keyed : r = <<rest[k].id, a>>
      BY RefsOf
    <3>2. Place(K, k) \in DOMAIN ps /\ rest[k] = ps[Place(K, k)] /\ ps[Place(K, k)].id # id
      BY <1>2
    <3> QED BY <3>1, <3>2, RefsOf
  <2>2. ASSUME NEW r \in Pr!Refs(ps), r[1] # id PROVE r \in Pr!Refs(rest)
    <3>1. PICK i \in DOMAIN ps : \E a \in ps[i].keyed : r = <<ps[i].id, a>>
      BY RefsOf
    <3>2. i \in K
      BY <2>2, <3>1
    <3>3. PICK k \in DOMAIN rest : Place(K, k) = i
      BY <1>2, <3>2
    <3>4. rest[k] = ps[i]
      BY <1>2, <3>3
    <3> QED BY <3>1, <3>3, <3>4, RefsOf
  <2> QED BY <2>1, <2>2
<1>6. CASE Pr!AnyDefault(rest)
  BY <1>3, <1>4, <1>5, <1>6
<1>7. CASE ~Pr!AnyDefault(rest)
  BY <1>3, <1>4, <1>5, <1>7, PromotedGood DEF Pr!AnyDefault
<1> QED BY <1>6, <1>7

\* setDefault: only a provider of that ID is the default.
LEMMA DefaultedGood ==
    ASSUME NEW ps, GoodProviders(ps), NEW id
    PROVE  GoodProviders(Pr!Defaulted(ps, id)) /\ Pr!Refs(Pr!Defaulted(ps, id)) = Pr!Refs(ps)
<1> DEFINE qs == Pr!Defaulted(ps, id)
<1>1. ps \in Seq(Pr!Providers) /\ DOMAIN ps = 1..Len(ps) /\ Len(ps) \in Nat
  BY DEF GoodProviders
<1>2. DOMAIN qs = DOMAIN ps
  BY DEF Pr!Defaulted
<1>3. ASSUME NEW i \in DOMAIN ps
      PROVE  /\ qs[i] \in Pr!Providers /\ qs[i].id = ps[i].id /\ qs[i].keyed = ps[i].keyed
             /\ qs[i].isDefault <=> ps[i].id = id
  <2>1. ps[i] \in Pr!Providers /\ qs[i] = [ps[i] EXCEPT !.isDefault = ps[i].id = id]
    BY <1>1 DEF Pr!Defaulted
  <2> QED BY <2>1 DEF Pr!Providers
<1>4. qs \in Seq(Pr!Providers)
  <2>1. qs \in [1..Len(ps) -> Pr!Providers]
    BY <1>1, <1>2, <1>3 DEF Pr!Defaulted
  <2> HIDE DEF qs
  <2> QED BY <1>1, <2>1, IsASeq
<1> HIDE DEF qs
<1>5. NamedOnce(qs) /\ OneDefaultIn(qs)
  BY <1>2, <1>3 DEF GoodProviders, NamedOnce, OneDefaultIn
<1>6. Pr!Refs(qs) = Pr!Refs(ps)
  BY <1>2, <1>3, SameRefs
<1> QED BY <1>4, <1>5, <1>6 DEF GoodProviders, qs

\* setEnabled: where the default is disabled it is moved.
LEMMA EnabledGood ==
    ASSUME NEW ps, GoodProviders(ps), NEW id, NEW on \in BOOLEAN
    PROVE  GoodProviders(Pr!Enabled(ps, id, on)) /\ Pr!Refs(Pr!Enabled(ps, id, on)) = Pr!Refs(ps)
<1>1. CASE id \notin Pr!Listed(ps)
  BY <1>1 DEF Pr!Enabled
<1>2. CASE id \in Pr!Listed(ps)
  <2> DEFINE x == Pr!Find(ps, id)
             p == [ps[x] EXCEPT !.enabled = on]
             qs == [ps EXCEPT ![x].enabled = on]
             o == [qs[x] EXCEPT !.isDefault = FALSE]
             rs == [qs EXCEPT ![x].isDefault = FALSE]
  <2>1. x \in DOMAIN ps
    BY <1>2, Found
  <2>2. Pr!Enabled(ps, id, on) = IF ~on /\ ps[x].isDefault THEN Pr!PromoteFirst(rs) ELSE qs
    BY <1>2 DEF Pr!Enabled
  <2> HIDE DEF x
  <2>3. ps[x] \in Pr!Providers
    BY <2>1 DEF GoodProviders
  <2>4. p \in Pr!Providers /\ p.id = ps[x].id /\ p.keyed = ps[x].keyed /\ p.isDefault = ps[x].isDefault
    BY <2>3 DEF Pr!Providers
  <2>5. qs = [ps EXCEPT ![x] = p]
    OBVIOUS
  <2>6. /\ GoodProviders(qs) /\ DOMAIN qs = DOMAIN ps /\ qs[x] = p /\ Pr!Refs(qs) = Pr!Refs(ps)
        /\ \A j \in DOMAIN ps : j # x => qs[j] = ps[j]
    <3> HIDE DEF p, qs
    <3>1. p.isDefault => ps[x].isDefault \/ \A j \in DOMAIN ps : ~ps[j].isDefault
      BY <2>4
    <3> QED BY <2>1, <2>4, <2>5, <3>1, OneChanged
  <2> HIDE DEF p, qs
  <2>7. o \in Pr!Providers /\ o.id = qs[x].id /\ o.keyed = qs[x].keyed /\ ~o.isDefault
    BY <2>4, <2>6 DEF Pr!Providers
  <2>8. rs = [qs EXCEPT ![x] = o]
    OBVIOUS
  <2>9. /\ GoodProviders(rs) /\ DOMAIN rs = DOMAIN ps /\ rs[x] = o /\ Pr!Refs(rs) = Pr!Refs(ps)
        /\ \A j \in DOMAIN ps : j # x => rs[j] = ps[j]
    <3> HIDE DEF o, rs
    <3>1. o.isDefault => qs[x].isDefault \/ \A j \in DOMAIN qs : ~qs[j].isDefault
      BY <2>7
    <3>2. x \in DOMAIN qs
      BY <2>1, <2>6
    <3>3. /\ GoodProviders(rs) /\ DOMAIN rs = DOMAIN qs /\ rs[x] = o /\ Pr!Refs(rs) = Pr!Refs(qs)
          /\ \A j \in DOMAIN qs : j # x => rs[j] = qs[j]
      BY <2>6, <2>7, <2>8, <3>1, <3>2, OneChanged
    <3> QED BY <2>6, <3>3
  <2> HIDE DEF o, rs
  <2>10. CASE ~on /\ ps[x].isDefault
    <3>1. \A j \in DOMAIN rs : ~rs[j].isDefault
      BY <2>1, <2>7, <2>9, <2>10 DEF GoodProviders, OneDefaultIn
    <3> QED BY <2>2, <2>9, <2>10, <3>1, PromotedGood
  <2> QED BY <2>2, <2>6, <2>10
<1> QED BY <1>1, <1>2

\* addAccount, updateAccount and removeAccount: the keys of one provider change.
LEMMA AccountGood ==
    ASSUME NEW ps, GoodProviders(ps), NEW x \in DOMAIN ps, NEW id, ps[x].id = id,
           NEW p \in Pr!Providers, p.id = id, p.isDefault = ps[x].isDefault, NEW B, p.keyed = B
    PROVE  /\ GoodProviders([ps EXCEPT ![x] = p])
           /\ \A r : r \in Pr!Refs([ps EXCEPT ![x] = p]) <=> (r \in Pr!Refs(ps) /\ r[1] # id) \/ r \in {id} \X B
<1> DEFINE qs == [ps EXCEPT ![x] = p]
<1>1. x \in DOMAIN ps /\ ps[x].id = id
  OBVIOUS
<1>3. p.id = id /\ p.keyed = B /\ p.isDefault = ps[x].isDefault
  OBVIOUS
<1>5. /\ GoodProviders(qs) /\ DOMAIN qs = DOMAIN ps /\ qs[x] = p
      /\ \A j \in DOMAIN ps : j # x => qs[j] = ps[j]
  <2>1. p.isDefault => ps[x].isDefault \/ \A j \in DOMAIN ps : ~ps[j].isDefault
    BY <1>3
  <2> QED BY <1>1, <1>3, <2>1, OneChanged
<1> HIDE DEF qs
<1>6. \A j \in DOMAIN ps : j # x => ps[j].id # id
  BY <1>1 DEF GoodProviders, NamedOnce
<1>7. ASSUME NEW r \in Pr!Refs(qs) PROVE (r \in Pr!Refs(ps) /\ r[1] # id) \/ r \in {id} \X B
  <2>1. PICK j \in DOMAIN qs : \E a \in qs[j].keyed : r = <<qs[j].id, a>>
    BY RefsOf
  <2>2. CASE j = x
    BY <1>3, <1>5, <2>1, <2>2
  <2>3. CASE j # x
    <3>1. qs[j] = ps[j] /\ j \in DOMAIN ps /\ ps[j].id # id
      BY <1>5, <1>6, <2>1, <2>3
    <3> QED BY <2>1, <3>1, RefsOf
  <2> QED BY <2>2, <2>3
<1>8. ASSUME NEW r \in Pr!Refs(ps), r[1] # id PROVE r \in Pr!Refs(qs)
  <2>1. PICK j \in DOMAIN ps : \E a \in ps[j].keyed : r = <<ps[j].id, a>>
    BY RefsOf
  <2>2. j # x /\ qs[j] = ps[j] /\ j \in DOMAIN qs
    BY <1>1, <1>5, <1>8, <2>1
  <2> QED BY <2>1, <2>2, RefsOf
<1>9. ASSUME NEW r \in {id} \X B PROVE r \in Pr!Refs(qs)
  <2>1. PICK a \in B : r = <<id, a>>
    OBVIOUS
  <2>2. x \in DOMAIN qs /\ a \in qs[x].keyed /\ r = <<qs[x].id, a>>
    BY <1>1, <1>3, <1>5, <2>1
  <2> QED BY <2>2, RefsOf
<1> QED BY <1>5, <1>7, <1>8, <1>9 DEF qs

\* A provider with other accounts and keys is a provider.
LEMMA Reaccounted ==
    ASSUME NEW p \in Pr!Providers, NEW A \in SUBSET AccountIds, NEW B \in SUBSET AccountIds
    PROVE  LET q == [[p EXCEPT !.accounts = A] EXCEPT !.keyed = B]
           IN  q \in Pr!Providers /\ q.id = p.id /\ q.isDefault = p.isDefault /\ q.keyed = B
<1> DEFINE o == [p EXCEPT !.accounts = A]
<1>1. o \in Pr!Providers /\ o.id = p.id /\ o.isDefault = p.isDefault
  BY DEF Pr!Providers
<1> HIDE DEF o
<1>2. [o EXCEPT !.keyed = B] \in Pr!Providers /\ [o EXCEPT !.keyed = B].id = p.id
      /\ [o EXCEPT !.keyed = B].isDefault = p.isDefault /\ [o EXCEPT !.keyed = B].keyed = B
  BY <1>1 DEF Pr!Providers
<1> QED BY <1>2 DEF o

\* A command's load and change of its copy: the copy is good, and if no other command is under
\* way its keychain calls bring the keychain from the file's keys to the copy's.
LEMMA GoesGood ==
    ASSUME ProvidersInv, NEW t \in Clients, req[t].pc \in {"idle", "test"},
           file' = file, keychain' = keychain, inStep' \in BOOLEAN, inStep' => inStep,
           inStep' => \A u \in Clients : u # t => req[u].pc = "idle",
           ChangesCopy(t)
    PROVE  ProvidersInv'
<1> PICK ps, put, del :
              /\ GoodProviders(ps) /\ (Pr!Refs(file) \cup put) \ del = Pr!Refs(ps)
              /\ req' = [req EXCEPT ![t] = [pc |-> "key", ps |-> ps, put |-> put, del |-> del]]
  BY DEF ChangesCopy
<1> DEFINE r == [pc |-> "key", ps |-> ps, put |-> put, del |-> del]
<1>1. /\ DOMAIN req' = Clients /\ req'[t] = r /\ \A u \in Clients : u # t => req'[u] = req[u]
      /\ file' = file /\ keychain' = keychain
  BY DEF ProvidersInv
<1>2. r.pc = "key" /\ r.ps = ps /\ r.put = put /\ r.del = del /\ ProviderRequest(r)
  BY DEF ProviderRequest
<1> HIDE DEF r
<1>3. GoodProviders(file)' /\ (inStep \in BOOLEAN)' /\ \A u \in Clients : ProviderRequest(req'[u])
  <2>1. GoodProviders(file) /\ \A u \in Clients : ProviderRequest(req[u])
    BY DEF ProvidersInv
  <2>2. GoodProviders(file')
    BY <1>1, <2>1
  <2> QED BY <1>1, <1>2, <2>1, <2>2
<1>4. ASSUME inStep' PROVE keychain = Pr!Refs(file) /\ InStepWith(r)'
  <2>1. keychain = Pr!Refs(file)
    <3>1. CASE req[t].pc = "idle"
      BY <1>4, <3>1 DEF ProvidersInv
    <3>2. CASE req[t].pc = "test"
      BY <1>4, <3>2 DEF ProvidersInv, InStepWith
    <3> QED BY <3>1, <3>2
  <2>2. (keychain \cup put) \ del = Pr!Refs(ps)
    BY <1>4, <2>1
  <2>3. Pr!Refs(file') = Pr!Refs(file)
    BY <1>1
  <2> QED BY <1>1, <1>2, <2>1, <2>2, <2>3 DEF InStepWith
<1>5. ASSUME inStep' PROVE /\ \A u, v \in Clients : req'[u].pc # "idle" /\ req'[v].pc # "idle" => u = v
                           /\ ~\A u \in Clients : req'[u].pc = "idle"
                           /\ \A u \in Clients : req'[u].pc # "idle" => u = t
  BY <1>1, <1>2, <1>5
<1>6. ASSUME inStep' PROVE \A u \in Clients : req'[u].pc # "idle" => InStepWith(req[u])'
  <2>1. InStepWith(r)'
    BY <1>4, <1>6
  <2>2. InStepWith(req[t])'
    BY <1>1, <2>1 DEF InStepWith
  <2> QED BY <1>5, <1>6, <2>2
<1> QED BY <1>1, <1>3, <1>4, <1>5, <1>6 DEF ProvidersInv

\* Every step of the provider registry keeps the invariant.
LEMMA ProvidersStep == ProvidersInv /\ [Pr!Next]_Pr!vars => ProvidersInv'
<1> SUFFICES ASSUME ProvidersInv, [Pr!Next]_Pr!vars PROVE ProvidersInv'
  OBVIOUS
<1> USE DEF Pr!Idle
<1>0. /\ GoodProviders(file) /\ DOMAIN req = Clients /\ inStep \in BOOLEAN
      /\ \A t \in Clients : ProviderRequest(req[t])
  BY DEF ProvidersInv
<1>1. CASE Pr!Crash
  <2>1. GoodProviders(<<>>)
    BY DEF GoodProviders, NamedOnce, OneDefaultIn
  <2>2. GoodProviders(file')
    BY <1>0, <1>1, <2>1 DEF Pr!Crash
  <2>3. inStep' = FALSE /\ DOMAIN req' = Clients /\ \A t \in Clients : req'[t] = [pc |-> "idle"]
    BY <1>1 DEF Pr!Crash
  <2> QED BY <2>2, <2>3 DEF ProvidersInv, ProviderRequest
<1>2. ASSUME NEW t \in Clients, Pr!ProviderCommand(t) PROVE ProvidersInv'
  <2>1. /\ req[t].pc \in {"idle", "test"} /\ file' = file /\ keychain' = keychain /\ inStep' \in BOOLEAN /\ (inStep' => inStep)
        /\ inStep' => \A u \in Clients : u # t => req[u].pc = "idle"
    BY <1>0, <1>2 DEF Pr!ProviderCommand, Pr!Begin
  <2>2. PICK id \in ProviderIds :
          \/ id \notin Pr!Listed(file) /\ Pr!Goes(t, Pr!Added(file, id), {}, {})
          \/ Pr!Goes(t, file, {}, {})
          \/ Pr!Goes(t, Pr!Removed(file, id), {}, {r \in Pr!Refs(file) : r[1] = id})
          \/ Pr!Goes(t, Pr!Defaulted(file, id), {}, {})
          \/ \E on \in BOOLEAN : Pr!Goes(t, Pr!Enabled(file, id, on), {}, {})
    BY <1>2 DEF Pr!ProviderCommand
  <2>3. (Pr!Refs(file) \cup {}) \ {} = Pr!Refs(file)
    OBVIOUS
  <2>4. CASE id \notin Pr!Listed(file) /\ Pr!Goes(t, Pr!Added(file, id), {}, {})
    <3>1. ChangesCopy(t)
      BY <1>0, <2>3, <2>4, AddedGood DEF ChangesCopy, Pr!Goes
    <3> QED BY <2>1, <3>1, GoesGood
  <2>5. CASE Pr!Goes(t, file, {}, {})
    <3>1. ChangesCopy(t)
      BY <1>0, <2>3, <2>5 DEF ChangesCopy, Pr!Goes
    <3> QED BY <2>1, <3>1, GoesGood
  <2>6. CASE Pr!Goes(t, Pr!Removed(file, id), {}, {r \in Pr!Refs(file) : r[1] = id})
    <3> DEFINE del == {r \in Pr!Refs(file) : r[1] = id}
    <3>1. GoodProviders(Pr!Removed(file, id)) /\ Pr!Refs(Pr!Removed(file, id)) = Pr!Refs(file) \ del
      BY <1>0, RemovedGood
    <3>2. (Pr!Refs(file) \cup {}) \ del = Pr!Refs(file) \ del
      OBVIOUS
    <3>3. Pr!Goes(t, Pr!Removed(file, id), {}, del)
      BY <2>6
    <3> HIDE DEF del
    <3>4. ChangesCopy(t)
      BY <3>1, <3>2, <3>3 DEF ChangesCopy, Pr!Goes
    <3> QED BY <2>1, <3>4, GoesGood
  <2>7. CASE Pr!Goes(t, Pr!Defaulted(file, id), {}, {})
    <3>1. ChangesCopy(t)
      BY <1>0, <2>3, <2>7, DefaultedGood DEF ChangesCopy, Pr!Goes
    <3> QED BY <2>1, <3>1, GoesGood
  <2>8. ASSUME NEW on \in BOOLEAN, Pr!Goes(t, Pr!Enabled(file, id, on), {}, {}) PROVE ProvidersInv'
    <3>1. ChangesCopy(t)
      BY <1>0, <2>3, <2>8, EnabledGood DEF ChangesCopy, Pr!Goes
    <3> QED BY <2>1, <3>1, GoesGood
  <2> QED BY <2>2, <2>4, <2>5, <2>6, <2>7, <2>8
<1>3. ASSUME NEW t \in Clients, Pr!AccountCommand(t) PROVE ProvidersInv'
  <2>1. /\ req[t].pc \in {"idle", "test"} /\ file' = file /\ keychain' = keychain /\ inStep' \in BOOLEAN /\ (inStep' => inStep)
        /\ inStep' => \A u \in Clients : u # t => req[u].pc = "idle"
    BY <1>0, <1>3 DEF Pr!AccountCommand, Pr!Begin
  <2>2. PICK i \in DOMAIN file, a \in AccountIds :
          \/ \E key \in BOOLEAN : Pr!Goes(t, Pr!WithAccount(file, file[i].id, a, key), IF key THEN {<<file[i].id, a>>} ELSE {}, {})
          \/ Pr!Goes(t, Pr!WithoutAccount(file, file[i].id, a), {}, Pr!Purged(file[i].id, a))
    BY <1>3 DEF Pr!AccountCommand
  <2> DEFINE id == file[i].id
             x  == Pr!Find(file, id)
             K  == file[x].keyed
  <2>3. id \in Pr!Listed(file)
    BY <2>2 DEF Pr!Listed
  <2>4. x \in DOMAIN file /\ file[x].id = id
    BY <2>3, Found
  <2> HIDE DEF id
  <2>5. file[x].accounts \in SUBSET AccountIds /\ K \in SUBSET AccountIds /\ file \in Seq(Pr!Providers) /\ file[x] \in Pr!Providers
    <3>1. file \in Seq(Pr!Providers) /\ file[x] \in Pr!Providers
      BY <1>0, <2>4 DEF GoodProviders
    <3> QED BY <3>1 DEF Pr!Providers
  <2>6. \A q : q \in Pr!Refs(file) /\ q[1] = id <=> q \in {id} \X K
    <3>1. ASSUME NEW q \in Pr!Refs(file), q[1] = id PROVE q \in {id} \X K
      <4>1. PICK j \in DOMAIN file : \E b \in file[j].keyed : q = <<file[j].id, b>>
        BY RefsOf
      <4>2. j = x
        BY <1>0, <2>4, <3>1, <4>1 DEF GoodProviders, NamedOnce
      <4> QED BY <2>4, <4>1, <4>2
    <3>2. ASSUME NEW q \in {id} \X K PROVE q \in Pr!Refs(file) /\ q[1] = id
      <4>1. PICK b \in K : q = <<id, b>>
        OBVIOUS
      <4> QED BY <2>4, <4>1, RefsOf
    <3> QED BY <3>1, <3>2
  <2> HIDE DEF x
  <2>7. ASSUME NEW key \in BOOLEAN, Pr!Goes(t, Pr!WithAccount(file, id, a, key), IF key THEN {<<id, a>>} ELSE {}, {})
        PROVE  ProvidersInv'
    <3> DEFINE A   == file[x].accounts \cup {a}
               B   == IF key THEN K \cup {a} ELSE K
               p   == [[file[x] EXCEPT !.accounts = A] EXCEPT !.keyed = B]
               qs  == [file EXCEPT ![x] = p]
               put == IF key THEN {<<id, a>>} ELSE {}
    <3>1. A \in SUBSET AccountIds /\ B \in SUBSET AccountIds
      BY <2>5
    <3>2. Pr!WithAccount(file, id, a, key) = qs
      BY <2>4, <2>5 DEF Pr!WithAccount, x, Pr!Providers
    <3>3. GoodProviders(qs) /\ \A r : r \in Pr!Refs(qs) <=> (r \in Pr!Refs(file) /\ r[1] # id) \/ r \in {id} \X B
      <4> HIDE DEF A, B
      <4>1. p \in Pr!Providers /\ p.id = file[x].id /\ p.isDefault = file[x].isDefault /\ p.keyed = B
        BY <2>5, <3>1, Reaccounted
      <4> HIDE DEF p
      <4> QED BY <1>0, <2>4, <4>1, AccountGood
    <3>4. (Pr!Refs(file) \cup put) \ {} = Pr!Refs(qs)
      <4> HIDE DEF qs
      <4>1. CASE key
        <5>1. {id} \X B = ({id} \X K) \cup {<<id, a>>}
          BY <4>1
        <5> QED BY <2>6, <3>3, <4>1, <5>1
      <4>2. CASE ~key
        <5>1. {id} \X B = {id} \X K
          BY <4>2
        <5> QED BY <2>6, <3>3, <4>2, <5>1
      <4> QED BY <4>1, <4>2
    <3>5. Pr!Goes(t, qs, put, {})
      BY <2>7, <3>2
    <3> HIDE DEF qs, put
    <3>6. ChangesCopy(t)
      BY <3>3, <3>4, <3>5 DEF ChangesCopy, Pr!Goes
    <3> QED BY <2>1, <3>6, GoesGood
  <2>8. ASSUME Pr!Goes(t, Pr!WithoutAccount(file, id, a), {}, Pr!Purged(id, a)) PROVE ProvidersInv'
    <3> DEFINE A   == file[x].accounts \ {a}
               B   == K \ {a}
               p   == [[file[x] EXCEPT !.accounts = A] EXCEPT !.keyed = B]
               qs  == [file EXCEPT ![x] = p]
               del == Pr!Purged(id, a)
    <3>1. A \in SUBSET AccountIds /\ B \in SUBSET AccountIds
      BY <2>5
    <3>2. Pr!WithoutAccount(file, id, a) = qs
      BY <2>4, <2>5 DEF Pr!WithoutAccount, x, Pr!Providers
    <3>3. GoodProviders(qs) /\ \A r : r \in Pr!Refs(qs) <=> (r \in Pr!Refs(file) /\ r[1] # id) \/ r \in {id} \X B
      <4> HIDE DEF A, B
      <4>1. p \in Pr!Providers /\ p.id = file[x].id /\ p.isDefault = file[x].isDefault /\ p.keyed = B
        BY <2>5, <3>1, Reaccounted
      <4> HIDE DEF p
      <4> QED BY <1>0, <2>4, <4>1, AccountGood
    <3>4. (Pr!Refs(file) \cup {}) \ del = Pr!Refs(qs)
      <4> HIDE DEF qs
      <4>1. {id} \X B = ({id} \X K) \ {<<id, a>>}
        OBVIOUS
      <4>2. ASSUME NEW q PROVE q \in (Pr!Refs(file) \cup {}) \ del <=> q \in Pr!Refs(file) /\ q # <<id, a>>
        BY DEF Pr!Purged
      <4> HIDE DEF del, B
      <4>3. ASSUME NEW q PROVE q \in Pr!Refs(qs) <=> (q \in Pr!Refs(file) /\ q[1] # id) \/ (q \in ({id} \X K) /\ q # <<id, a>>)
        BY <3>3, <4>1
      <4>4. ASSUME NEW q PROVE q \in Pr!Refs(qs) <=> q \in Pr!Refs(file) /\ q # <<id, a>>
        BY <2>6, <4>3
      <4> QED BY <4>2, <4>4
    <3>5. Pr!Goes(t, qs, {}, del)
      BY <2>8, <3>2
    <3> HIDE DEF qs, del
    <3>6. ChangesCopy(t)
      BY <3>3, <3>4, <3>5 DEF ChangesCopy, Pr!Goes
    <3> QED BY <2>1, <3>6, GoesGood
  <2> QED BY <2>2, <2>7, <2>8 DEF id
<1>4. ASSUME NEW t \in Clients, Pr!TestBegin(t) PROVE ProvidersInv'
  <2>1. /\ req[t].pc = "idle" /\ file' = file /\ keychain' = keychain /\ inStep' \in BOOLEAN /\ (inStep' => inStep)
        /\ inStep' => \A u \in Clients : req[u].pc = "idle"
    BY <1>0, <1>4 DEF Pr!TestBegin, Pr!Begin
  <2>2. DOMAIN req' = Clients /\ req'[t].pc = "test" /\ \A u \in Clients : u # t => req'[u] = req[u]
    BY <1>0, <1>4 DEF Pr!TestBegin
  <2>3. GoodProviders(file') /\ \A u \in Clients : ProviderRequest(req'[u])
    BY <1>0, <2>1, <2>2 DEF ProviderRequest
  <2>4. ASSUME inStep' PROVE /\ \A u \in Clients : req'[u].pc # "idle" => u = t
                             /\ keychain' = Pr!Refs(file)'
    <3>1. keychain = Pr!Refs(file)
      BY <2>1, <2>4 DEF ProvidersInv
    <3> QED BY <2>1, <2>2, <2>4, <3>1
  <2>5. ASSUME inStep' PROVE InStepWith(req[t])'
    BY <2>2, <2>4, <2>5 DEF InStepWith
  <2> QED BY <2>1, <2>2, <2>3, <2>4, <2>5 DEF ProvidersInv
<1>5. ASSUME NEW t \in Clients, Pr!TestRecord(t) PROVE ProvidersInv'
  <2>1. /\ req[t].pc = "test" /\ file' = file /\ keychain' = keychain /\ inStep' = inStep
        /\ inStep => \A u \in Clients : u # t => req[u].pc = "idle"
    BY <1>5 DEF Pr!TestRecord, ProvidersInv
  <2> DEFINE id == req[t].id
             x  == Pr!Find(file, id)
  <2>2. ASSUME id \in Pr!Listed(file), NEW ok \in BOOLEAN, Pr!Goes(t, [file EXCEPT ![x].lastTestOK = ok], {}, {})
        PROVE  ProvidersInv'
    <3> DEFINE p  == [file[x] EXCEPT !.lastTestOK = ok]
               qs == [file EXCEPT ![x].lastTestOK = ok]
    <3>1. x \in DOMAIN file
      BY <2>2, Found
    <3> HIDE DEF x
    <3>2. file[x] \in Pr!Providers
      BY <1>0, <3>1 DEF GoodProviders
    <3>3. p \in Pr!Providers /\ p.id = file[x].id /\ p.keyed = file[x].keyed /\ p.isDefault = file[x].isDefault
      BY <3>2 DEF Pr!Providers
    <3>4. qs = [file EXCEPT ![x] = p]
      OBVIOUS
    <3>5. Pr!Goes(t, qs, {}, {})
      BY <2>2
    <3> HIDE DEF p, qs
    <3>6. GoodProviders(qs) /\ Pr!Refs(qs) = Pr!Refs(file)
      <4>1. p.isDefault => file[x].isDefault \/ \A j \in DOMAIN file : ~file[j].isDefault
        BY <3>3
      <4> QED BY <1>0, <3>1, <3>3, <3>4, <4>1, OneChanged
    <3>7. (Pr!Refs(file) \cup {}) \ {} = Pr!Refs(qs)
      BY <3>6
    <3>8. inStep' \in BOOLEAN /\ (inStep' => inStep)
      BY <1>0, <2>1
    <3>9. ChangesCopy(t)
      BY <3>5, <3>6, <3>7 DEF ChangesCopy, Pr!Goes
    <3> QED BY <2>1, <3>8, <3>9, GoesGood
  <2>3. ASSUME req' = [req EXCEPT ![t] = [pc |-> "idle"]] PROVE ProvidersInv'
    <3>1. DOMAIN req' = Clients /\ req'[t] = [pc |-> "idle"] /\ \A u \in Clients : u # t => req'[u] = req[u]
      BY <1>0, <2>3
    <3>2. GoodProviders(file') /\ \A u \in Clients : ProviderRequest(req'[u])
      BY <1>0, <2>1, <3>1 DEF ProviderRequest
    <3>3. inStep => keychain = Pr!Refs(file)
      BY <2>1 DEF ProvidersInv, InStepWith
    <3>4. keychain' = keychain /\ Pr!Refs(file)' = Pr!Refs(file)
      BY <2>1
    <3>5. inStep' => \A u \in Clients : req'[u].pc = "idle"
      BY <2>1, <3>1
    <3> QED BY <1>0, <2>1, <3>1, <3>2, <3>3, <3>4, <3>5 DEF ProvidersInv
  <2> QED BY <1>5, <2>2, <2>3 DEF Pr!TestRecord, Pr!Answers
<1>6. ASSUME NEW t \in Clients, Pr!Keychain(t) PROVE ProvidersInv'
  <2> DEFINE r == [pc |-> "save", ps |-> req[t].ps]
  <2>1. /\ req[t].pc = "key" /\ file' = file /\ inStep' = inStep /\ keychain' = (keychain \cup req[t].put) \ req[t].del
        /\ DOMAIN req' = Clients /\ req'[t] = r /\ \A u \in Clients : u # t => req'[u] = req[u]
    BY <1>0, <1>6 DEF Pr!Keychain
  <2>2. GoodProviders(req[t].ps)
    BY <1>0, <2>1 DEF ProviderRequest
  <2>3. r.pc = "save" /\ r.ps = req[t].ps /\ ProviderRequest(r)
    BY <2>2 DEF ProviderRequest
  <2> HIDE DEF r
  <2>4. GoodProviders(file') /\ \A u \in Clients : ProviderRequest(req'[u])
    BY <1>0, <2>1, <2>3
  <2>5. inStep => \A u \in Clients : req'[u].pc # "idle" => u = t
    BY <2>1 DEF ProvidersInv
  <2>6. inStep => keychain' = Pr!Refs(req[t].ps)
    BY <2>1 DEF ProvidersInv, InStepWith
  <2>7. inStep => InStepWith(req[t])'
    BY <2>1, <2>3, <2>6 DEF InStepWith
  <2> QED BY <1>0, <2>1, <2>3, <2>4, <2>5, <2>7 DEF ProvidersInv
<1>7. ASSUME NEW t \in Clients, Pr!KeychainFails(t) \/ Pr!Save(t) \/ Pr!SaveFails(t) PROVE ProvidersInv'
  <2>1. /\ DOMAIN req' = Clients /\ req'[t] = [pc |-> "idle"] /\ \A u \in Clients : u # t => req'[u] = req[u]
        /\ keychain' = keychain /\ inStep' \in BOOLEAN /\ (inStep' => inStep)
    <3>1. CASE Pr!KeychainFails(t)
      BY <1>0, <3>1 DEF Pr!KeychainFails
    <3>2. CASE Pr!Save(t)
      BY <1>0, <3>2 DEF Pr!Save
    <3>3. CASE Pr!SaveFails(t)
      BY <1>0, <3>3 DEF Pr!SaveFails
    <3> QED BY <1>7, <3>1, <3>2, <3>3
  <2>2. GoodProviders(file')
    BY <1>0, <1>7 DEF Pr!KeychainFails, Pr!Save, Pr!SaveFails, ProviderRequest
  <2>3. \A u \in Clients : ProviderRequest(req'[u])
    BY <1>0, <2>1 DEF ProviderRequest
  <2>4. ASSUME inStep' PROVE \A u \in Clients : req'[u].pc = "idle"
    <3>1. req[t].pc # "idle" /\ inStep
      BY <1>7, <2>1, <2>4 DEF Pr!KeychainFails, Pr!Save, Pr!SaveFails
    <3>2. \A u \in Clients : u # t => req[u].pc = "idle"
      BY <3>1 DEF ProvidersInv
    <3> QED BY <2>1, <3>2
  <2>5. ASSUME inStep' PROVE keychain' = Pr!Refs(file')
    <3>1. CASE Pr!KeychainFails(t)
      BY <2>1, <2>5, <3>1 DEF Pr!KeychainFails, ProvidersInv, InStepWith
    <3>2. CASE Pr!Save(t)
      BY <2>1, <2>5, <3>2 DEF Pr!Save, ProvidersInv, InStepWith
    <3>3. CASE Pr!SaveFails(t)
      BY <2>5, <3>3 DEF Pr!SaveFails
    <3> QED BY <1>7, <3>1, <3>2, <3>3
  <2>6. keychain' = Pr!Refs(file') <=> (keychain = Pr!Refs(file))'
    BY DEF Pr!Refs
  <2> QED BY <2>1, <2>2, <2>3, <2>4, <2>5, <2>6 DEF ProvidersInv
<1>8. CASE UNCHANGED Pr!vars
  <2>1. file' = file /\ keychain' = keychain /\ req' = req /\ inStep' = inStep
    BY <1>8 DEF Pr!vars
  <2>2. Pr!Refs(file') = Pr!Refs(file)
    BY <2>1
  <2>3. \A t \in Clients : InStepWith(req[t])' <=> InStepWith(req[t])
    BY <2>1, <2>2 DEF InStepWith
  <2> QED BY <2>1, <2>2, <2>3 DEF ProvidersInv
<1> QED BY <1>1, <1>2, <1>3, <1>4, <1>5, <1>6, <1>7, <1>8 DEF Pr!Next

\* What the invariant says of the file and of the keychain.
LEMMA ProvidersInvSound == ProvidersInv => Pr!ProvidersSound
<1> SUFFICES ASSUME ProvidersInv PROVE Pr!ProvidersSound
  OBVIOUS
<1> DEFINE D == {i \in DOMAIN file : file[i].isDefault}
<1>1. Cardinality(D) <= 1
  <2>1. CASE D = {}
    BY <2>1, FS_EmptySet
  <2>2. CASE D # {}
    <3>1. PICK i \in D : TRUE
      BY <2>2
    <3>2. D = {i}
      BY <3>1 DEF ProvidersInv, GoodProviders, OneDefaultIn
    <3> HIDE DEF D
    <3>3. Cardinality({i}) = 1
      BY FS_Singleton
    <3> QED BY <3>2, <3>3
  <2> QED BY <2>1, <2>2
<1>2. Pr!OneDefault
  <2>1. Pr!Cardinality(D) = Cardinality(D)
    BY ProvidersKept
  <2> QED BY <1>1, <2>1 DEF Pr!OneDefault
<1>3. Pr!KeysInStep
  BY DEF Pr!KeysInStep, ProvidersInv
<1> QED BY <1>2, <1>3 DEF Pr!ProvidersSound

\* However commands overlap, fail or are cut off, at most one provider is the default, and as long
\* as they came one after another the keychain holds exactly the keys the registry refers to, for
\* every number of requests, providers and accounts (providerstore.go).
THEOREM ProvidersAreSound == Spec => []ProvidersSound
<1>1. Pr!Init => ProvidersInv
  <2> SUFFICES ASSUME Pr!Init PROVE ProvidersInv
    OBVIOUS
  <2>1. /\ file = <<>> /\ keychain = {} /\ inStep = TRUE
        /\ DOMAIN req = Clients /\ \A t \in Clients : req[t] = [pc |-> "idle"]
    BY DEF Pr!Init, Pr!Idle
  <2>2. GoodProviders(<<>>) /\ Pr!Refs(<<>>) = {}
    BY DEF GoodProviders, NamedOnce, OneDefaultIn, Pr!Refs
  <2> QED BY <2>1, <2>2 DEF ProvidersInv, ProviderRequest
<1> QED BY <1>1, ProvidersStep, ProvidersInvSound, ProvidersRun, PTL DEF Spec, ProvidersSound

-----------------------------------------------------------------------------
(* Registries: every list that is saved, or about to be, names a repository *)
(* or a rule once; unless nextID or setCurrent misled it, a list of          *)
(* workspaces names each once and has one current; and while projects are   *)
(* created one after another, the one being created is new to the list.     *)

RegistryEntries == [id : Numbers \cup Nat, on : BOOLEAN]
IdsOnce(es) == \A i, j \in DOMAIN es : es[i].id = es[j].id => i = j
OneOn(es) == DOMAIN es # {} => \E i \in DOMAIN es : es[i].on /\ \A j \in DOMAIN es : es[j].on => j = i

RegistryList(s, es, m) ==
    /\ es \in Seq(RegistryEntries)
    /\ s # "workspaces" => IdsOnce(es)
    /\ s = "workspaces" /\ ~m => IdsOnce(es) /\ OneOn(es)

RegistryRequest(r) ==
    \/ r = [pc |-> "idle"]
    \/ /\ r \in [pc : {"save"}, store : Re!Stores, es : Seq(RegistryEntries)]
       /\ RegistryList(r.store, r.es, misled)
    \/ /\ r \in [pc : {"scaffold", "register"}, slug : Numbers, port : PortNumbers]
       /\ r.pc = "register" => r.slug \in dirs

ProjectList(ps) ==
    /\ ps \in Seq([slug : Numbers, port : PortNumbers])
    /\ \A i \in DOMAIN ps : ps[i].slug \in dirs
    /\ ~overlapped => \A i, j \in DOMAIN ps : ps[i].slug = ps[j].slug \/ ps[i].port = ps[j].port => i = j

NewProject(r) == \A i \in DOMAIN projects : projects[i].slug # r.slug /\ projects[i].port # r.port

CreatedApart ==
    \A t \in Clients : req[t].pc \in {"scaffold", "register"} =>
        /\ NewProject(req[t])
        /\ \A u \in Clients : req[u].pc \in {"scaffold", "register"} => u = t

RegistriesInv ==
    /\ DOMAIN file = Re!Stores /\ \A s \in Re!Stores : RegistryList(s, file[s], misled)
    /\ DOMAIN req = Clients /\ \A t \in Clients : RegistryRequest(req[t])
    /\ misled \in BOOLEAN /\ overlapped \in BOOLEAN
    /\ ProjectList(projects) /\ ProjectList(cache)
    /\ ~overlapped => CreatedApart

\* The instance's Cardinality and Kept are those the lemmas about lists speak of.
LEMMA RegistriesKept ==
    /\ \A S : Re!Cardinality(S) = Cardinality(S)
    /\ \A es, K : Re!Kept(es, K) = Kept(es, K)
<1>1. ASSUME NEW S PROVE Re!Cardinality(S) = Cardinality(S)
  BY DEF Re!Cardinality, Cardinality
<1>2. ASSUME NEW K, NEW k PROVE Re!Place(K, k) = Place(K, k)
  BY <1>1 DEF Re!Place, Place
<1>3. ASSUME NEW es, NEW K PROVE Re!Kept(es, K) = Kept(es, K)
  BY <1>1, <1>2 DEF Re!Kept, Kept
<1> QED BY <1>1, <1>3

\* The IDs of a list are as many as its entries only if none is listed twice.
LEMMA ListedCount ==
    ASSUME NEW es \in Seq(RegistryEntries)
    PROVE  /\ IsFiniteSet(Re!Listed(es)) /\ Cardinality(Re!Listed(es)) \in Nat /\ Cardinality(Re!Listed(es)) <= Len(es)
           /\ ~(Cardinality(Re!Listed(es)) < Len(es)) => IdsOnce(es)
<1> DEFINE D == DOMAIN es
           L == Re!Listed(es)
           f == [i \in D |-> es[i].id]
<1>1. D = 1..Len(es) /\ Len(es) \in Nat
  OBVIOUS
<1>2. IsFiniteSet(D) /\ Cardinality(D) = Len(es)
  BY <1>1, FS_Interval
<1>3. f \in Surjection(D, L)
  BY DEF Surjection, Re!Listed
<1> HIDE DEF f, L, D
<1>4. /\ IsFiniteSet(L) /\ Cardinality(L) <= Cardinality(D)
      /\ Cardinality(L) = Cardinality(D) => f \in Injection(D, L)
  BY <1>2, <1>3, FS_Surjection
<1>5. Cardinality(L) \in Nat
  BY <1>4, FS_CardinalityType
<1>6. ASSUME ~(Cardinality(L) < Len(es)) PROVE IdsOnce(es)
  <2>1. f \in Injection(D, L)
    BY <1>1, <1>2, <1>4, <1>5, <1>6
  <2>2. \A i, j \in D : f[i] = f[j] => i = j
    BY <2>1 DEF Injection, IsInjective
  <2> QED BY <2>2 DEF IdsOnce, f, D
<1> QED BY <1>2, <1>4, <1>5, <1>6 DEF L

\* uniqueRuleID finds a free number: of Len + 1 numbers a list leaves one out.
LEMMA UniqueRuleIDFree ==
    ASSUME NEW es \in Seq(RegistryEntries)
    PROVE  Re!UniqueRuleID(es) \in Nat /\ Re!UniqueRuleID(es) \notin Re!Listed(es)
<1> DEFINE N == Len(es) + 1
           K == {n \in 1..N : n \notin Re!Listed(es)}
<1>1. Len(es) \in Nat /\ N \in Nat /\ K \in SUBSET (1..N)
  OBVIOUS
<1>2. K # {}
  <2> SUFFICES ASSUME K = {} PROVE FALSE
    OBVIOUS
  <2>1. (1..N) \in SUBSET Re!Listed(es)
    OBVIOUS
  <2>2. Cardinality(1..N) <= Cardinality(Re!Listed(es)) /\ Cardinality(Re!Listed(es)) <= Len(es) /\ Cardinality(Re!Listed(es)) \in Nat
    <3>1. /\ IsFiniteSet(Re!Listed(es)) /\ Cardinality(Re!Listed(es)) <= Len(es)
          /\ Cardinality(Re!Listed(es)) \in Nat
      BY ListedCount
    <3> QED BY <2>1, <3>1, FS_Subset
  <2>3. Cardinality(1..N) = N
    BY <1>1, FS_Interval
  <2> QED BY <1>1, <2>2, <2>3
<1>3. /\ Cardinality(K) \in Nat /\ IsFiniteSet(K)
      /\ \A k \in 1..Cardinality(K) : Place(K, k) \in K
      /\ \A k, m \in 1..Cardinality(K) : k < m => Place(K, k) < Place(K, m)
      /\ \A i \in K : \E k \in 1..Cardinality(K) : Place(K, k) = i
  <2> HIDE DEF K, N
  <2> QED BY <1>1, PlacesInOrder
<1>4. Cardinality(K) >= 1
  <2> HIDE DEF K
  <2>1. Cardinality(K) # 0
    BY <1>2, <1>3, FS_EmptySet
  <2> QED BY <1>3, <2>1
<1> DEFINE n == Place(K, 1)
<1>5. n \in K
  BY <1>3, <1>4
<1>6. ASSUME NEW j \in K PROVE ~(j < n)
  <2> SUFFICES ASSUME j < n PROVE FALSE
    OBVIOUS
  <2>1. PICK k \in 1..Cardinality(K) : Place(K, k) = j
    BY <1>3
  <2>2. k = 1 \/ 1 < k
    BY <1>3
  <2>3. j \in Nat /\ n \in Nat
    BY <1>1, <1>5
  <2>4. 1 < k => n < j
    <3> HIDE DEF K
    <3> QED BY <1>3, <1>4, <2>1
  <2> HIDE DEF n
  <2> QED BY <2>1, <2>2, <2>3, <2>4 DEF n
<1> HIDE DEF n
<1>7. n \in 1..N /\ n \notin Re!Listed(es) /\ \A k \in 1..(n - 1) : k \in Re!Listed(es)
  BY <1>1, <1>5, <1>6
<1>8. /\ Re!UniqueRuleID(es) \in 1..N /\ Re!UniqueRuleID(es) \notin Re!Listed(es)
  BY <1>7 DEF Re!UniqueRuleID
<1> QED BY <1>1, <1>8

\* Append of an entry: listed once if its ID is new; a workspace is current only as the first.
LEMMA AppendedList ==
    ASSUME NEW es \in Seq(RegistryEntries), NEW e \in RegistryEntries
    PROVE  /\ Append(es, e) \in Seq(RegistryEntries)
           /\ IdsOnce(es) /\ e.id \notin Re!Listed(es) => IdsOnce(Append(es, e))
           /\ OneOn(es) /\ (e.on <=> es = <<>>) => OneOn(Append(es, e))
<1> DEFINE qs == Append(es, e)
<1>1. /\ qs \in Seq(RegistryEntries) /\ DOMAIN es = 1..Len(es) /\ Len(es) \in Nat
      /\ DOMAIN qs = 1..(Len(es) + 1) /\ qs[Len(es) + 1] = e
      /\ \A i \in 1..Len(es) : qs[i] = es[i]
  BY AppendProperties
<1> HIDE DEF qs
<1>2. \A i \in DOMAIN qs : i = Len(es) + 1 \/ i \in DOMAIN es
  BY <1>1
<1>3. \A i \in DOMAIN es : qs[i] = es[i] /\ i \in DOMAIN qs /\ i # Len(es) + 1
  BY <1>1
<1>4. ASSUME IdsOnce(es), e.id \notin Re!Listed(es) PROVE IdsOnce(qs)
  <2>1. \A i \in DOMAIN es : es[i].id # e.id
    BY <1>4 DEF Re!Listed
  <2> QED BY <1>1, <1>2, <1>3, <1>4, <2>1 DEF IdsOnce
<1>5. ASSUME OneOn(es), e.on <=> es = <<>> PROVE OneOn(qs)
  <2>1. CASE es = <<>>
    <3>1. DOMAIN es = {} /\ e.on
      BY <1>5, <2>1
    <3>2. Len(es) + 1 \in DOMAIN qs
      BY <1>1
    <3> QED BY <1>1, <1>2, <3>1, <3>2 DEF OneOn
  <2>2. CASE es # <<>>
    <3>1. ~e.on /\ DOMAIN es # {}
      BY <1>1, <1>5, <2>2
    <3>2. PICK i \in DOMAIN es : es[i].on /\ \A j \in DOMAIN es : es[j].on => j = i
      BY <1>5, <3>1 DEF OneOn
    <3>3. \A j \in DOMAIN qs : qs[j].on => j = i
      BY <1>1, <1>2, <1>3, <3>1, <3>2
    <3> QED BY <1>3, <3>2, <3>3 DEF OneOn
  <2> QED BY <2>1, <2>2
<1> QED BY <1>1, <1>4, <1>5 DEF qs

\* Without: what is left is listed once, and its current entries are the ones that were.
LEMMA WithoutList ==
    ASSUME NEW es \in Seq(RegistryEntries), NEW x
    PROVE  /\ Re!Without(es, x) \in Seq(RegistryEntries)
           /\ IdsOnce(es) => IdsOnce(Re!Without(es, x))
           /\ \E at : /\ \A k \in DOMAIN Re!Without(es, x) :
                            at[k] \in DOMAIN es /\ es[at[k]].id # x /\ Re!Without(es, x)[k] = es[at[k]]
                      /\ \A k, m \in DOMAIN Re!Without(es, x) : at[k] = at[m] => k = m
                      /\ \A i \in DOMAIN es : es[i].id # x => \E k \in DOMAIN Re!Without(es, x) : at[k] = i
<1> DEFINE K  == {i \in DOMAIN es : es[i].id # x}
           qs == Re!Without(es, x)
           at == [k \in DOMAIN qs |-> Place(K, k)]
<1>1. K \in SUBSET (DOMAIN es)
  OBVIOUS
<1>2. qs = Kept(es, K)
  BY RegistriesKept DEF Re!Without
<1> HIDE DEF qs
<1>3. /\ qs \in Seq(RegistryEntries)
      /\ \A k \in DOMAIN qs : Place(K, k) \in K /\ qs[k] = es[Place(K, k)]
      /\ \A k, m \in DOMAIN qs : Place(K, k) = Place(K, m) => k = m
      /\ \A i \in K : \E k \in DOMAIN qs : Place(K, k) = i
  <2> HIDE DEF K
  <2> QED BY <1>1, <1>2, KeptElements
<1>4. /\ \A k \in DOMAIN qs : at[k] \in K /\ qs[k] = es[at[k]]
      /\ \A k, m \in DOMAIN qs : at[k] = at[m] => k = m
      /\ \A i \in K : \E k \in DOMAIN qs : at[k] = i
  <2> HIDE DEF K
  <2> QED BY <1>3
<1> HIDE DEF at
<1>5. /\ \A k \in DOMAIN qs : at[k] \in DOMAIN es /\ es[at[k]].id # x /\ qs[k] = es[at[k]]
      /\ \A i \in DOMAIN es : es[i].id # x => \E k \in DOMAIN qs : at[k] = i
  BY <1>4
<1>6. IdsOnce(es) => IdsOnce(qs)
  BY <1>4, <1>5 DEF IdsOnce
<1> QED BY <1>3, <1>4, <1>5, <1>6 DEF qs

\* setActive: the entries and their IDs stay.
LEMMA SetList ==
    ASSUME NEW es \in Seq(RegistryEntries), IdsOnce(es), NEW x, NEW on \in BOOLEAN
    PROVE  Re!Set(es, x, on) \in Seq(RegistryEntries) /\ IdsOnce(Re!Set(es, x, on))
<1> DEFINE qs == Re!Set(es, x, on)
<1>1. DOMAIN es = 1..Len(es) /\ Len(es) \in Nat /\ DOMAIN qs = DOMAIN es
  BY DEF Re!Set
<1>2. ASSUME NEW i \in DOMAIN es PROVE qs[i] \in RegistryEntries /\ qs[i].id = es[i].id
  <2>1. es[i] \in RegistryEntries /\ qs[i] = IF es[i].id = x THEN [es[i] EXCEPT !.on = on] ELSE es[i]
    BY DEF Re!Set
  <2> QED BY <2>1 DEF RegistryEntries
<1>3. qs \in Seq(RegistryEntries)
  <2>1. qs \in [1..Len(es) -> RegistryEntries]
    BY <1>1, <1>2 DEF Re!Set
  <2> HIDE DEF qs
  <2> QED BY <1>1, <2>1, IsASeq
<1> HIDE DEF qs
<1>4. IdsOnce(qs)
  BY <1>1, <1>2 DEF IdsOnce
<1> QED BY <1>3, <1>4 DEF qs

\* setCurrent: the entries and their IDs stay; one of them is current if it is known.
LEMMA CurrentIsList ==
    ASSUME NEW es \in Seq(RegistryEntries), NEW x
    PROVE  /\ Re!CurrentIs(es, x) \in Seq(RegistryEntries)
           /\ Re!Listed(Re!CurrentIs(es, x)) = Re!Listed(es)
           /\ IdsOnce(es) /\ x \in Re!Listed(es) => OneOn(Re!CurrentIs(es, x))
           /\ DOMAIN Re!CurrentIs(es, x) = DOMAIN es
<1> DEFINE qs == Re!CurrentIs(es, x)
<1>1. DOMAIN es = 1..Len(es) /\ Len(es) \in Nat /\ DOMAIN qs = DOMAIN es
  BY DEF Re!CurrentIs
<1>2. ASSUME NEW i \in DOMAIN es PROVE qs[i] \in RegistryEntries /\ qs[i].id = es[i].id /\ (qs[i].on <=> es[i].id = x)
  <2>1. es[i] \in RegistryEntries /\ qs[i] = [es[i] EXCEPT !.on = es[i].id = x]
    BY DEF Re!CurrentIs
  <2> QED BY <2>1 DEF RegistryEntries
<1>3. qs \in Seq(RegistryEntries)
  <2>1. qs \in [1..Len(es) -> RegistryEntries]
    BY <1>1, <1>2 DEF Re!CurrentIs
  <2> HIDE DEF qs
  <2> QED BY <1>1, <2>1, IsASeq
<1> HIDE DEF qs
<1>4. Re!Listed(qs) = Re!Listed(es)
  BY <1>1, <1>2 DEF Re!Listed
<1>5. ASSUME IdsOnce(es), x \in Re!Listed(es) PROVE OneOn(qs)
  <2>1. PICK i \in DOMAIN es : es[i].id = x
    BY <1>5 DEF Re!Listed
  <2> QED BY <1>1, <1>2, <1>5, <2>1 DEF OneOn, IdsOnce
<1> QED BY <1>1, <1>3, <1>4, <1>5 DEF qs

\* workspaceStore.remove: one of the workspaces left is current.
LEMMA RemovedList ==
    ASSUME NEW es \in Seq(RegistryEntries), OneOn(es), NEW x
    PROVE  Re!Removed(es, x) \in Seq(RegistryEntries) /\ OneOn(Re!Removed(es, x))
<1> DEFINE rest == Re!Without(es, x)
           gone == \E i \in DOMAIN es : es[i].id = x /\ es[i].on
           e    == [rest[1] EXCEPT !.on = TRUE]
           qs   == [rest EXCEPT ![1] = e]
<1>1. Re!Removed(es, x) = IF rest # <<>> /\ gone THEN qs ELSE rest
  BY DEF Re!Removed
<1>2. rest \in Seq(RegistryEntries)
  BY WithoutList
<1>3. PICK at : /\ \A k \in DOMAIN rest : at[k] \in DOMAIN es /\ es[at[k]].id # x /\ rest[k] = es[at[k]]
                /\ \A k, m \in DOMAIN rest : at[k] = at[m] => k = m
                /\ \A i \in DOMAIN es : es[i].id # x => \E k \in DOMAIN rest : at[k] = i
  BY WithoutList
<1> HIDE DEF rest
<1>4. CASE rest # <<>> /\ gone
  <2>1. 1 \in DOMAIN rest /\ rest[1] \in RegistryEntries
    BY <1>2, <1>4
  <2>2. e \in RegistryEntries /\ e.on
    BY <2>1 DEF RegistryEntries
  <2>3. qs \in Seq(RegistryEntries) /\ DOMAIN qs = DOMAIN rest /\ qs[1] = e /\ \A k \in DOMAIN rest : k # 1 => qs[k] = rest[k]
    <3> HIDE DEF e
    <3> QED BY <1>2, <2>1, <2>2, ExceptSeq
  <2>4. \A k \in DOMAIN rest : ~rest[k].on
    <3> SUFFICES ASSUME NEW k \in DOMAIN rest, rest[k].on PROVE FALSE
      OBVIOUS
    <3>1. PICK i \in DOMAIN es : es[i].id = x /\ es[i].on
      BY <1>4
    <3>2. at[k] \in DOMAIN es /\ es[at[k]].on /\ es[at[k]].id # x
      BY <1>3
    <3> QED BY <3>1, <3>2 DEF OneOn
  <2> HIDE DEF e, qs
  <2>5. OneOn(qs)
    BY <2>1, <2>2, <2>3, <2>4 DEF OneOn
  <2> QED BY <1>1, <1>4, <2>3, <2>5
<1>5. CASE ~(rest # <<>> /\ gone)
  <2>1. ASSUME DOMAIN rest # {} PROVE \E k \in DOMAIN rest : rest[k].on /\ \A m \in DOMAIN rest : rest[m].on => m = k
    <3>1. rest # <<>> /\ DOMAIN es # {}
      BY <1>3, <2>1
    <3>2. PICK i \in DOMAIN es : es[i].on /\ \A j \in DOMAIN es : es[j].on => j = i
      BY <3>1 DEF OneOn
    <3>3. es[i].id # x
      BY <1>5, <3>1, <3>2
    <3>4. PICK k \in DOMAIN rest : at[k] = i
      BY <1>3, <3>3
    <3>5. rest[k].on /\ \A m \in DOMAIN rest : rest[m].on => m = k
      BY <1>3, <3>2, <3>4
    <3> QED BY <3>5
  <2>2. OneOn(rest)
    BY <2>1 DEF OneOn
  <2> QED BY <1>1, <1>2, <1>5, <2>2
<1> QED BY <1>4, <1>5

\* repoStore: a changed list names every repository once.
LEMMA RepoChangesGood ==
    ASSUME NEW fs \in Seq(RegistryEntries), IdsOnce(fs), NEW es \in Re!RepoChanges(fs)
    PROVE  es \in Seq(RegistryEntries) /\ IdsOnce(es)
<1>1. ASSUME NEW x \in Numbers \ Re!Listed(fs), es = Append(fs, [id |-> x, on |-> TRUE])
      PROVE  es \in Seq(RegistryEntries) /\ IdsOnce(es)
  <2> DEFINE e == [id |-> x, on |-> TRUE]
  <2>1. e \in RegistryEntries /\ e.id = x
    BY DEF RegistryEntries
  <2> HIDE DEF e
  <2>2. Append(fs, e) \in Seq(RegistryEntries) /\ IdsOnce(Append(fs, e))
    BY <2>1, AppendedList
  <2> QED BY <1>1, <2>2 DEF e
<1>2. ASSUME NEW x \in Numbers, es = Re!Without(fs, x) PROVE es \in Seq(RegistryEntries) /\ IdsOnce(es)
  BY <1>2, WithoutList
<1>3. ASSUME NEW x \in Numbers, NEW on \in BOOLEAN, es = Re!Set(fs, x, on) PROVE es \in Seq(RegistryEntries) /\ IdsOnce(es)
  BY <1>3, SetList
<1>4. \/ \E x \in Numbers \ Re!Listed(fs) : es = Append(fs, [id |-> x, on |-> TRUE])
      \/ \E x \in Numbers : es = Re!Without(fs, x)
      \/ \E x \in Numbers, on \in BOOLEAN : es = Re!Set(fs, x, on)
  BY DEF Re!RepoChanges
<1> QED BY <1>1, <1>2, <1>3, <1>4

\* ruleStore: a changed list names every rule once.
LEMMA RuleChangesGood ==
    ASSUME NEW fs \in Seq(RegistryEntries), IdsOnce(fs), NEW es \in Re!RuleChanges(fs)
    PROVE  es \in Seq(RegistryEntries) /\ IdsOnce(es)
<1>1. ASSUME es = Append(fs, [id |-> Re!UniqueRuleID(fs), on |-> TRUE])
      PROVE  es \in Seq(RegistryEntries) /\ IdsOnce(es)
  <2> DEFINE e == [id |-> Re!UniqueRuleID(fs), on |-> TRUE]
  <2>1. Re!UniqueRuleID(fs) \in Nat /\ Re!UniqueRuleID(fs) \notin Re!Listed(fs)
    BY UniqueRuleIDFree
  <2>2. e \in RegistryEntries /\ e.id \notin Re!Listed(fs)
    BY <2>1 DEF RegistryEntries
  <2> HIDE DEF e
  <2>3. Append(fs, e) \in Seq(RegistryEntries) /\ IdsOnce(Append(fs, e))
    BY <2>2, AppendedList
  <2> QED BY <1>1, <2>3 DEF e
<1>2. ASSUME NEW x, es = Re!Without(fs, x) PROVE es \in Seq(RegistryEntries) /\ IdsOnce(es)
  BY <1>2, WithoutList
<1>3. ASSUME NEW x, NEW on \in BOOLEAN, es = Re!Set(fs, x, on) PROVE es \in Seq(RegistryEntries) /\ IdsOnce(es)
  BY <1>3, SetList
<1>4. \/ es = Append(fs, [id |-> Re!UniqueRuleID(fs), on |-> TRUE])
      \/ \E x : es = Re!Without(fs, x)
      \/ \E x, on : on \in BOOLEAN /\ es = Re!Set(fs, x, on)
  BY DEF Re!RuleChanges
<1> QED BY <1>1, <1>2, <1>3, <1>4

\* workspaceStore: unless an ID was repeated or setCurrent given an unknown one, a changed list
\* names every workspace once and one of them is current.
LEMMA WorkspaceChangesGood ==
    ASSUME NEW fs \in Seq(RegistryEntries), NEW es \in Re!WorkspaceChanges(fs)
    PROVE  /\ es \in Seq(RegistryEntries)
           /\ /\ IdsOnce(fs) /\ OneOn(fs) /\ ~(Re!Cardinality(Re!Listed(es)) < Len(es))
              /\ ~(es # <<>> /\ \E x \in Numbers \ Re!Listed(es) : es = Re!CurrentIs(fs, x))
              => IdsOnce(es) /\ OneOn(es)
<1> DEFINE steady == IdsOnce(fs) /\ OneOn(fs) /\ ~(es # <<>> /\ \E x \in Numbers \ Re!Listed(es) : es = Re!CurrentIs(fs, x))
<1>1. ASSUME NEW x \in Numbers, es = Re!WithWorkspace(fs, x) PROVE es \in Seq(RegistryEntries) /\ (steady => OneOn(es))
  <2> DEFINE e == [id |-> x, on |-> fs = <<>>]
  <2>1. e \in RegistryEntries /\ (e.on <=> fs = <<>>)
    BY DEF RegistryEntries
  <2>2. es = Append(fs, e)
    BY <1>1 DEF Re!WithWorkspace
  <2> HIDE DEF e
  <2> QED BY <2>1, <2>2, AppendedList
<1>2. ASSUME NEW x \in Numbers, es = Re!Removed(fs, x) PROVE es \in Seq(RegistryEntries) /\ (steady => OneOn(es))
  <2>1. CASE OneOn(fs)
    BY <1>2, <2>1, RemovedList
  <2>2. CASE ~OneOn(fs)
    <3> DEFINE rest == Re!Without(fs, x)
    <3>1. rest \in Seq(RegistryEntries)
      BY WithoutList
    <3> DEFINE e == [rest[1] EXCEPT !.on = TRUE]
    <3>2. es = rest \/ (rest # <<>> /\ es = [rest EXCEPT ![1] = e])
      BY <1>2 DEF Re!Removed
    <3> HIDE DEF rest
    <3>3. ASSUME rest # <<>> PROVE [rest EXCEPT ![1] = e] \in Seq(RegistryEntries)
      <4>1. 1 \in DOMAIN rest /\ rest[1] \in RegistryEntries
        BY <3>1, <3>3
      <4>2. e \in RegistryEntries
        BY <4>1 DEF RegistryEntries
      <4> HIDE DEF e
      <4> QED BY <3>1, <4>1, <4>2, ExceptSeq
    <3> HIDE DEF e
    <3> QED BY <2>2, <3>1, <3>2, <3>3
  <2> QED BY <2>1, <2>2
<1>3. ASSUME NEW x \in Numbers, es = Re!CurrentIs(fs, x) PROVE es \in Seq(RegistryEntries) /\ (steady => OneOn(es))
  <2>1. es \in Seq(RegistryEntries) /\ Re!Listed(es) = Re!Listed(fs) /\ (IdsOnce(fs) /\ x \in Re!Listed(fs) => OneOn(es))
    BY <1>3, CurrentIsList
  <2>2. ASSUME steady, x \notin Re!Listed(fs) PROVE OneOn(es)
    <3>1. es = <<>>
      BY <1>3, <2>1, <2>2
    <3> QED BY <3>1 DEF OneOn
  <2> QED BY <2>1, <2>2
<1>4. ASSUME es = fs PROVE es \in Seq(RegistryEntries) /\ (steady => OneOn(es))
  BY <1>4
<1>5. es \in Seq(RegistryEntries) /\ (steady => OneOn(es))
  BY <1>1, <1>2, <1>3, <1>4 DEF Re!WorkspaceChanges
<1>6. ~(Re!Cardinality(Re!Listed(es)) < Len(es)) => IdsOnce(es)
  <2>1. Re!Cardinality(Re!Listed(es)) = Cardinality(Re!Listed(es))
    BY RegistriesKept
  <2> QED BY <1>5, <2>1, ListedCount
<1> QED BY <1>5, <1>6

\* A registry that was misled stays so; what is good before is good after.
LEMMA RegistryListKept ==
    ASSUME NEW s, NEW es, NEW m, NEW n, m => n, RegistryList(s, es, m)
    PROVE  RegistryList(s, es, n)
BY DEF RegistryList

\* Every step of the registries keeps the invariant.
LEMMA RegistriesStep == RegistriesInv /\ [Re!Next]_Re!vars => RegistriesInv'
<1> SUFFICES ASSUME RegistriesInv, [Re!Next]_Re!vars PROVE RegistriesInv'
  OBVIOUS
<1> USE DEF Re!Idle, Re!Goes
<1>0. /\ DOMAIN file = Re!Stores /\ \A s \in Re!Stores : RegistryList(s, file[s], misled)
      /\ DOMAIN req = Clients /\ \A t \in Clients : RegistryRequest(req[t])
      /\ misled \in BOOLEAN /\ overlapped \in BOOLEAN
      /\ ProjectList(projects) /\ ProjectList(cache)
      /\ ~overlapped => CreatedApart
  BY DEF RegistriesInv
<1>1. ASSUME NEW t \in Clients, Re!Command(t) PROVE RegistriesInv'
  <2>0. PICK s \in Re!Stores : \E es :
          /\ s = "repos" => es \in Re!RepoChanges(file[s])
          /\ s = "rules" => es \in Re!RuleChanges(file[s])
          /\ s = "workspaces" => es \in Re!WorkspaceChanges(file[s])
          /\ req' = [req EXCEPT ![t] = [pc |-> "save", store |-> s, es |-> es]]
          /\ misled' = (misled \/ Re!Cardinality(Re!Listed(es)) < Len(es)
                               \/ (s = "workspaces" /\ es # <<>> /\ \E x \in Numbers \ Re!Listed(es) : es = Re!CurrentIs(file[s], x)))
    <3>1. CASE Re!Change(t, "repos", Re!RepoChanges(file.repos))
      BY <3>1 DEF Re!Change, Re!Stores
    <3>2. CASE Re!Change(t, "rules", Re!RuleChanges(file.rules))
      BY <3>2 DEF Re!Change, Re!Stores
    <3>3. CASE Re!Change(t, "workspaces", Re!WorkspaceChanges(file.workspaces))
      BY <3>3 DEF Re!Change, Re!Stores
    <3> QED BY <1>1, <3>1, <3>2, <3>3 DEF Re!Command
  <2>1. PICK es :
          /\ s = "repos" => es \in Re!RepoChanges(file[s])
          /\ s = "rules" => es \in Re!RuleChanges(file[s])
          /\ s = "workspaces" => es \in Re!WorkspaceChanges(file[s])
          /\ req' = [req EXCEPT ![t] = [pc |-> "save", store |-> s, es |-> es]]
          /\ misled' = (misled \/ Re!Cardinality(Re!Listed(es)) < Len(es)
                               \/ (s = "workspaces" /\ es # <<>> /\ \E x \in Numbers \ Re!Listed(es) : es = Re!CurrentIs(file[s], x)))
    BY <2>0
  <2>2. /\ req[t].pc = "idle" /\ file' = file /\ projects' = projects /\ dirs' = dirs /\ cache' = cache
        /\ overlapped' = overlapped
    BY <1>1 DEF Re!Command, Re!Change, Re!Begin
  <2>3. misled' \in BOOLEAN /\ (misled => misled')
    BY <1>0, <2>1
  <2>4. RegistryList(s, es, misled')
    <3>1. RegistryList(s, file[s], misled) /\ s \in {"repos", "rules", "workspaces"}
      BY <1>0 DEF Re!Stores
    <3>2. CASE s = "repos"
      BY <2>1, <3>1, <3>2, RepoChangesGood DEF RegistryList
    <3>3. CASE s = "rules"
      BY <2>1, <3>1, <3>3, RuleChangesGood DEF RegistryList
    <3>4. CASE s = "workspaces"
      <4>1. file[s] \in Seq(RegistryEntries) /\ es \in Re!WorkspaceChanges(file[s])
        BY <2>1, <3>1, <3>4 DEF RegistryList
      <4>2. CASE misled'
        BY <3>4, <4>1, <4>2, WorkspaceChangesGood DEF RegistryList
      <4>3. CASE ~misled'
        <5>1. IdsOnce(file[s]) /\ OneOn(file[s])
          BY <1>0, <2>3, <3>1, <3>4, <4>3 DEF RegistryList
        <5>2. ~(Re!Cardinality(Re!Listed(es)) < Len(es)) /\ ~(es # <<>> /\ \E x \in Numbers \ Re!Listed(es) : es = Re!CurrentIs(file[s], x))
          BY <2>1, <3>4, <4>3
        <5> QED BY <3>4, <4>1, <5>1, <5>2, WorkspaceChangesGood DEF RegistryList
      <4> QED BY <4>2, <4>3
    <3> QED BY <3>1, <3>2, <3>3, <3>4
  <2>5. /\ DOMAIN req' = Clients /\ req'[t] = [pc |-> "save", store |-> s, es |-> es]
        /\ \A u \in Clients : u # t => req'[u] = req[u]
    BY <1>0, <2>1
  <2>6. \A r \in Re!Stores : RegistryList(r, file[r], misled)'
    <3>1. \A r \in Re!Stores : RegistryList(r, file[r], misled')
      BY <1>0, <2>3, RegistryListKept
    <3> QED BY <2>2, <3>1
  <2>7. ASSUME NEW u \in Clients PROVE RegistryRequest(req[u])'
    <3>1. CASE u = t
      <4>1. es \in Seq(RegistryEntries)
        BY <2>4 DEF RegistryList
      <4> DEFINE r == [pc |-> "save", store |-> s, es |-> es]
      <4>2. r \in [pc : {"save"}, store : Re!Stores, es : Seq(RegistryEntries)] /\ r.store = s /\ r.es = es
        BY <4>1
      <4>3. req'[u] = r
        BY <2>5, <3>1
      <4> HIDE DEF r
      <4> QED BY <2>4, <4>2, <4>3 DEF RegistryRequest
    <3>2. CASE u # t
      <4>1. RegistryRequest(req[u]) /\ req'[u] = req[u]
        BY <1>0, <2>5, <3>2
      <4>2. ASSUME RegistryList(req[u].store, req[u].es, misled) PROVE RegistryList(req[u].store, req[u].es, misled')
        BY <2>3, <4>2, RegistryListKept
      <4> QED BY <2>2, <4>1, <4>2 DEF RegistryRequest
    <3> QED BY <3>1, <3>2
  <2>8. ProjectList(projects)' /\ ProjectList(cache)'
    BY <1>0, <2>2 DEF ProjectList
  <2>9. (~overlapped => CreatedApart)'
    <3>1. req'[t].pc = "save"
      BY <2>5
    <3> QED BY <1>0, <2>2, <2>5, <3>1 DEF CreatedApart, NewProject
  <2>10. DOMAIN file' = Re!Stores
    BY <1>0, <2>2
  <2> QED BY <1>0, <2>2, <2>3, <2>5, <2>6, <2>7, <2>8, <2>9, <2>10 DEF RegistriesInv
<1>2. ASSUME NEW t \in Clients, Re!Save(t) PROVE RegistriesInv'
  <2>1. /\ req[t].pc = "save" /\ file' = [file EXCEPT ![req[t].store] = req[t].es]
        /\ DOMAIN req' = Clients /\ req'[t] = [pc |-> "idle"] /\ \A u \in Clients : u # t => req'[u] = req[u]
        /\ projects' = projects /\ dirs' = dirs /\ cache' = cache /\ misled' = misled /\ overlapped' = overlapped
    BY <1>0, <1>2 DEF Re!Save
  <2>2. req[t].store \in Re!Stores /\ RegistryList(req[t].store, req[t].es, misled)
    BY <1>0, <2>1 DEF RegistryRequest
  <2>3. DOMAIN file' = Re!Stores /\ \A s \in Re!Stores : RegistryList(s, file[s], misled)'
    BY <1>0, <2>1, <2>2
  <2>4. \A u \in Clients : RegistryRequest(req[u])'
    BY <1>0, <2>1 DEF RegistryRequest
  <2>5. ProjectList(projects)' /\ ProjectList(cache)'
    BY <1>0, <2>1 DEF ProjectList
  <2>6. (~overlapped => CreatedApart)'
    <3>1. req'[t].pc = "idle"
      BY <2>1
    <3> QED BY <1>0, <2>1, <3>1 DEF CreatedApart, NewProject
  <2> QED BY <1>0, <2>1, <2>3, <2>4, <2>5, <2>6 DEF RegistriesInv
<1>3. ASSUME NEW t \in Clients, Re!CreateBegin(t) PROVE RegistriesInv'
  <2>1. PICK x \in Numbers \ dirs, p \in PortNumbers :
          /\ \A i \in DOMAIN projects : projects[i].slug # x /\ projects[i].port # p
          /\ req' = [req EXCEPT ![t] = [pc |-> "scaffold", slug |-> x, port |-> p]]
    BY <1>3 DEF Re!CreateBegin
  <2> DEFINE r == [pc |-> "scaffold", slug |-> x, port |-> p]
  <2>2. /\ file' = file /\ DOMAIN req' = Clients /\ req'[t] = r /\ \A u \in Clients : u # t => req'[u] = req[u]
        /\ projects' = projects /\ dirs' = dirs /\ cache' = cache /\ misled' = misled
    BY <1>0, <1>3, <2>1 DEF Re!CreateBegin
  <2>3. overlapped' = (overlapped \/ \E u \in Clients : req[u].pc \in {"scaffold", "register"})
    BY <1>3 DEF Re!CreateBegin, Re!Creating
  <2>4. r \in [pc : {"scaffold", "register"}, slug : Numbers, port : PortNumbers] /\ r.pc = "scaffold" /\ r.slug = x /\ r.port = p
    OBVIOUS
  <2> HIDE DEF r
  <2>5. DOMAIN file' = Re!Stores /\ \A s \in Re!Stores : RegistryList(s, file[s], misled)'
    BY <1>0, <2>2
  <2>6. \A u \in Clients : RegistryRequest(req[u])'
    BY <1>0, <2>2, <2>4 DEF RegistryRequest
  <2>7. overlapped' \in BOOLEAN /\ (overlapped => overlapped')
    BY <1>0, <2>3
  <2>8. ProjectList(projects)' /\ ProjectList(cache)'
    BY <1>0, <2>2, <2>7 DEF ProjectList
  <2>9. (~overlapped => CreatedApart)'
    <3> SUFFICES ASSUME ~overlapped' PROVE CreatedApart'
      OBVIOUS
    <3>1. \A u \in Clients : req[u].pc \notin {"scaffold", "register"}
      BY <2>3
    <3>2. \A u \in Clients : req'[u].pc \in {"scaffold", "register"} => u = t
      BY <2>2, <3>1
    <3>3. NewProject(req[t])'
      BY <2>1, <2>2, <2>4 DEF NewProject
    <3> QED BY <3>2, <3>3 DEF CreatedApart
  <2> QED BY <1>0, <2>2, <2>5, <2>6, <2>7, <2>8, <2>9 DEF RegistriesInv
<1>4. ASSUME NEW t \in Clients, Re!Scaffold(t) \/ Re!ScaffoldFails(t) PROVE RegistriesInv'
  <2>1. /\ req[t].pc = "scaffold" /\ dirs' \in {dirs, dirs \cup {req[t].slug}} /\ file' = file
        /\ projects' = projects /\ cache' = cache /\ misled' = misled /\ overlapped' = overlapped
    BY <1>4 DEF Re!Scaffold, Re!ScaffoldFails
  <2>2. req[t] \in [pc : {"scaffold", "register"}, slug : Numbers, port : PortNumbers]
    BY <1>0, <2>1 DEF RegistryRequest
  <2>3. /\ DOMAIN req' = Clients /\ \A u \in Clients : u # t => req'[u] = req[u]
        /\ \/ req'[t] = [pc |-> "idle"]
           \/ /\ req'[t] \in [pc : {"scaffold", "register"}, slug : Numbers, port : PortNumbers]
              /\ req'[t].slug = req[t].slug /\ req'[t].port = req[t].port /\ req'[t].slug \in dirs'
    <3>1. CASE Re!Scaffold(t)
      <4>1. req' = [req EXCEPT ![t] = [req[t] EXCEPT !.pc = "register"]] /\ dirs' = dirs \cup {req[t].slug}
        BY <3>1 DEF Re!Scaffold
      <4> DEFINE r == [req[t] EXCEPT !.pc = "register"]
      <4>2. r \in [pc : {"scaffold", "register"}, slug : Numbers, port : PortNumbers] /\ r.slug = req[t].slug /\ r.port = req[t].port
        BY <2>2
      <4> HIDE DEF r
      <4>3. req'[t] = r /\ DOMAIN req' = Clients /\ \A u \in Clients : u # t => req'[u] = req[u]
        BY <1>0, <4>1 DEF r
      <4> QED BY <4>1, <4>2, <4>3
    <3>2. CASE Re!ScaffoldFails(t)
      BY <1>0, <3>2 DEF Re!ScaffoldFails
    <3> QED BY <1>4, <3>1, <3>2
  <2>4. DOMAIN file' = Re!Stores /\ \A s \in Re!Stores : RegistryList(s, file[s], misled)'
    BY <1>0, <2>1
  <2>5. dirs \subseteq dirs'
    BY <2>1
  <2>6. ASSUME NEW u \in Clients PROVE RegistryRequest(req[u])'
    <3>1. CASE u = t
      BY <2>3, <3>1 DEF RegistryRequest
    <3>2. CASE u # t
      BY <1>0, <2>1, <2>3, <2>5, <3>2 DEF RegistryRequest
    <3> QED BY <3>1, <3>2
  <2>7. ProjectList(projects)' /\ ProjectList(cache)'
    <3> HIDE <2>1
    <3>1. projects' = projects /\ cache' = cache /\ overlapped' = overlapped
      BY <2>1
    <3> QED BY <1>0, <2>5, <3>1 DEF ProjectList
  <2>8. (~overlapped => CreatedApart)'
    <3> SUFFICES ASSUME ~overlapped' PROVE CreatedApart'
      OBVIOUS
    <3>1. CreatedApart /\ projects' = projects
      BY <1>0, <2>1
    <3>2. \A u \in Clients : req'[u].pc \in {"scaffold", "register"} => req[u].pc \in {"scaffold", "register"}
      BY <2>1, <2>3
    <3>3. \A u \in Clients : req'[u].pc \in {"scaffold", "register"} => NewProject(req[u])'
      <4> SUFFICES ASSUME NEW u \in Clients, req'[u].pc \in {"scaffold", "register"} PROVE NewProject(req[u])'
        OBVIOUS
      <4>1. NewProject(req[u])
        BY <3>1, <3>2 DEF CreatedApart
      <4>2. req'[u].slug = req[u].slug /\ req'[u].port = req[u].port
        BY <2>3
      <4> QED BY <3>1, <4>1, <4>2 DEF NewProject
    <3> QED BY <3>1, <3>2, <3>3 DEF CreatedApart
  <2> QED BY <1>0, <2>1, <2>3, <2>4, <2>6, <2>7, <2>8 DEF RegistriesInv
<1>5. ASSUME NEW t \in Clients, Re!Register(t) PROVE RegistriesInv'
  <2> DEFINE e == [slug |-> req[t].slug, port |-> req[t].port]
  <2>1. /\ req[t].pc = "register" /\ projects' = Append(projects, e) /\ file' = file
        /\ DOMAIN req' = Clients /\ req'[t] = [pc |-> "idle"] /\ \A u \in Clients : u # t => req'[u] = req[u]
        /\ dirs' = dirs /\ cache' = cache /\ misled' = misled /\ overlapped' = overlapped
    BY <1>0, <1>5 DEF Re!Register
  <2>2. req[t] \in [pc : {"scaffold", "register"}, slug : Numbers, port : PortNumbers] /\ req[t].slug \in dirs
    BY <1>0, <2>1 DEF RegistryRequest
  <2>3. e \in [slug : Numbers, port : PortNumbers] /\ e.slug = req[t].slug /\ e.port = req[t].port
    BY <2>2
  <2> HIDE DEF e
  <2> DEFINE n == Len(projects) + 1
  <2>4. /\ projects' \in Seq([slug : Numbers, port : PortNumbers]) /\ n \notin DOMAIN projects
        /\ DOMAIN projects' = DOMAIN projects \cup {n} /\ projects'[n] = e
        /\ \A i \in DOMAIN projects : projects'[i] = projects[i]
    <3>1. projects \in Seq([slug : Numbers, port : PortNumbers])
      BY <1>0 DEF ProjectList
    <3>2. /\ Append(projects, e) \in Seq([slug : Numbers, port : PortNumbers])
          /\ DOMAIN projects = 1..Len(projects) /\ Len(projects) \in Nat
          /\ DOMAIN Append(projects, e) = 1..(Len(projects) + 1) /\ Append(projects, e)[Len(projects) + 1] = e
          /\ \A i \in 1..Len(projects) : Append(projects, e)[i] = projects[i]
      BY <2>3, <3>1, AppendProperties
    <3> QED BY <2>1, <3>2
  <2> HIDE DEF n
  <2>5. DOMAIN file' = Re!Stores /\ \A s \in Re!Stores : RegistryList(s, file[s], misled)'
    BY <1>0, <2>1
  <2>6. \A u \in Clients : RegistryRequest(req[u])'
    BY <1>0, <2>1 DEF RegistryRequest
  <2>7. ProjectList(cache)'
    BY <1>0, <2>1 DEF ProjectList
  <2>8. ProjectList(projects)'
    <3>1. \A i \in DOMAIN projects' : projects'[i].slug \in dirs'
      BY <1>0, <2>1, <2>2, <2>3, <2>4 DEF ProjectList
    <3>2. ASSUME ~overlapped', NEW i \in DOMAIN projects', NEW j \in DOMAIN projects',
                 projects'[i].slug = projects'[j].slug \/ projects'[i].port = projects'[j].port
          PROVE  i = j
      <4>1. NewProject(req[t]) /\ ~overlapped
        BY <1>0, <2>1, <3>2 DEF CreatedApart
      <4>2. \A k \in DOMAIN projects : projects[k].slug # e.slug /\ projects[k].port # e.port
        BY <2>3, <4>1 DEF NewProject
      <4>3. CASE i = n \/ j = n
        BY <2>4, <3>2, <4>2, <4>3
      <4>4. CASE i # n /\ j # n
        BY <1>0, <2>4, <3>2, <4>1, <4>4 DEF ProjectList
      <4> QED BY <4>3, <4>4
    <3> QED BY <2>4, <3>1, <3>2 DEF ProjectList
  <2>9. (~overlapped => CreatedApart)'
    <3> SUFFICES ASSUME ~overlapped' PROVE CreatedApart'
      OBVIOUS
    <3>1. \A u \in Clients : u # t => req[u].pc \notin {"scaffold", "register"}
      BY <1>0, <2>1 DEF CreatedApart
    <3>2. \A u \in Clients : req'[u].pc \notin {"scaffold", "register"}
      BY <2>1, <3>1
    <3> QED BY <3>2 DEF CreatedApart
  <2> QED BY <1>0, <2>1, <2>5, <2>6, <2>7, <2>8, <2>9 DEF RegistriesInv
<1>6. CASE Re!Route
  <2>1. /\ cache' = projects /\ file' = file /\ projects' = projects /\ dirs' = dirs /\ req' = req
        /\ misled' = misled /\ overlapped' = overlapped
    BY <1>6 DEF Re!Route
  <2>2. ProjectList(projects)' /\ ProjectList(cache)'
    BY <1>0, <2>1 DEF ProjectList
  <2>3. \A u \in Clients : RegistryRequest(req[u])'
    BY <1>0, <2>1 DEF RegistryRequest
  <2>4. (~overlapped => CreatedApart)'
    BY <1>0, <2>1 DEF CreatedApart, NewProject
  <2>5. DOMAIN file' = Re!Stores /\ \A s \in Re!Stores : RegistryList(s, file[s], misled)'
    BY <1>0, <2>1
  <2> QED BY <1>0, <2>1, <2>2, <2>3, <2>4, <2>5 DEF RegistriesInv
<1>7. CASE Re!Crash
  <2>1. /\ DOMAIN req' = Clients /\ \A t \in Clients : req'[t] = [pc |-> "idle"]
        /\ cache' = <<>> /\ dirs' = dirs /\ misled' = misled
    BY <1>7 DEF Re!Crash
  <2>2. \A m : RegistryList("repos", <<>>, m) /\ RegistryList("rules", <<>>, m) /\ RegistryList("workspaces", <<>>, m)
    BY DEF RegistryList, IdsOnce, OneOn
  <2>3. file' = file \/ \E t \in Clients : req[t].pc = "save" /\ file' = [file EXCEPT ![req[t].store] = <<>>]
    BY <1>7 DEF Re!Crash
  <2>4. DOMAIN file' = Re!Stores /\ \A s \in Re!Stores : RegistryList(s, file'[s], misled)
    BY <1>0, <2>2, <2>3 DEF Re!Stores
  <2>5. (projects' = projects /\ overlapped' = overlapped) \/ (projects' = <<>> /\ overlapped')
    BY <1>7 DEF Re!Crash
  <2>6. ProjectList(projects)' /\ ProjectList(cache)' /\ overlapped' \in BOOLEAN
    <3>1. ProjectList(cache)'
      BY <2>1 DEF ProjectList
    <3>2. CASE projects' = projects /\ overlapped' = overlapped
      BY <1>0, <2>1, <3>1, <3>2 DEF ProjectList
    <3>3. CASE projects' = <<>> /\ overlapped'
      <4>1. ProjectList(projects)'
        BY <3>3 DEF ProjectList
      <4>2. overlapped' = TRUE
        BY <1>7, <3>3 DEF Re!Crash
      <4> QED BY <3>1, <4>1, <4>2
    <3> QED BY <2>5, <3>2, <3>3
  <2>7. \A u \in Clients : RegistryRequest(req[u])'
    BY <2>1 DEF RegistryRequest
  <2>8. CreatedApart'
    BY <2>1 DEF CreatedApart
  <2> QED BY <1>0, <2>1, <2>4, <2>6, <2>7, <2>8 DEF RegistriesInv
<1>8. CASE UNCHANGED Re!vars
  <2>1. /\ cache' = cache /\ file' = file /\ projects' = projects /\ dirs' = dirs /\ req' = req
        /\ misled' = misled /\ overlapped' = overlapped
    BY <1>8 DEF Re!vars
  <2>2. ProjectList(projects)' /\ ProjectList(cache)'
    BY <1>0, <2>1 DEF ProjectList
  <2>3. \A u \in Clients : RegistryRequest(req[u])'
    BY <1>0, <2>1 DEF RegistryRequest
  <2>4. (~overlapped => CreatedApart)'
    BY <1>0, <2>1 DEF CreatedApart, NewProject
  <2>5. DOMAIN file' = Re!Stores /\ \A s \in Re!Stores : RegistryList(s, file[s], misled)'
    BY <1>0, <2>1
  <2> QED BY <1>0, <2>1, <2>2, <2>3, <2>4, <2>5 DEF RegistriesInv
<1> QED BY <1>1, <1>2, <1>3, <1>4, <1>5, <1>6, <1>7, <1>8 DEF Re!Next

\* The registries begin in the invariant.
LEMMA RegistriesStart == Re!Init => RegistriesInv
<1> SUFFICES ASSUME Re!Init PROVE RegistriesInv
  OBVIOUS
<1>1. /\ file.repos = <<[id |-> 1, on |-> TRUE]>> /\ file.rules = <<[id |-> 1, on |-> TRUE]>> /\ file.workspaces = <<>>
      /\ DOMAIN file = Re!Stores
      /\ projects = <<>> /\ cache = <<>> /\ misled = FALSE /\ overlapped = FALSE
      /\ DOMAIN req = Clients /\ \A t \in Clients : req[t] = [pc |-> "idle"]
  BY DEF Re!Init, Re!SeedRepos, Re!SeedRules, Re!Stores, Re!Idle
<1>2. \A s \in Re!Stores : RegistryList(s, file[s], misled)
  <2>1. [id |-> 1, on |-> TRUE] \in RegistryEntries
    BY DEF RegistryEntries
  <2>2. RegistryList("repos", file.repos, misled) /\ RegistryList("rules", file.rules, misled)
    BY <1>1, <2>1 DEF RegistryList, IdsOnce
  <2>3. RegistryList("workspaces", <<>>, misled)
    BY DEF RegistryList, IdsOnce, OneOn
  <2> QED BY <1>1, <2>2, <2>3 DEF Re!Stores
<1>3. ProjectList(projects) /\ ProjectList(cache)
  BY <1>1 DEF ProjectList
<1>4. \A t \in Clients : RegistryRequest(req[t])
  BY <1>1 DEF RegistryRequest
<1>5. CreatedApart
  BY <1>1 DEF CreatedApart
<1> QED BY <1>1, <1>2, <1>3, <1>4, <1>5 DEF RegistriesInv

\* What the invariant says of the files and of the router's cache.
LEMMA RegistriesInvSound == RegistriesInv => Re!RegistriesSound
<1> SUFFICES ASSUME RegistriesInv PROVE Re!RegistriesSound
  OBVIOUS
<1>1. IdsOnce(file.repos) /\ IdsOnce(file.rules)
  BY DEF RegistriesInv, Re!Stores, RegistryList
<1>2. ASSUME ~misled, file.workspaces # <<>>
      PROVE  Re!Cardinality({i \in DOMAIN file.workspaces : file.workspaces[i].on}) = 1
  <2> DEFINE ws == file.workspaces
             D  == {i \in DOMAIN ws : ws[i].on}
  <2>1. ws \in Seq(RegistryEntries) /\ OneOn(ws) /\ ws # <<>>
    BY <1>2 DEF RegistriesInv, Re!Stores, RegistryList
  <2> HIDE DEF ws
  <2>2. DOMAIN ws # {}
    <3>1. Len(ws) # 0 /\ Len(ws) \in Nat /\ DOMAIN ws = 1..Len(ws)
      BY <2>1, EmptySeq, LenProperties
    <3>2. 1 \in DOMAIN ws
      BY <3>1
    <3> QED BY <3>2
  <2>3. PICK i : D = {i}
    BY <2>1, <2>2 DEF OneOn
  <2> HIDE DEF D
  <2>4. Cardinality(D) = 1
    BY <2>3, FS_Singleton
  <2> QED BY <2>4, RegistriesKept DEF D, ws
<1>3. \A i \in DOMAIN cache : cache[i].slug \in dirs
  BY DEF RegistriesInv, ProjectList
<1>4. ASSUME ~overlapped PROVE \A i, j \in DOMAIN cache : cache[i].slug = cache[j].slug \/ cache[i].port = cache[j].port => i = j
  BY <1>4 DEF RegistriesInv, ProjectList
<1>5. Re!Distinct(file.repos, LAMBDA e : e.id) /\ Re!Distinct(file.rules, LAMBDA e : e.id)
  BY <1>1 DEF IdsOnce, Re!Distinct
<1>6. ~overlapped => Re!Distinct(cache, LAMBDA e : e.slug) /\ Re!Distinct(cache, LAMBDA e : e.port)
  BY <1>4 DEF Re!Distinct
<1> QED BY <1>2, <1>3, <1>5, <1>6 DEF Re!RegistriesSound

\* However commands overlap or are cut off, a repository and a rule are listed once; one workspace
\* is current unless the list was misled; and the router sends no two projects to one port or slug
\* unless two were created at once or a crash emptied the list, for every number of requests, IDs
\* and ports (repos.go, rules.go, workspacestore.go, projects.go).
THEOREM RegistriesAreSound == Spec => []RegistriesSound
  BY RegistriesStart, RegistriesStep, RegistriesInvSound, RegistriesRun, PTL DEF Spec, RegistriesSound

-----------------------------------------------------------------------------
(* Knowledge Brain: a file holds records of its own id and torn lines; in   *)
(* one that can be read the versions are 1 to some m, and what a process is *)
(* about to append is at most m + 1: it was read from this file, which only *)
(* grows. What is active was approved, in files, in appends under way and   *)
(* in the entries a selection has read; of those an id has one.             *)

BrainEntries == [id : Numbers, version : Nat \ {0}, status : Kn!Statuses, body : Bodies]

BrainEntry(e) == e \in BrainEntries /\ (e.status = "active" => e.id \in approved)

UpTo(ls, m) ==
    /\ \A k \in DOMAIN ls : ls[k].version <= m
    /\ \A v \in 1..m : \E k \in DOMAIN ls : ls[k].version = v

FileOf(i) ==
    /\ log[i] \in Seq(BrainEntries \cup {CutShort})
    /\ \A k \in DOMAIN log[i] : log[i][k] # CutShort => BrainEntry(log[i][k]) /\ log[i][k].id = i
    /\ i \in open => log[i] # <<>>
    /\ (\A k \in DOMAIN log[i] : log[i][k] # CutShort) =>
          \E m \in Nat : /\ UpTo(log[i], m)
                         /\ \A p \in Clients : pend[p] # <<>> /\ pend[p][1].id = i => pend[p][1].version <= m + 1

Selection ==
    /\ sel \in [at : {"idle", "read"}, todo : SUBSET Numbers, got : SUBSET BrainEntries]
    /\ IsFiniteSet(sel.got) /\ \A e \in sel.got : BrainEntry(e) /\ e.id \notin sel.todo
    /\ \A e, f \in sel.got : e.id = f.id => e = f
    /\ \A i \in sel.todo : log[i] # <<>>

KnowledgeInv ==
    /\ DOMAIN log = Numbers /\ \A i \in Numbers : FileOf(i)
    /\ DOMAIN pend = Clients /\ \A p \in Clients : pend[p] # <<>> => pend[p] = <<pend[p][1]>> /\ BrainEntry(pend[p][1])
    /\ Selection /\ Kn!PromptSound

\* A set of numbers has a least one.
LEMMA LeastNumber ==
    ASSUME NEW T \in SUBSET Nat, T # {}
    PROVE  \E x \in T : \A y \in T : x <= y
<1> DEFINE R == OpToRel(<, Nat)
<1>1. IsWellFoundedOn(R, Nat)
  BY NatLessThanWellFounded, Zenon
<1>2. ASSUME NEW x \in Nat, NEW y \in Nat, y < x PROVE <<y, x>> \in R
  BY <1>2 DEF OpToRel
<1> HIDE DEF R
<1>3. PICK x \in T : \A y \in T : ~ (<<y, x>> \in R)
  BY <1>1, WFMin
<1>4. \A y \in T : x \in Nat /\ y \in Nat /\ ~(y < x)
  BY <1>2, <1>3
<1>5. \A y \in T : x <= y
  BY <1>4
<1> QED BY <1>3, <1>5

\* The instance's Cardinality is the one the theorems about finite sets speak of.
LEMMA BrainCardinality == \A S : Kn!Cardinality(S) = Cardinality(S)
<1>1. ASSUME NEW S PROVE Kn!Cardinality(S) = Cardinality(S)
  BY DEF Kn!Cardinality, Cardinality
<1> QED BY <1>1

\* The current entry of a history whose versions are 1 to m is one of version m.
LEMMA CurrentIsNewest ==
    ASSUME NEW ls \in Seq(BrainEntries), ls # <<>>, NEW m \in Nat, UpTo(ls, m)
    PROVE  \E k \in DOMAIN ls : Kn!Current(ls) = ls[k] /\ ls[k].version = m
<1>1. DOMAIN ls = 1..Len(ls) /\ Len(ls) \in Nat /\ \A k \in DOMAIN ls : ls[k] \in BrainEntries
  OBVIOUS
<1>2. \A k \in DOMAIN ls : ls[k].version \in Nat /\ ls[k].version # 0 /\ ls[k].version <= m
  BY <1>1 DEF BrainEntries, UpTo
<1>3. 1 \in DOMAIN ls
  BY <1>1, EmptySeq
<1>4. m \in 1..m
  BY <1>2, <1>3
<1> DEFINE K == {k \in DOMAIN ls : ls[k].version = m}
<1>5. K # {} /\ K \in SUBSET (1..Len(ls))
  BY <1>1, <1>4 DEF UpTo
<1>6. PICK x \in K : \A y \in K : y <= x
  <2> HIDE DEF K
  <2> QED BY <1>1, <1>5, GreatestPlace
<1> DEFINE Last(k) == \A j \in DOMAIN ls : \/ ls[j].version < ls[k].version
                                           \/ ls[j].version = ls[k].version /\ j <= k
           c == CHOOSE k \in DOMAIN ls : Last(k)
<1>7. Last(x)
  BY <1>2, <1>6
<1>8. Kn!Current(ls) = ls[c]
  BY DEF Kn!Current
<1>9. c \in DOMAIN ls /\ Last(c)
  <2> HIDE DEF Last
  <2> QED BY <1>6, <1>7
<1> HIDE DEF c
<1>10. ls[c].version = m
  BY <1>2, <1>6, <1>9
<1> QED BY <1>8, <1>9, <1>10

\* rank: every entry is ranked once, behind the ones that outrank it.
LEMMA RankedInOrder ==
    ASSUME NEW G \in SUBSET BrainEntries, IsFiniteSet(G), \A e, f \in G : e.id = f.id => e = f,
           Numbers \subseteq Nat, Score \in [Bodies -> Nat]
    PROVE  /\ Kn!Ranked(G) \in Seq(G)
           /\ \A k \in DOMAIN Kn!Ranked(G) : \A f \in G :
                 Kn!Outranks(f, Kn!Ranked(G)[k]) => \E j \in 1..(k - 1) : Kn!Ranked(G)[j] = f
<1> DEFINE above(e) == {f \in G : Kn!Outranks(f, e)}
           n == Cardinality(G)
           g == [e \in G |-> Cardinality(above(e)) + 1]
<1>1. n \in Nat
  BY FS_CardinalityType
<1>2. ASSUME NEW e \in G PROVE e.id \in Nat /\ Score[e.body] \in Nat
  BY DEF BrainEntries
<1>3. ASSUME NEW e \in G PROVE ~Kn!Outranks(e, e)
  BY <1>2 DEF Kn!Outranks
<1>4. ASSUME NEW e \in G, NEW f \in G, NEW h \in G, Kn!Outranks(e, f), Kn!Outranks(f, h) PROVE Kn!Outranks(e, h)
  <2>1. e.id \in Nat /\ Score[e.body] \in Nat /\ f.id \in Nat /\ Score[f.body] \in Nat /\ h.id \in Nat /\ Score[h.body] \in Nat
    BY <1>2
  <2> QED BY <1>4, <2>1 DEF Kn!Outranks
<1>5. ASSUME NEW e \in G, NEW f \in G, e # f PROVE Kn!Outranks(e, f) \/ Kn!Outranks(f, e)
  <2>1. e.id \in Nat /\ Score[e.body] \in Nat /\ f.id \in Nat /\ Score[f.body] \in Nat /\ e.id # f.id
    BY <1>2, <1>5
  <2> QED BY <2>1 DEF Kn!Outranks
<1>6. ASSUME NEW e \in G PROVE above(e) \in SUBSET G /\ e \notin above(e)
  BY <1>3
<1>7. ASSUME NEW e \in G, NEW f \in G, Kn!Outranks(e, f)
      PROVE  above(e) \in SUBSET above(f) /\ e \in above(f)
  BY <1>4, <1>7
<1> HIDE DEF above
<1>8. ASSUME NEW e \in G PROVE IsFiniteSet(above(e)) /\ Cardinality(above(e)) \in Nat /\ Cardinality(above(e)) < n
  <2>1. IsFiniteSet(above(e)) /\ Cardinality(above(e)) <= Cardinality(G) /\ (Cardinality(G) = Cardinality(above(e)) => G = above(e))
    BY <1>6, FS_Subset
  <2>2. Cardinality(above(e)) \in Nat
    BY <2>1, FS_CardinalityType
  <2>3. G # above(e)
    BY <1>6
  <2> QED BY <1>1, <2>1, <2>2, <2>3
<1>9. ASSUME NEW e \in G, NEW f \in G, Kn!Outranks(e, f) PROVE Cardinality(above(e)) < Cardinality(above(f))
  <2>1. Cardinality(above(e)) <= Cardinality(above(f)) /\ (Cardinality(above(f)) = Cardinality(above(e)) => above(f) = above(e))
    BY <1>7, <1>8, <1>9, FS_Subset
  <2>2. above(f) # above(e)
    BY <1>6, <1>7, <1>9
  <2> QED BY <1>8, <2>1, <2>2
<1>10. ASSUME NEW e \in G, NEW f \in G, Cardinality(above(e)) = Cardinality(above(f)) PROVE e = f
  <2>1. ~Kn!Outranks(e, f) /\ ~Kn!Outranks(f, e)
    BY <1>8, <1>9, <1>10
  <2> QED BY <1>5, <2>1
<1>11. g \in Injection(G, 1..n)
  <2>1. g \in [G -> 1..n]
    BY <1>1, <1>8
  <2>2. ASSUME NEW e \in G, NEW f \in G, g[e] = g[f] PROVE e = f
    BY <1>8, <1>10, <2>2
  <2> QED BY <2>1, <2>2 DEF Injection, IsInjective
<1>12. IsFiniteSet(1..n) /\ Cardinality(1..n) = n
  BY <1>1, FS_Interval
<1>13. g \in Surjection(G, 1..n)
  BY <1>11, <1>12, FS_Injection
<1> DEFINE R == Kn!Ranked(G)
<1>14. DOMAIN R = 1..n /\ \A k \in 1..n : R[k] = CHOOSE e \in G : Cardinality(above(e)) = k - 1
  BY BrainCardinality DEF Kn!Ranked, above
<1> HIDE DEF R
<1>15. ASSUME NEW k \in 1..n PROVE R[k] \in G /\ Cardinality(above(R[k])) = k - 1
  <2>1. PICK e \in G : g[e] = k
    BY <1>13 DEF Surjection
  <2>2. Cardinality(above(e)) = k - 1
    BY <1>8, <2>1
  <2> QED BY <1>14, <2>2
<1>16. R \in Seq(G)
  <2>1. R \in [1..n -> G]
    <3>1. R = [k \in 1..n |-> R[k]]
      BY <1>14 DEF R, Kn!Ranked
    <3> QED BY <1>15, <3>1
  <2> QED BY <1>1, <2>1, IsASeq
<1>17. ASSUME NEW k \in DOMAIN R, NEW f \in G, Kn!Outranks(f, R[k]) PROVE \E j \in 1..(k - 1) : R[j] = f
  <2> DEFINE j == Cardinality(above(f)) + 1
  <2>1. k \in 1..n /\ R[k] \in G /\ Cardinality(above(R[k])) = k - 1
    BY <1>14, <1>15
  <2>2. Cardinality(above(f)) < k - 1 /\ Cardinality(above(f)) \in Nat
    BY <1>8, <1>9, <1>17, <2>1
  <2>3. j \in 1..(k - 1) /\ j \in 1..n
    BY <1>1, <2>1, <2>2
  <2>4. R[j] \in G /\ Cardinality(above(R[j])) = Cardinality(above(f))
    BY <1>15, <2>2, <2>3
  <2>5. R[j] = f
    BY <1>10, <2>4
  <2> QED BY <2>3, <2>5
<1> QED BY <1>16, <1>17 DEF R

\* The budget takes a prefix that is within both budgets, unless it is one entry or none.
LEMMA BudgetTakes ==
    ASSUME NEW G, NEW s \in Seq(G)
    PROVE  \E M \in 0..Len(s) : /\ Kn!Budget(s) = SubSeq(s, 1, M)
                                /\ M > 1 => M <= MaxEntries /\ Kn!Bytes(SubSeq(s, 1, M)) <= MaxBytes
<1> DEFINE A == {k \in 0..Len(s) : k <= MaxEntries /\ Kn!Bytes(SubSeq(s, 1, k)) <= MaxBytes}
           one == IF s = <<>> THEN 0 ELSE 1
           B == A \cup {one}
           M == Kn!Max(B)
           T == {k + 1 : k \in B}
<1>1. Len(s) \in Nat /\ one \in 0..Len(s) /\ one <= 1
  BY EmptySeq, LenProperties
<1>2. A \in SUBSET (0..Len(s)) /\ one \in B
  OBVIOUS
<1>3. Kn!Budget(s) = SubSeq(s, 1, M)
  BY DEF Kn!Budget
<1> HIDE DEF A, one
<1>4. B \in SUBSET (0..Len(s)) /\ \A k \in B : k \in Nat
  BY <1>1, <1>2
<1>5. T \in SUBSET (1..(Len(s) + 1)) /\ T # {} /\ Len(s) + 1 \in Nat
  BY <1>1, <1>2, <1>4
<1>6. PICK x \in T : \A y \in T : y <= x
  BY <1>5, GreatestPlace
<1>7. PICK b \in B : x = b + 1
  BY <1>6
<1>8. \A y \in B : b >= y
  <2> SUFFICES ASSUME NEW y \in B PROVE b >= y
    OBVIOUS
  <2>1. y + 1 \in T /\ y \in Nat /\ b \in Nat
    BY <1>4
  <2>2. y + 1 <= b + 1
    BY <1>6, <1>7, <2>1
  <2> QED BY <2>1, <2>2
<1> HIDE DEF B, T
<1>9. M \in B
  BY <1>7, <1>8 DEF Kn!Max
<1> HIDE DEF M
<1>10. M \in 0..Len(s) /\ (M > 1 => M \in A)
  BY <1>1, <1>4, <1>9 DEF B
<1>11. M \in A => M <= MaxEntries /\ Kn!Bytes(SubSeq(s, 1, M)) <= MaxBytes
  BY DEF A
<1> QED BY <1>3, <1>10, <1>11

\* Update: the next version is a record of the same id, one above the current, active only if the
\* current one is or it was asked for.
LEMMA NextVersionEntry ==
    ASSUME NEW i \in Numbers, FileOf(i), log[i] # <<>>, \A k \in DOMAIN log[i] : log[i][k] # CutShort,
           NEW m \in Nat, UpTo(log[i], m), NEW st \in Kn!Statuses \cup {None}, NEW b \in Bodies \cup {None},
           NEW e, e = Kn!NextVersion(log[i], st, b)
    PROVE  e \in BrainEntries /\ e.id = i /\ e.version = m + 1 /\ (e.status = "active" => st = "active" \/ i \in approved)
<1> DEFINE ls  == log[i]
           cur == Kn!Current(ls)
           s   == IF st = None THEN cur.status ELSE st
           d   == IF b = None THEN cur.body ELSE b
           o   == [cur EXCEPT !.version = cur.version + 1]
           p   == [o EXCEPT !.status = s]
           q   == [p EXCEPT !.body = d]
<1>1. ls \in Seq(BrainEntries)
  <2>1. ls \in Seq(BrainEntries \cup {CutShort}) /\ DOMAIN ls = 1..Len(ls) /\ Len(ls) \in Nat
    BY DEF FileOf
  <2>2. \A k \in DOMAIN ls : ls[k] \in BrainEntries
    BY DEF FileOf, BrainEntry
  <2>3. ls \in [1..Len(ls) -> BrainEntries]
    BY <2>1, <2>2
  <2> QED BY <2>1, <2>3, IsASeq
<1>2. PICK k \in DOMAIN ls : cur = ls[k] /\ ls[k].version = m
  BY <1>1, CurrentIsNewest
<1>3. cur \in BrainEntries /\ cur.id = i /\ cur.version = m /\ (cur.status = "active" => i \in approved)
  BY <1>2 DEF FileOf, BrainEntry
<1> HIDE DEF cur
<1>4. s \in Kn!Statuses /\ d \in Bodies /\ (s = "active" => st = "active" \/ i \in approved)
  BY <1>3 DEF BrainEntries
<1>5. e = q
  BY <1>3 DEF Kn!NextVersion, cur, BrainEntries
<1> HIDE DEF s, d
<1>6. o \in BrainEntries /\ o.id = i /\ o.version = m + 1
  BY <1>3 DEF BrainEntries
<1> HIDE DEF o
<1>7. p \in BrainEntries /\ p.id = i /\ p.version = m + 1 /\ p.status = s
  BY <1>4, <1>6 DEF BrainEntries
<1> HIDE DEF p
<1>8. q \in BrainEntries /\ q.id = i /\ q.version = m + 1 /\ q.status = s
  BY <1>4, <1>7 DEF BrainEntries
<1> HIDE DEF q
<1> QED BY <1>4, <1>5, <1>8

\* A prompt stays sound when the selection and it stay and more is approved.
LEMMA PromptKept ==
    ASSUME Kn!PromptSound, sel' = sel, prompt' = prompt, approved \subseteq approved'
    PROVE  Kn!PromptSound'
BY DEF Kn!PromptSound

\* Create and Update: a process is about to append the next version of the file it read.
LEMMA CommandGood ==
    ASSUME KnowledgeInv, NEW p \in Clients, approved \subseteq approved',
           log' = log, open' = open, sel' = sel, prompt' = prompt,
           \E e : /\ e \in BrainEntries /\ (e.status = "active" => e.id \in approved')
                  /\ \A m \in Nat : UpTo(log[e.id], m) => e.version <= m + 1
                  /\ pend' = [pend EXCEPT ![p] = <<e>>]
    PROVE  KnowledgeInv'
<1> PICK e : /\ e \in BrainEntries /\ (e.status = "active" => e.id \in approved')
             /\ \A m \in Nat : UpTo(log[e.id], m) => e.version <= m + 1
             /\ pend' = [pend EXCEPT ![p] = <<e>>]
  OBVIOUS
<1>1. DOMAIN pend' = Clients /\ pend'[p] = <<e>> /\ \A q \in Clients : q # p => pend'[q] = pend[q]
  BY DEF KnowledgeInv
<1>2. pend'[p][1] = e
  BY <1>1
<1>3. ASSUME NEW f, BrainEntry(f) PROVE BrainEntry(f)'
  BY <1>3 DEF BrainEntry
<1>4. \A q \in Clients : pend'[q] # <<>> => pend'[q] = <<pend'[q][1]>> /\ BrainEntry(pend[q][1])'
  <2> SUFFICES ASSUME NEW q \in Clients, pend'[q] # <<>> PROVE pend'[q] = <<pend'[q][1]>> /\ BrainEntry(pend[q][1])'
    OBVIOUS
  <2>1. CASE q = p
    BY <1>1, <1>2, <2>1 DEF BrainEntry
  <2>2. CASE q # p
    <3>1. pend'[q] = pend[q] /\ pend[q] = <<pend[q][1]>> /\ BrainEntry(pend[q][1])
      BY <1>1, <2>2 DEF KnowledgeInv
    <3> QED BY <1>3, <3>1 DEF BrainEntry
  <2> QED BY <2>1, <2>2
<1>5. ASSUME NEW i \in Numbers PROVE FileOf(i)'
  <2>1. /\ log'[i] = log[i] /\ log[i] \in Seq(BrainEntries \cup {CutShort})
        /\ \A k \in DOMAIN log[i] : log[i][k] # CutShort => BrainEntry(log[i][k]) /\ log[i][k].id = i
        /\ i \in open => log[i] # <<>>
        /\ (\A k \in DOMAIN log[i] : log[i][k] # CutShort) =>
              \E m \in Nat : /\ UpTo(log[i], m)
                             /\ \A q \in Clients : pend[q] # <<>> /\ pend[q][1].id = i => pend[q][1].version <= m + 1
    BY DEF KnowledgeInv, FileOf
  <2>2. \A k \in DOMAIN log'[i] : log'[i][k] # CutShort => BrainEntry(log[i][k])' /\ log'[i][k].id = i
    BY <2>1 DEF BrainEntry
  <2>3. ASSUME \A k \in DOMAIN log'[i] : log'[i][k] # CutShort
        PROVE  \E m \in Nat : /\ UpTo(log'[i], m)
                              /\ \A q \in Clients : pend'[q] # <<>> /\ pend'[q][1].id = i => pend'[q][1].version <= m + 1
    <3>1. PICK m \in Nat : /\ UpTo(log[i], m)
                           /\ \A q \in Clients : pend[q] # <<>> /\ pend[q][1].id = i => pend[q][1].version <= m + 1
      BY <2>1, <2>3
    <3>2. UpTo(log'[i], m)
      BY <2>1, <3>1
    <3>3. \A q \in Clients : pend'[q] # <<>> /\ pend'[q][1].id = i => pend'[q][1].version <= m + 1
      BY <1>1, <1>2, <3>1
    <3> QED BY <3>2, <3>3
  <2>4. log'[i] \in Seq(BrainEntries \cup {CutShort}) /\ (i \in open' => log'[i] # <<>>)
    BY <2>1
  <2> QED BY <2>2, <2>3, <2>4 DEF FileOf, UpTo
<1>6. Selection'
  <2>1. \A f \in sel.got : BrainEntry(f)'
    BY <1>3 DEF KnowledgeInv, Selection
  <2> QED BY <2>1 DEF KnowledgeInv, Selection, BrainEntry
<1>7. Kn!PromptSound'
  BY PromptKept DEF KnowledgeInv
<1> QED BY <1>1, <1>4, <1>5, <1>6, <1>7 DEF KnowledgeInv

\* What an append makes of the lines: a torn one, or the record behind the others, of which the
\* versions go on.
LEMMA AppendedLines ==
    ASSUME NEW i \in Numbers, FileOf(i), NEW e \in BrainEntries, e.id = i, e.status = "active" => i \in approved,
           NEW line \in {e, CutShort}, CutShort \notin BrainEntries
    PROVE  LET ls == Kn!Appended(i, line) IN
           /\ ls \in Seq(BrainEntries \cup {CutShort}) /\ ls # <<>>
           /\ \A k \in DOMAIN ls : ls[k] # CutShort => BrainEntry(ls[k]) /\ ls[k].id = i
           /\ (\A k \in DOMAIN ls : ls[k] # CutShort) =>
                 /\ \A k \in DOMAIN log[i] : log[i][k] # CutShort
                 /\ \A m \in Nat : UpTo(log[i], m) /\ e.version <= m + 1 => \E n \in Nat : m <= n /\ UpTo(ls, n)
<1> DEFINE S == BrainEntries \cup {CutShort}
           old == log[i]
           ls == Kn!Appended(i, line)
<1>1. /\ old \in Seq(S) /\ \A k \in DOMAIN old : old[k] # CutShort => BrainEntry(old[k]) /\ old[k].id = i
      /\ i \in open => old # <<>>
  BY DEF FileOf
<1>2. DOMAIN old = 1..Len(old) /\ Len(old) \in Nat
  BY <1>1
<1>3. CASE i \in open
  <2>1. ls = [old EXCEPT ![Len(old)] = CutShort]
    BY <1>3 DEF Kn!Appended
  <2>2. Len(old) \in 1..Len(old)
    BY <1>1, <1>2, <1>3, EmptySeq
  <2>3. /\ ls \in Seq(S) /\ Len(ls) = Len(old) /\ \A k \in 1..Len(old) : ls[k] = IF k = Len(old) THEN CutShort ELSE old[k]
    <3> HIDE DEF S, old
    <3>1. CutShort \in S
      BY DEF S
    <3> HIDE DEF ls
    <3> QED BY <1>1, <2>1, <2>2, <3>1, ExceptSeq
  <2> HIDE DEF ls, old
  <2>4. DOMAIN ls = 1..Len(old) /\ ls # <<>>
    BY <2>2, <2>3
  <2>5. \A k \in DOMAIN ls : ls[k] # CutShort => BrainEntry(ls[k]) /\ ls[k].id = i
    BY <1>1, <1>2, <2>3, <2>4
  <2>6. ~\A k \in DOMAIN ls : ls[k] # CutShort
    BY <2>2, <2>3, <2>4
  <2> QED BY <2>3, <2>4, <2>5, <2>6 DEF ls
<1>4. CASE i \notin open
  <2> DEFINE z == Len(old) + 1
  <2>1. ls = Append(old, line) /\ line \in S
    BY <1>4 DEF Kn!Appended
  <2>2. /\ ls \in Seq(S) /\ DOMAIN ls = 1..z /\ ls[z] = line /\ z \in DOMAIN ls
        /\ \A k \in 1..Len(old) : ls[k] = old[k]
    <3> HIDE DEF S, old, ls
    <3> QED BY <1>1, <1>2, <2>1, AppendProperties
  <2> HIDE DEF ls
  <2>3. ls # <<>> /\ \A k \in DOMAIN ls : k = z \/ k \in DOMAIN old
    BY <1>2, <2>2
  <2>4. \A k \in DOMAIN old : ls[k] = old[k] /\ k \in DOMAIN ls
    BY <1>2, <2>2
  <2> HIDE DEF old, z
  <2>5. \A k \in DOMAIN ls : ls[k] # CutShort => BrainEntry(ls[k]) /\ ls[k].id = i
    BY <1>1, <2>2, <2>3, <2>4 DEF BrainEntry
  <2>6. ASSUME \A k \in DOMAIN ls : ls[k] # CutShort
        PROVE  /\ \A k \in DOMAIN old : old[k] # CutShort
               /\ \A m \in Nat : UpTo(old, m) /\ e.version <= m + 1 => \E n \in Nat : m <= n /\ UpTo(ls, n)
    <3>1. line = e /\ ls[z] = e /\ e.version \in Nat
      BY <2>2, <2>6 DEF BrainEntries
    <3>2. ASSUME NEW m \in Nat, UpTo(old, m), e.version <= m + 1 PROVE \E n \in Nat : m <= n /\ UpTo(ls, n)
      <4>0. \A k \in DOMAIN old : old[k].version \in Nat
        BY <1>1, <2>4, <2>6 DEF BrainEntry, BrainEntries
      <4>1. CASE e.version = m + 1
        <5>1. \A k \in DOMAIN ls : ls[k].version <= m + 1
          BY <2>3, <2>4, <3>1, <3>2, <4>0, <4>1 DEF UpTo
        <5>2. \A v \in 1..(m + 1) : v = m + 1 \/ v \in 1..m
          OBVIOUS
        <5>3. \A v \in 1..(m + 1) : \E k \in DOMAIN ls : ls[k].version = v
          BY <2>2, <2>4, <3>1, <3>2, <4>1, <5>2 DEF UpTo
        <5>4. m + 1 \in Nat /\ m <= m + 1 /\ UpTo(ls, m + 1)
          BY <5>1, <5>3 DEF UpTo
        <5> QED BY <5>4
      <4>2. CASE e.version <= m
        <5>1. UpTo(ls, m)
          BY <2>3, <2>4, <3>1, <3>2, <4>2 DEF UpTo
        <5> QED BY <5>1
      <4> QED BY <3>1, <3>2, <4>1, <4>2
    <3> QED BY <2>4, <2>6, <3>2
  <2> QED BY <2>2, <2>3, <2>5, <2>6 DEF ls, old
<1> QED BY <1>3, <1>4

\* An append, whole or cut short, keeps the invariant.
LEMMA AppendGood ==
    ASSUME KnowledgeInv, CutShort \notin BrainEntries, NEW p \in Clients, pend[p] # <<>>,
           NEW line \in {pend[p][1], CutShort},
           log' = [log EXCEPT ![pend[p][1].id] = Kn!Appended(pend[p][1].id, line)],
           open' \in {open \cup {pend[p][1].id}, open \ {pend[p][1].id}},
           pend' = [pend EXCEPT ![p] = <<>>],
           sel' = sel, prompt' = prompt, approved' = approved
    PROVE  KnowledgeInv'
<1>a. PICK e : e = pend[p][1]
  OBVIOUS
<1>b. PICK i : i = e.id
  OBVIOUS
<1>1. e \in BrainEntries /\ (e.status = "active" => i \in approved)
  BY <1>a, <1>b DEF KnowledgeInv, BrainEntry
<1>2. i \in Numbers
  BY <1>1, <1>b DEF BrainEntries
<1>3. /\ DOMAIN log' = Numbers /\ log'[i] = Kn!Appended(i, line) /\ \A j \in Numbers : j # i => log'[j] = log[j]
      /\ DOMAIN pend' = Clients /\ pend'[p] = <<>> /\ \A q \in Clients : q # p => pend'[q] = pend[q]
      /\ \A j \in open' : j = i \/ j \in open
  BY <1>a, <1>b, <1>2 DEF KnowledgeInv
<1>4. FileOf(i)
  BY <1>2 DEF KnowledgeInv
<1> DEFINE ls == Kn!Appended(i, line)
<1>5. /\ ls \in Seq(BrainEntries \cup {CutShort}) /\ ls # <<>>
      /\ \A k \in DOMAIN ls : ls[k] # CutShort => BrainEntry(ls[k]) /\ ls[k].id = i
      /\ (\A k \in DOMAIN ls : ls[k] # CutShort) =>
            /\ \A k \in DOMAIN log[i] : log[i][k] # CutShort
            /\ \A m \in Nat : UpTo(log[i], m) /\ e.version <= m + 1 => \E n \in Nat : m <= n /\ UpTo(ls, n)
  <2>1. e.id = i /\ line \in {e, CutShort}
    BY <1>a, <1>b
  <2> QED BY <1>1, <1>2, <1>4, <2>1, AppendedLines
<1>6. ASSUME NEW f, BrainEntry(f) PROVE BrainEntry(f)'
  BY <1>6 DEF BrainEntry
<1>7. FileOf(i)'
  <2>1. log'[i] = ls
    BY <1>3
  <2> HIDE DEF ls
  <2>2. ASSUME \A k \in DOMAIN log'[i] : log'[i][k] # CutShort
        PROVE  \E n \in Nat : /\ UpTo(log'[i], n)
                              /\ \A q \in Clients : pend'[q] # <<>> /\ pend'[q][1].id = i => pend'[q][1].version <= n + 1
    <3>1. \A k \in DOMAIN log[i] : log[i][k] # CutShort
      BY <1>5, <2>1, <2>2
    <3>2. PICK m \in Nat : /\ UpTo(log[i], m)
                           /\ \A q \in Clients : pend[q] # <<>> /\ pend[q][1].id = i => pend[q][1].version <= m + 1
      BY <1>4, <3>1 DEF FileOf
    <3>3. e.version <= m + 1
      BY <1>a, <1>b, <3>2
    <3>4. PICK n \in Nat : m <= n /\ UpTo(ls, n)
      BY <1>5, <2>1, <2>2, <3>2, <3>3
    <3>5. ASSUME NEW q \in Clients, pend'[q] # <<>>, pend'[q][1].id = i PROVE pend'[q][1].version <= n + 1
      <4>1. q # p /\ pend'[q] = pend[q]
        BY <1>3, <3>5
      <4>2. pend[q][1].version <= m + 1 /\ pend[q][1].version \in Nat
        BY <3>2, <3>5, <4>1 DEF KnowledgeInv, BrainEntry, BrainEntries
      <4> QED BY <3>4, <4>1, <4>2
    <3> QED BY <2>1, <3>4, <3>5
  <2>3. \A k \in DOMAIN log'[i] : log'[i][k] # CutShort => BrainEntry(log[i][k])' /\ log'[i][k].id = i
    BY <1>5, <2>1 DEF BrainEntry
  <2>4. (log[i] \in Seq(BrainEntries \cup {CutShort}))' /\ (i \in open' => log'[i] # <<>>)
    BY <1>5, <2>1
  <2> QED BY <2>2, <2>3, <2>4 DEF FileOf, UpTo
<1>8. ASSUME NEW j \in Numbers, j # i PROVE FileOf(j)'
  <2>1. FileOf(j) /\ log'[j] = log[j] /\ (j \in open' => j \in open)
    BY <1>3, <1>8 DEF KnowledgeInv
  <2>2. ASSUME \A k \in DOMAIN log'[j] : log'[j][k] # CutShort
        PROVE  \E n \in Nat : /\ UpTo(log'[j], n)
                              /\ \A q \in Clients : pend'[q] # <<>> /\ pend'[q][1].id = j => pend'[q][1].version <= n + 1
    <3>1. PICK m \in Nat : /\ UpTo(log[j], m)
                           /\ \A q \in Clients : pend[q] # <<>> /\ pend[q][1].id = j => pend[q][1].version <= m + 1
      BY <2>1, <2>2 DEF FileOf
    <3>2. \A q \in Clients : pend'[q] # <<>> /\ pend'[q][1].id = j => pend'[q][1].version <= m + 1
      BY <1>3, <3>1
    <3> QED BY <2>1, <3>1, <3>2
  <2>3. \A k \in DOMAIN log'[j] : log'[j][k] # CutShort => BrainEntry(log[j][k])' /\ log'[j][k].id = j
    BY <2>1 DEF BrainEntry, FileOf
  <2>4. (log[j] \in Seq(BrainEntries \cup {CutShort}))' /\ (j \in open' => log'[j] # <<>>)
    BY <2>1 DEF FileOf
  <2> QED BY <2>2, <2>3, <2>4 DEF FileOf, UpTo
<1>9. \A q \in Clients : pend'[q] # <<>> => pend'[q] = <<pend'[q][1]>> /\ BrainEntry(pend[q][1])'
  BY <1>3 DEF KnowledgeInv, BrainEntry
<1>10. Selection'
  <2>1. \A j \in sel.todo : log'[j] # <<>>
    BY <1>3, <1>5 DEF KnowledgeInv, Selection
  <2>2. \A f \in sel.got : BrainEntry(f)'
    BY <1>6 DEF KnowledgeInv, Selection
  <2> QED BY <2>1, <2>2 DEF KnowledgeInv, Selection
<1>11. Kn!PromptSound'
  BY PromptKept DEF KnowledgeInv
<1> QED BY <1>3, <1>7, <1>8, <1>9, <1>10, <1>11 DEF KnowledgeInv

\* The prompt a selection ends with is sound.
LEMMA PromptTaken ==
    ASSUME Selection, Numbers \subseteq Nat, Score \in [Bodies -> Nat],
           NEW P, P = Kn!Budget(Kn!Ranked(Kn!Eligible(sel.got)))
    PROVE  /\ \A k \in DOMAIN P : P[k].status = "active" /\ P[k].id \in approved
           /\ Len(P) > 1 => Len(P) <= MaxEntries /\ Kn!Bytes(P) <= MaxBytes
           /\ \A k \in DOMAIN P : \A e \in Kn!Eligible(sel.got) : Kn!Outranks(e, P[k]) => e \in Kn!Range(P)
<1> DEFINE G == Kn!Eligible(sel.got)
           R == Kn!Ranked(G)
<1>1. /\ G \in SUBSET BrainEntries /\ IsFiniteSet(G) /\ \A e, f \in G : e.id = f.id => e = f
      /\ \A e \in G : e.status = "active" /\ e.id \in approved
  <2>1. sel.got \in SUBSET BrainEntries /\ IsFiniteSet(sel.got)
    BY DEF Selection
  <2>2. G \in SUBSET sel.got /\ \A e \in G : e.status = "active"
    BY DEF Kn!Eligible
  <2>3. IsFiniteSet(G)
    BY <2>1, <2>2, FS_Subset
  <2> HIDE DEF G
  <2> QED BY <2>1, <2>2, <2>3 DEF Selection, BrainEntry
<1> HIDE DEF G
<1>2. /\ R \in Seq(G)
      /\ \A k \in DOMAIN R : \A f \in G : Kn!Outranks(f, R[k]) => \E j \in 1..(k - 1) : R[j] = f
  BY <1>1, RankedInOrder
<1>3. P = Kn!Budget(R)
  BY DEF G
<1> HIDE DEF R
<1>4. PICK M \in 0..Len(R) : /\ Kn!Budget(R) = SubSeq(R, 1, M)
                             /\ M > 1 => M <= MaxEntries /\ Kn!Bytes(SubSeq(R, 1, M)) <= MaxBytes
  BY <1>2, BudgetTakes
<1>5. Len(R) \in Nat /\ DOMAIN R = 1..Len(R) /\ M \in Nat /\ \A k \in 1..M : R[k] \in G /\ k \in DOMAIN R
  BY <1>2, <1>4
<1>6. P \in Seq(G) /\ Len(P) = M /\ DOMAIN P = 1..M /\ \A k \in 1..M : P[k] = R[k]
  <2>1. /\ SubSeq(R, 1, M) \in Seq(G)
        /\ Len(SubSeq(R, 1, M)) = IF 1 <= M THEN M - 1 + 1 ELSE 0
        /\ \A k \in 1..(M - 1 + 1) : SubSeq(R, 1, M)[k] = R[1 + k - 1]
    BY <1>5, SubSeqProperties
  <2>2. P \in Seq(G) /\ Len(P) = M
    BY <1>3, <1>4, <1>5, <2>1
  <2>3. DOMAIN P = 1..M
    BY <2>2
  <2>4. \A k \in 1..M : k \in 1..(M - 1 + 1) /\ 1 + k - 1 = k
    BY <1>5
  <2> QED BY <1>3, <1>4, <2>1, <2>2, <2>3, <2>4
<1>7. \A k \in DOMAIN P : P[k].status = "active" /\ P[k].id \in approved
  BY <1>1, <1>5, <1>6
<1>8. Len(P) > 1 => Len(P) <= MaxEntries /\ Kn!Bytes(P) <= MaxBytes
  BY <1>3, <1>4, <1>6
<1>9. ASSUME NEW k \in DOMAIN P, NEW e \in G, Kn!Outranks(e, P[k]) PROVE e \in Kn!Range(P)
  <2>1. k \in 1..M /\ k \in DOMAIN R /\ P[k] = R[k]
    BY <1>5, <1>6
  <2>2. PICK j \in 1..(k - 1) : R[j] = e
    BY <1>2, <1>9, <2>1
  <2>3. j \in 1..M
    BY <1>5, <2>1
  <2>4. j \in DOMAIN P /\ P[j] = e
    BY <1>6, <2>2, <2>3
  <2> QED BY <2>4 DEF Kn!Range
<1> QED BY <1>7, <1>8, <1>9 DEF G

\* Every step of the Brain keeps the invariant.
LEMMA KnowledgeStep ==
    ASSUME Numbers \subseteq Nat, Score \in [Bodies -> Nat], CutShort \notin BrainEntries,
           KnowledgeInv, [Kn!Next]_Kn!vars
    PROVE  KnowledgeInv'
<1> USE DEF Kn!Nothing
<1>0. /\ DOMAIN log = Numbers /\ \A i \in Numbers : FileOf(i)
      /\ DOMAIN pend = Clients /\ \A p \in Clients : pend[p] # <<>> => pend[p] = <<pend[p][1]>> /\ BrainEntry(pend[p][1])
      /\ Selection /\ Kn!PromptSound
  BY DEF KnowledgeInv
<1>r. ASSUME NEW i \in Numbers PROVE Kn!Readable(log[i]) <=> \A k \in DOMAIN log[i] : log[i][k] # CutShort
  BY DEF Kn!Readable, Kn!Range
<1>1. ASSUME NEW p \in Clients, Kn!Command(p) PROVE KnowledgeInv'
  <2>1. PICK i \in Numbers : Kn!Create(p, i) \/ Kn!Update(p, i)
    BY <1>1 DEF Kn!Command
  <2>2. log' = log /\ open' = open /\ sel' = sel /\ prompt' = prompt
    BY <1>1 DEF Kn!Command
  <2>3. CASE Kn!Create(p, i)
    <3>1. PICK st \in Kn!Statuses, b \in Bodies :
             /\ pend' = [pend EXCEPT ![p] = <<[id |-> i, version |-> 1, status |-> st, body |-> b]>>]
             /\ approved' = IF st = "active" THEN approved \cup {i} ELSE approved
      BY <2>3 DEF Kn!Create
    <3> DEFINE e == [id |-> i, version |-> 1, status |-> st, body |-> b]
    <3>2. e \in BrainEntries /\ e.id = i /\ e.version = 1 /\ e.status = st
      BY DEF BrainEntries
    <3>3. approved \subseteq approved' /\ (st = "active" => i \in approved')
      BY <3>1
    <3>4. pend' = [pend EXCEPT ![p] = <<e>>]
      BY <3>1
    <3> HIDE DEF e
    <3>5. \A m \in Nat : e.version <= m + 1
      BY <3>2
    <3>6. \E f : /\ f \in BrainEntries /\ (f.status = "active" => f.id \in approved')
                 /\ \A m \in Nat : UpTo(log[f.id], m) => f.version <= m + 1
                 /\ pend' = [pend EXCEPT ![p] = <<f>>]
      BY <3>2, <3>3, <3>4, <3>5
    <3> QED BY <2>2, <3>3, <3>6, CommandGood
  <2>4. CASE Kn!Update(p, i)
    <3>1. PICK st \in Kn!Statuses \cup {None}, b \in Bodies \cup {None} :
             /\ pend' = [pend EXCEPT ![p] = <<Kn!NextVersion(log[i], st, b)>>]
             /\ approved' = IF st = "active" THEN approved \cup {i} ELSE approved
      BY <2>4 DEF Kn!Update
    <3>2. FileOf(i) /\ log[i] # <<>> /\ \A k \in DOMAIN log[i] : log[i][k] # CutShort
      BY <1>0, <1>r, <2>4 DEF Kn!Update
    <3>3. PICK m \in Nat : UpTo(log[i], m)
      BY <3>2 DEF FileOf
    <3>4. PICK e : e = Kn!NextVersion(log[i], st, b)
      OBVIOUS
    <3>5. e \in BrainEntries /\ e.id = i /\ e.version = m + 1 /\ (e.status = "active" => st = "active" \/ i \in approved)
      BY <3>2, <3>3, <3>4, NextVersionEntry
    <3>6. approved \subseteq approved' /\ (st = "active" => i \in approved')
      BY <3>1
    <3>7. ASSUME NEW n \in Nat, UpTo(log[i], n) PROVE e.version <= n + 1
      <4>1. CASE m = 0
        BY <3>5, <4>1
      <4>2. CASE m # 0
        <5>1. m \in 1..m
          BY <4>2
        <5>2. PICK k \in DOMAIN log[i] : log[i][k].version = m
          BY <3>3, <5>1 DEF UpTo
        <5>3. m <= n
          BY <3>7, <5>2 DEF UpTo
        <5> QED BY <3>5, <5>3
      <4> QED BY <4>1, <4>2
    <3>8. \E f : /\ f \in BrainEntries /\ (f.status = "active" => f.id \in approved')
                 /\ \A n \in Nat : UpTo(log[f.id], n) => f.version <= n + 1
                 /\ pend' = [pend EXCEPT ![p] = <<f>>]
      BY <3>1, <3>4, <3>5, <3>6, <3>7
    <3> QED BY <2>2, <3>6, <3>8, CommandGood
  <2> QED BY <2>1, <2>3, <2>4
<1>2. ASSUME NEW p \in Clients, Kn!AppendLine(p) PROVE KnowledgeInv'
  <2>1. /\ pend[p] # <<>> /\ log' = [log EXCEPT ![pend[p][1].id] = Kn!Appended(pend[p][1].id, pend[p][1])]
        /\ open' = open \ {pend[p][1].id} /\ pend' = [pend EXCEPT ![p] = <<>>]
        /\ sel' = sel /\ prompt' = prompt /\ approved' = approved
    BY <1>2 DEF Kn!AppendLine
  <2>2. PICK line : line = pend[p][1]
    OBVIOUS
  <2>3. line \in {pend[p][1], CutShort} /\ log' = [log EXCEPT ![pend[p][1].id] = Kn!Appended(pend[p][1].id, line)]
    BY <2>1, <2>2
  <2> QED BY <2>1, <2>3, AppendGood
<1>3. ASSUME NEW p \in Clients, Kn!AppendFails(p) PROVE KnowledgeInv'
  <2>1. pend[p] # <<>> /\ pend' = [pend EXCEPT ![p] = <<>>] /\ sel' = sel /\ prompt' = prompt /\ approved' = approved
    BY <1>3 DEF Kn!AppendFails
  <2>2. CASE log' = log /\ open' = open
    <3>1. DOMAIN pend' = Clients /\ pend'[p] = <<>> /\ \A q \in Clients : q # p => pend'[q] = pend[q]
      BY <1>0, <2>1
    <3>2. ASSUME NEW i \in Numbers PROVE FileOf(i)'
      <4>1. FileOf(i) /\ log'[i] = log[i]
        BY <1>0, <2>2
      <4>2. ASSUME \A k \in DOMAIN log[i] : log[i][k] # CutShort
            PROVE  \E n \in Nat : /\ UpTo(log[i], n)
                                  /\ \A q \in Clients : pend'[q] # <<>> /\ pend'[q][1].id = i => pend'[q][1].version <= n + 1
        BY <3>1, <4>1, <4>2 DEF FileOf
      <4>3. \A k \in DOMAIN log'[i] : log'[i][k] # CutShort => BrainEntry(log[i][k])' /\ log'[i][k].id = i
        BY <2>1, <4>1 DEF BrainEntry, FileOf
      <4>4. (log[i] \in Seq(BrainEntries \cup {CutShort}))' /\ (i \in open' => log'[i] # <<>>)
        BY <2>2, <4>1 DEF FileOf
      <4>5. (\A k \in DOMAIN log[i] : log[i][k] # CutShort)' =>
              \E n \in Nat : /\ UpTo(log'[i], n)
                             /\ \A q \in Clients : pend'[q] # <<>> /\ pend'[q][1].id = i => pend'[q][1].version <= n + 1
        BY <4>1, <4>2
      <4> QED BY <4>3, <4>4, <4>5 DEF FileOf, UpTo
    <3>3. \A q \in Clients : pend'[q] # <<>> => pend'[q] = <<pend'[q][1]>> /\ BrainEntry(pend[q][1])'
      BY <1>0, <2>1, <3>1 DEF BrainEntry
    <3>4. Selection'
      BY <1>0, <2>1, <2>2 DEF Selection, BrainEntry
    <3>5. Kn!PromptSound'
      BY <1>0, <2>1, PromptKept
    <3> QED BY <1>0, <2>2, <3>1, <3>2, <3>3, <3>4, <3>5 DEF KnowledgeInv
  <2>3. ASSUME NEW line \in {pend[p][1], CutShort},
               log' = [log EXCEPT ![pend[p][1].id] = Kn!Appended(pend[p][1].id, line)], open' = open \cup {pend[p][1].id}
        PROVE  KnowledgeInv'
    BY <2>1, <2>3, AppendGood
  <2> QED BY <1>3, <2>2, <2>3 DEF Kn!AppendFails
<1>4. ASSUME log' = log, open' = open, pend' = pend, approved' = approved, Selection', Kn!PromptSound' PROVE KnowledgeInv'
  <2>1. ASSUME NEW i \in Numbers PROVE FileOf(i)'
    <3>1. FileOf(i)
      BY <1>0
    <3> QED BY <1>4, <3>1 DEF FileOf, BrainEntry, UpTo
  <2>2. \A q \in Clients : pend'[q] # <<>> => pend'[q] = <<pend'[q][1]>> /\ BrainEntry(pend[q][1])'
    BY <1>0, <1>4 DEF BrainEntry
  <2> QED BY <1>0, <1>4, <2>1, <2>2 DEF KnowledgeInv
<1>5. ASSUME prompt' = <<>> PROVE Kn!PromptSound'
  BY <1>5 DEF Kn!PromptSound
<1>6. CASE Kn!SelectIDs
  <2>1. /\ log' = log /\ open' = open /\ pend' = pend /\ approved' = approved
        /\ \/ prompt' = <<>> /\ sel' = sel
           \/ prompt' = prompt /\ sel' = [at |-> "read", todo |-> {i \in Numbers : log[i] # <<>>}, got |-> {}]
    BY <1>6 DEF Kn!SelectIDs
  <2>2. CASE prompt' = <<>> /\ sel' = sel
    <3>1. Selection'
      BY <1>0, <2>1, <2>2 DEF Selection, BrainEntry
    <3> QED BY <1>4, <1>5, <2>1, <2>2, <3>1
  <2>3. CASE prompt' = prompt /\ sel' = [at |-> "read", todo |-> {i \in Numbers : log[i] # <<>>}, got |-> {}]
    <3>1. Selection'
      BY <2>1, <2>3, FS_EmptySet DEF Selection
    <3>2. sel'.at = "read" /\ prompt' = prompt
      BY <2>3
    <3>3. Kn!PromptSound'
      BY <1>0, <2>1, <3>2 DEF Kn!PromptSound
    <3> QED BY <1>4, <2>1, <3>1, <3>3
  <2> QED BY <2>1, <2>2, <2>3
<1>7. CASE Kn!SelectGet
  <2> DEFINE i == CHOOSE x \in sel.todo : \A y \in sel.todo : x <= y
  <2>1. /\ log' = log /\ open' = open /\ pend' = pend /\ approved' = approved /\ sel.at = "read" /\ sel.todo # {}
        /\ IF Kn!Readable(log[i])
           THEN sel' = [sel EXCEPT !.todo = @ \ {i}, !.got = @ \cup {Kn!Current(log[i])}] /\ prompt' = prompt
           ELSE sel' = Kn!Idle /\ prompt' = <<>>
    BY <1>7 DEF Kn!SelectGet
  <2>2. i \in sel.todo /\ i \in Numbers /\ log[i] # <<>>
    <3>1. sel.todo \in SUBSET Nat /\ sel.todo \in SUBSET Numbers
      BY <1>0 DEF Selection
    <3>2. \E x \in sel.todo : \A y \in sel.todo : x <= y
      BY <2>1, <3>1, LeastNumber
    <3>3. i \in sel.todo
      BY <3>2
    <3> HIDE DEF i
    <3> QED BY <1>0, <3>1, <3>3 DEF Selection
  <2> HIDE DEF i
  <2>3. CASE ~Kn!Readable(log[i])
    <3>1. sel' = [at |-> "idle", todo |-> {}, got |-> {}] /\ prompt' = <<>>
      BY <2>1, <2>3 DEF Kn!Idle
    <3>2. Selection'
      BY <3>1, FS_EmptySet DEF Selection
    <3> QED BY <1>4, <1>5, <2>1, <3>1, <3>2
  <2>4. CASE Kn!Readable(log[i])
    <3> DEFINE c == Kn!Current(log[i])
    <3>1. \A k \in DOMAIN log[i] : log[i][k] # CutShort
      BY <1>r, <2>2, <2>4
    <3>2. BrainEntry(c) /\ c.id = i
      <4>1. FileOf(i)
        BY <1>0, <2>2
      <4>2. PICK m \in Nat : UpTo(log[i], m)
        BY <3>1, <4>1 DEF FileOf
      <4>3. log[i] \in Seq(BrainEntries)
        <5>1. log[i] \in Seq(BrainEntries \cup {CutShort}) /\ DOMAIN log[i] = 1..Len(log[i]) /\ Len(log[i]) \in Nat
          BY <4>1 DEF FileOf
        <5>2. \A k \in DOMAIN log[i] : log[i][k] \in BrainEntries
          BY <3>1, <4>1 DEF FileOf, BrainEntry
        <5>3. log[i] \in [1..Len(log[i]) -> BrainEntries]
          BY <5>1, <5>2
        <5> QED BY <5>1, <5>3, IsASeq
      <4>4. PICK k \in DOMAIN log[i] : c = log[i][k]
        BY <2>2, <4>2, <4>3, CurrentIsNewest
      <4> HIDE DEF c
      <4> QED BY <3>1, <4>1, <4>4 DEF FileOf
    <3>3. sel' = [sel EXCEPT !.todo = @ \ {i}, !.got = @ \cup {c}] /\ prompt' = prompt
      BY <2>1, <2>4
    <3> HIDE DEF c
    <3>4. c \in BrainEntries
      BY <3>2 DEF BrainEntry
    <3>5. /\ sel' \in [at : {"idle", "read"}, todo : SUBSET Numbers, got : SUBSET BrainEntries]
          /\ sel'.at = "read" /\ sel'.todo = sel.todo \ {i} /\ sel'.got = sel.got \cup {c}
      <4> DEFINE o == [sel EXCEPT !.todo = sel.todo \ {i}]
                 T == [at : {"idle", "read"}, todo : SUBSET Numbers, got : SUBSET BrainEntries]
      <4>1. sel \in T
        BY <1>0 DEF Selection
      <4>2. o \in T /\ o.at = "read" /\ o.todo = sel.todo \ {i} /\ o.got = sel.got
        BY <2>1, <4>1
      <4>3. sel' = [o EXCEPT !.got = sel.got \cup {c}]
        BY <3>3, <4>1
      <4> HIDE DEF o
      <4>4. sel.got \cup {c} \in SUBSET BrainEntries
        BY <3>4, <4>1
      <4> QED BY <4>2, <4>3, <4>4
    <3>6. Selection'
      <4>1. IsFiniteSet(sel'.got)
        <5>1. IsFiniteSet(sel.got \cup {c})
          BY <1>0, FS_AddElement DEF Selection
        <5> QED BY <3>5, <5>1
      <4>2. \A e \in sel'.got : BrainEntry(e)' /\ e.id \notin sel'.todo
        BY <1>0, <2>1, <3>2, <3>5 DEF Selection, BrainEntry
      <4>3. \A e, f \in sel'.got : e.id = f.id => e = f
        BY <1>0, <2>2, <3>2, <3>5 DEF Selection
      <4>4. \A j \in sel'.todo : log'[j] # <<>>
        BY <1>0, <2>1, <3>5 DEF Selection
      <4> QED BY <3>5, <4>1, <4>2, <4>3, <4>4 DEF Selection
    <3>7. Kn!PromptSound'
      BY <1>0, <2>1, <3>3, <3>5 DEF Kn!PromptSound
    <3> QED BY <1>4, <2>1, <3>6, <3>7
  <2> QED BY <2>3, <2>4
<1>8. CASE Kn!SelectDone
  <2>1. /\ log' = log /\ open' = open /\ pend' = pend /\ approved' = approved
        /\ prompt' = Kn!Budget(Kn!Ranked(Kn!Eligible(sel.got))) /\ sel' = [sel EXCEPT !.at = "idle"]
    BY <1>8 DEF Kn!SelectDone
  <2>2. /\ sel' \in [at : {"idle", "read"}, todo : SUBSET Numbers, got : SUBSET BrainEntries]
        /\ sel'.todo = sel.todo /\ sel'.got = sel.got
    BY <1>0, <2>1 DEF Selection
  <2>3. Selection'
    BY <1>0, <2>1, <2>2 DEF Selection, BrainEntry
  <2>4. PICK P : P = Kn!Budget(Kn!Ranked(Kn!Eligible(sel.got)))
    OBVIOUS
  <2>5. /\ \A k \in DOMAIN P : P[k].status = "active" /\ P[k].id \in approved
        /\ Len(P) > 1 => Len(P) <= MaxEntries /\ Kn!Bytes(P) <= MaxBytes
        /\ \A k \in DOMAIN P : \A e \in Kn!Eligible(sel.got) : Kn!Outranks(e, P[k]) => e \in Kn!Range(P)
    BY <1>0, <2>4, PromptTaken
  <2>6. prompt' = P
    BY <2>1, <2>4
  <2>7. Kn!PromptSound'
    BY <2>1, <2>2, <2>5, <2>6 DEF Kn!PromptSound
  <2> QED BY <1>4, <2>1, <2>3, <2>7
<1>9. CASE UNCHANGED Kn!vars
  <2>1. log' = log /\ open' = open /\ pend' = pend /\ approved' = approved /\ sel' = sel /\ prompt' = prompt
    BY <1>9 DEF Kn!vars
  <2>2. Selection'
    BY <1>0, <2>1 DEF Selection, BrainEntry
  <2>3. Kn!PromptSound'
    BY <1>0, <2>1, PromptKept
  <2> QED BY <1>4, <2>1, <2>2, <2>3
<1> QED BY <1>1, <1>2, <1>3, <1>6, <1>7, <1>8, <1>9 DEF Kn!Next

\* The Brain begins in the invariant.
LEMMA KnowledgeStart == Kn!Init => KnowledgeInv
<1> SUFFICES ASSUME Kn!Init PROVE KnowledgeInv
  OBVIOUS
<1>1. /\ DOMAIN log = Numbers /\ \A i \in Numbers : log[i] = <<>>
      /\ open = {} /\ DOMAIN pend = Clients /\ \A p \in Clients : pend[p] = <<>>
      /\ sel = [at |-> "idle", todo |-> {}, got |-> {}] /\ prompt = <<>>
  BY DEF Kn!Init, Kn!Nothing, Kn!Idle
<1>2. ASSUME NEW i \in Numbers PROVE FileOf(i)
  <2>1. log[i] = <<>> /\ DOMAIN log[i] = {} /\ log[i] \in Seq(BrainEntries \cup {CutShort})
    <3>1. <<>> \in Seq(BrainEntries \cup {CutShort}) /\ DOMAIN <<>> = {}
      OBVIOUS
    <3>2. log[i] = <<>>
      BY <1>1
    <3> QED BY <3>1, <3>2
  <2>2. UpTo(log[i], 0)
    BY <2>1 DEF UpTo
  <2> QED BY <1>1, <2>1, <2>2 DEF FileOf
<1>3. Selection
  BY <1>1, FS_EmptySet DEF Selection
<1>4. Kn!PromptSound
  BY <1>1 DEF Kn!PromptSound
<1> QED BY <1>1, <1>2, <1>3, <1>4 DEF KnowledgeInv

\* What the invariant says of the files and of the prompt.
LEMMA KnowledgeInvSound ==
    ASSUME CutShort \notin BrainEntries, KnowledgeInv
    PROVE  Kn!KnowledgeSound
<1>1. Kn!VersionsContiguous
  <2> SUFFICES ASSUME NEW i \in Numbers, Kn!Readable(log[i])
               PROVE  {log[i][k].version : k \in DOMAIN log[i]} = 1..Kn!Cardinality({log[i][k].version : k \in DOMAIN log[i]})
    BY DEF Kn!VersionsContiguous
  <2> DEFINE vs == {log[i][k].version : k \in DOMAIN log[i]}
  <2>1. FileOf(i) /\ \A k \in DOMAIN log[i] : log[i][k] # CutShort
    BY DEF KnowledgeInv, Kn!Readable, Kn!Range
  <2>2. PICK m \in Nat : UpTo(log[i], m)
    BY <2>1 DEF FileOf
  <2>3. \A k \in DOMAIN log[i] : log[i][k].version \in 1..m
    BY <2>1, <2>2 DEF FileOf, UpTo, BrainEntry, BrainEntries
  <2>4. vs = 1..m
    BY <2>2, <2>3 DEF UpTo
  <2> HIDE DEF vs
  <2>5. Cardinality(1..m) = m
    BY FS_Interval
  <2>6. Kn!Cardinality(vs) = m
    BY <2>4, <2>5, BrainCardinality
  <2> QED BY <2>4, <2>6 DEF vs
<1>2. Kn!OnlyApproved
  BY DEF Kn!OnlyApproved, KnowledgeInv, FileOf, BrainEntry
<1>3. Kn!PromptSound
  BY DEF KnowledgeInv
<1> QED BY <1>1, <1>2, <1>3 DEF Kn!KnowledgeSound

\* No version of a readable history is missing, nothing is active that nobody approved, and a
\* prompt holds the most relevant approved entries within its budgets, for every number of
\* processes, ids, bodies, commands and appends cut short (store.go, brain.go, prompt.go).
THEOREM KnowledgeIsSound ==
    ASSUME Numbers \subseteq Nat, Score \in [Bodies -> Nat], CutShort \notin BrainEntries
    PROVE  Spec => []KnowledgeSound
<1>1. KnowledgeInv /\ [Kn!Next]_Kn!vars => KnowledgeInv'
  BY KnowledgeStep
<1>2. KnowledgeInv => Kn!KnowledgeSound
  BY KnowledgeInvSound
<1> QED BY <1>1, <1>2, KnowledgeStart, KnowledgeRuns, PTL DEF Spec, KnowledgeSound
=============================================================================
