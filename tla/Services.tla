------------------------------ MODULE Services ------------------------------
(***************************************************************************)
(* The services beside the pipeline.  They share no state in the code, so  *)
(* a behaviour is one of a single service, picked by Init, and a property  *)
(* is about the states in which that service runs.  The variables of the   *)
(* others are None; a variable that several services name alike belongs to *)
(* the one that runs.                                                      *)
(***************************************************************************)
EXTENDS Naturals

CONSTANTS
    None, Clients, MaxOps, MaxFaults,       \* of several services; Clients: the Requests of each
    MaxCalls,                               \* MaxOps of AiwOptimizers, AiwCompanion, AccessGrants
    CutShort,                               \* a write that a crash cut short
    Files, Unsupported, Ignored, MaxEdits, MaxPasses,                       \* AiwScan
    ProviderIds, AccountIds, Local,                                         \* AiwProviders
    Optimizers, Companions, Inputs, MaxConfig, Overrides,                   \* AiwOptimizers
    Packs, Notes, Sources, Size, MaxTotal,                                  \* AiwDocs
    Urls,                                                                   \* AiwCompanion
    Numbers, Bodies, Inactive, EntrySize, Score, MaxEntries, MaxBytes,      \* KnowledgeBrain
    PortNumbers,                                                            \* Registries, with Numbers
    Operators, Tickets, Paths, Unusable, DefaultGrant, TTL, MaxRaised,      \* AccessGrants
    Chats, MaxSends,                                                        \* TicketChat
    Devices, Sigs, Errors, Orgs, Checkers, ScanLoop, Syncs, Heaps,          \* IssueFiler
    HistCap, LeakChecks, LeakDrop, MaxCreated, MaxRuns,
    Issues, MaxBoxes, MaxStream, Tokens, MaxLines,                          \* TaskActivity
    Accounts, MaxLogins                                                     \* AccountAuth

VARIABLES
    service,    \* the one that runs
    req, ops, faults, index, blob, op, cache, th, runs, excused, file, log,
    content, manifest, report, restoring, replaced, doubt,                  \* AiwScan
    keychain, inStep,                                                       \* AiwProviders
    stored, blobs, counters, usage, disabled, torn,                         \* AiwOptimizers
    rev, pinned, cut,                                                       \* AiwDocs
    url, cached, daemon, settled,                                           \* AiwCompanion
    open, pend, sel, prompt, approved,                                      \* KnowledgeBrain
    projects, dirs, misled, overlapped,                                     \* Registries
    grants, reqs, retries, raised, denied, lost, standing,                  \* AccessGrants
    chat, running, agent, comments, sends, abandoned,                       \* TicketChat
    jc, bugs, trend, leaked, issues, filed, gaveUp, overlap,                \* IssueFiler
    box, mem, run, operator, reasons, clock, lines, spent, logged, failedAs,  \* TaskActivity
    signedIn, pending, proc, owner, lapsed, late, untracked                 \* AccountAuth

Sc == INSTANCE AiwScan
Pr == INSTANCE AiwProviders WITH Requests <- Clients, Ids <- ProviderIds
Op == INSTANCE AiwOptimizers WITH Requests <- Clients, Texts <- Inputs, MaxOps <- MaxCalls
Do == INSTANCE AiwDocs WITH Requests <- Clients
Co == INSTANCE AiwCompanion WITH Requests <- Clients, MaxOps <- MaxCalls
Kn == INSTANCE KnowledgeBrain WITH Procs <- Clients, Ids <- Numbers, Size <- EntrySize,
    Torn <- CutShort, Keep <- None
Re == INSTANCE Registries WITH Requests <- Clients, Ids <- Numbers, Ports <- PortNumbers
Ac == INSTANCE AccessGrants WITH Issues <- Tickets, MaxOps <- MaxCalls
Ch == INSTANCE TicketChat WITH Keys <- Chats
Fi == INSTANCE IssueFiler
Ta == INSTANCE TaskActivity
Au == INSTANCE AccountAuth WITH Requests <- Clients

common == <<req, ops, faults, index, blob, op, cache, th, runs, excused, file, log>>
ScOwn == <<content, manifest, report, restoring, replaced, doubt>>
PrOwn == <<keychain, inStep>>
OpOwn == <<stored, blobs, counters, usage, disabled, torn>>
DoOwn == <<rev, pinned, cut>>
CoOwn == <<url, cached, daemon, settled>>
KnOwn == <<open, pend, sel, prompt, approved>>
ReOwn == <<projects, dirs, misled, overlapped>>
AcOwn == <<grants, reqs, retries, raised, denied, lost, standing>>
ChOwn == <<chat, running, agent, comments, sends, abandoned>>
FiOwn == <<jc, bugs, trend, leaked, issues, filed, gaveUp, overlap>>
TaOwn == <<box, mem, run, operator, reasons, clock, lines, spent, logged, failedAs>>
AuOwn == <<signedIn, pending, proc, owner, lapsed, late, untracked>>
vars ==
    <<service, common, ScOwn, PrOwn, OpOwn, DoOwn, CoOwn, KnOwn,
      ReOwn, AcOwn, ChOwn, FiOwn, TaOwn, AuOwn>>

Init ==
    /\ service \in {"AiwScan", "AiwProviders", "AiwOptimizers", "AiwDocs", "AiwCompanion", "KnowledgeBrain",
                    "Registries", "AccessGrants", "TicketChat", "IssueFiler", "TaskActivity", "AccountAuth"}
    /\ IF service = "AiwScan" THEN Sc!Init
       ELSE /\ content = None /\ manifest = None /\ report = None /\ restoring = None /\ replaced = None
            /\ doubt = None
    /\ IF service = "AiwProviders" THEN Pr!Init
       ELSE keychain = None /\ inStep = None
    /\ IF service = "AiwOptimizers" THEN Op!Init
       ELSE /\ stored = None /\ blobs = None /\ counters = None /\ usage = None /\ disabled = None
            /\ torn = None
    /\ IF service = "AiwDocs" THEN Do!Init
       ELSE rev = None /\ pinned = None /\ cut = None
    /\ IF service = "AiwCompanion" THEN Co!Init
       ELSE url = None /\ cached = None /\ daemon = None /\ settled = None
    /\ IF service = "KnowledgeBrain" THEN Kn!Init
       ELSE open = None /\ pend = None /\ sel = None /\ prompt = None /\ approved = None
    /\ IF service = "Registries" THEN Re!Init
       ELSE projects = None /\ dirs = None /\ misled = None /\ overlapped = None
    /\ IF service = "AccessGrants" THEN Ac!Init
       ELSE /\ grants = None /\ reqs = None /\ retries = None /\ raised = None /\ denied = None
            /\ lost = None /\ standing = None
    /\ IF service = "TicketChat" THEN Ch!Init
       ELSE /\ chat = None /\ running = None /\ agent = None /\ comments = None /\ sends = None
            /\ abandoned = None
    /\ IF service = "IssueFiler" THEN Fi!Init
       ELSE /\ jc = None /\ bugs = None /\ trend = None /\ leaked = None /\ issues = None
            /\ filed = None /\ gaveUp = None /\ overlap = None
    /\ IF service = "TaskActivity" THEN Ta!Init
       ELSE /\ box = None /\ mem = None /\ run = None /\ operator = None /\ reasons = None
            /\ clock = None /\ lines = None /\ spent = None /\ logged = None /\ failedAs = None
    /\ IF service = "AccountAuth" THEN Au!Init
       ELSE /\ signedIn = None /\ pending = None /\ proc = None /\ owner = None /\ lapsed = None
            /\ late = None /\ untracked = None
    /\ service \notin {"AiwProviders", "AiwOptimizers", "AiwDocs", "AiwCompanion", "Registries"} => req = None
    /\ service \in {"TicketChat", "IssueFiler", "TaskActivity"} => ops = None
    /\ service \in {"AiwCompanion", "AccountAuth"} => faults = None
    /\ service \notin {"AiwOptimizers", "AiwDocs"} => index = None
    /\ service \notin {"AiwScan", "AiwDocs"} => blob = None
    /\ service \notin {"AiwScan", "AccessGrants"} => op = None
    /\ service \notin {"Registries", "AccountAuth"} => cache = None
    /\ service \notin {"IssueFiler", "AccountAuth"} => th = None
    /\ service \notin {"IssueFiler", "TaskActivity"} => runs = None /\ excused = None
    /\ service \notin {"AiwProviders", "Registries", "TaskActivity"} => file = None
    /\ service \notin {"KnowledgeBrain", "TaskActivity"} => log = None

Next ==
    /\ UNCHANGED service
    /\ \/ /\ service = "AiwScan" /\ Sc!Next
          /\ UNCHANGED <<req, index, cache, th, runs, excused, file, log,
                        PrOwn, OpOwn, DoOwn, CoOwn, KnOwn, ReOwn, AcOwn, ChOwn, FiOwn, TaOwn, AuOwn>>
       \/ /\ service = "AiwProviders" /\ Pr!Next
          /\ UNCHANGED <<index, blob, op, cache, th, runs, excused, log,
                        ScOwn, OpOwn, DoOwn, CoOwn, KnOwn, ReOwn, AcOwn, ChOwn, FiOwn, TaOwn, AuOwn>>
       \/ /\ service = "AiwOptimizers" /\ Op!Next
          /\ UNCHANGED <<blob, op, cache, th, runs, excused, file, log,
                        ScOwn, PrOwn, DoOwn, CoOwn, KnOwn, ReOwn, AcOwn, ChOwn, FiOwn, TaOwn, AuOwn>>
       \/ /\ service = "AiwDocs" /\ Do!Next
          /\ UNCHANGED <<op, cache, th, runs, excused, file, log,
                        ScOwn, PrOwn, OpOwn, CoOwn, KnOwn, ReOwn, AcOwn, ChOwn, FiOwn, TaOwn, AuOwn>>
       \/ /\ service = "AiwCompanion" /\ Co!Next
          /\ UNCHANGED <<faults, index, blob, op, cache, th, runs, excused, file, log,
                        ScOwn, PrOwn, OpOwn, DoOwn, KnOwn, ReOwn, AcOwn, ChOwn, FiOwn, TaOwn, AuOwn>>
       \/ /\ service = "KnowledgeBrain" /\ Kn!Next
          /\ UNCHANGED <<req, index, blob, op, cache, th, runs, excused, file,
                        ScOwn, PrOwn, OpOwn, DoOwn, CoOwn, ReOwn, AcOwn, ChOwn, FiOwn, TaOwn, AuOwn>>
       \/ /\ service = "Registries" /\ Re!Next
          /\ UNCHANGED <<index, blob, op, th, runs, excused, log,
                        ScOwn, PrOwn, OpOwn, DoOwn, CoOwn, KnOwn, AcOwn, ChOwn, FiOwn, TaOwn, AuOwn>>
       \/ /\ service = "AccessGrants" /\ Ac!Next
          /\ UNCHANGED <<req, index, blob, cache, th, runs, excused, file, log,
                        ScOwn, PrOwn, OpOwn, DoOwn, CoOwn, KnOwn, ReOwn, ChOwn, FiOwn, TaOwn, AuOwn>>
       \/ /\ service = "TicketChat" /\ Ch!Next
          /\ UNCHANGED <<req, ops, index, blob, op, cache, th, runs, excused, file, log,
                        ScOwn, PrOwn, OpOwn, DoOwn, CoOwn, KnOwn, ReOwn, AcOwn, FiOwn, TaOwn, AuOwn>>
       \/ /\ service = "IssueFiler" /\ Fi!Next
          /\ UNCHANGED <<req, ops, index, blob, op, cache, file, log,
                        ScOwn, PrOwn, OpOwn, DoOwn, CoOwn, KnOwn, ReOwn, AcOwn, ChOwn, TaOwn, AuOwn>>
       \/ /\ service = "TaskActivity" /\ Ta!Next
          /\ UNCHANGED <<req, ops, index, blob, op, cache, th,
                        ScOwn, PrOwn, OpOwn, DoOwn, CoOwn, KnOwn, ReOwn, AcOwn, ChOwn, FiOwn, AuOwn>>
       \/ /\ service = "AccountAuth" /\ Au!Next
          /\ UNCHANGED <<req, faults, index, blob, op, runs, excused, file, log,
                        ScOwn, PrOwn, OpOwn, DoOwn, CoOwn, KnOwn, ReOwn, AcOwn, ChOwn, FiOwn, TaOwn>>

Spec == Init /\ [][Next]_vars

-----------------------------------------------------------------------------
\* A rewritten file can be restored: AiwScan!Reversible (scan.go, optimizeFiles).
Reversible == service = "AiwScan" => Sc!Reversible

\* At most one provider is the default, and the keychain holds the registry's keys:
\* AiwProviders!ProvidersSound (providerstore.go).
ProvidersSound == service = "AiwProviders" => Pr!ProvidersSound

\* The optimizer cache serves the output that belongs to the request:
\* AiwOptimizers!CacheRight (cache.go).
CacheRight == service = "AiwOptimizers" => Op!CacheRight

\* Index and content of packs and notes agree: AiwDocs!IndexMatchesBlob (context.go,
\* knowledge.go).
IndexMatchesBlob == service = "AiwDocs" => Do!IndexMatchesBlob

\* A companion shown as present is the configured one:
\* AiwCompanion!PresentIsConfigured (companion.go).
PresentIsConfigured == service = "AiwCompanion" => Co!PresentIsConfigured

\* Versions, approval and the prompt slice: KnowledgeBrain!KnowledgeSound (store.go,
\* brain.go, prompt.go).
KnowledgeSound == service = "KnowledgeBrain" => Kn!KnowledgeSound

\* Repositories, rules, workspaces and projects: Registries!RegistriesSound.
RegistriesSound == service = "Registries" => Re!RegistriesSound

\* No access request is forgotten and no standing grant lost:
\* AccessGrants!AccessKept (access.go, accessrequests.go).
AccessKept == service = "AccessGrants" => Ac!AccessKept

\* Every answer of a ticket chat is in the turn it belongs to:
\* TicketChat!AnswersInPlace (ticketchat.go).
AnswersInPlace == service = "TicketChat" => Ch!AnswersInPlace

\* A fault or a Sentry error gets its ticket, and one only:
\* IssueFiler!NeitherLostNorTwice (devicemonitor.go, sentry_sync.go).
NeitherLostNorTwice == service = "IssueFiler" => Fi!NeitherLostNorTwice

\* Token totals, log and failure reason of a task survive:
\* TaskActivity!ActivityKept (orchestrator.go).
ActivityKept == service = "TaskActivity" => Ta!ActivityKept

\* Logins are tracked and the shown status is right: AccountAuth!AuthSound
\* (accountauth.go).
AuthSound == service = "AccountAuth" => Au!AuthSound
=============================================================================
