---------------------------- MODULE AiwCompanion ----------------------------
(***************************************************************************)
(* The companion client of internal/aiworkspace (companion.go):            *)
(* companion.json and a status that is cached for ten seconds.  status     *)
(* releases the mutex while it probes the daemon and then saves the        *)
(* configuration it had read before; connect and disconnect save, and      *)
(* invalidate the cache under a second lock.                               *)
(***************************************************************************)
EXTENDS Naturals

CONSTANTS
    Requests,       \* requests served at the same time
    Urls,           \* loopback addresses; any other is refused by connect
    None,
    MaxOps          \* bound on connects and disconnects

VARIABLES
    url,        \* companion.json: the URL of an enabled companion, or None
    cached,     \* companion.cached: None, or the URL it says is present, or "absent"
    daemon,     \* the addresses a daemon answers at
    req,        \* what each request is at
    ops,
    settled     \* history: no probe was under way when the last connect or disconnect saved

vars == <<url, cached, daemon, req, ops, settled>>

Idle == [pc |-> "idle"]

TypeOK ==
    /\ url \in Urls \cup {None} /\ daemon \subseteq Urls
    /\ cached.is \in {"none", "absent", "present"} /\ cached.at \in Urls \cup {None}
    /\ DOMAIN req = Requests /\ ops \in 0..MaxOps /\ settled \in BOOLEAN

NotCached == [is |-> "none", at |-> None]

Init ==
    /\ url = None /\ cached = NotCached /\ daemon \in SUBSET Urls
    /\ req = [t \in Requests |-> Idle] /\ ops = 0 /\ settled = TRUE

Goes(t, r) == req' = [req EXCEPT ![t] = r]
At(t, pc) == req[t].pc = pc

\* status: a fresh cached answer is returned, else the configuration is read;
\* without an enabled companion nothing is probed.
StatusBegin(t, from) ==
    /\ At(t, from) /\ cached = NotCached
    /\ Goes(t, IF url = None THEN [pc |-> "cache", is |-> "absent", at |-> None]
               ELSE [pc |-> "probe", url |-> url])
    /\ UNCHANGED <<url, cached, daemon, ops, settled>>

\* probe: /health, then /capabilities; the daemon may be gone or answer with an error.
Probe(t) ==
    /\ At(t, "probe")
    /\ \/ req[t].url \in daemon /\ Goes(t, [req[t] EXCEPT !.pc = "seen"])
       \/ Goes(t, [pc |-> "cache", is |-> "absent", at |-> None])
    /\ UNCHANGED <<url, cached, daemon, ops, settled>>

\* LastSeenAt and Capabilities are saved with the rest of what was read.
Seen(t) ==
    /\ At(t, "seen")
    /\ url' = req[t].url
    /\ Goes(t, [pc |-> "cache", is |-> "present", at |-> req[t].url])
    /\ UNCHANGED <<cached, daemon, ops, settled>>

\* setCache
SetCache(t) ==
    /\ At(t, "cache")
    /\ cached' = [is |-> req[t].is, at |-> req[t].at]
    /\ Goes(t, Idle)
    /\ UNCHANGED <<url, daemon, ops, settled>>

\* The cached answer is ten seconds old.
Expire ==
    /\ cached # NotCached /\ cached' = NotCached
    /\ UNCHANGED <<url, daemon, req, ops, settled>>

Busy == \E t \in Requests : req[t].pc \in {"probe", "seen", "cache"}

\* connect saves the new address,
Connect(t) ==
    /\ At(t, "idle") /\ ops < MaxOps /\ ops' = ops + 1
    /\ \E u \in Urls : url' = u
    /\ settled' = ~Busy
    /\ Goes(t, [pc |-> "invalidate", then |-> "status"])
    /\ UNCHANGED <<cached, daemon>>

\* disconnect saves none;
Disconnect(t) ==
    /\ At(t, "idle") /\ ops < MaxOps /\ ops' = ops + 1
    /\ url' = None /\ settled' = ~Busy
    /\ Goes(t, [pc |-> "invalidate", then |-> "idle"])
    /\ UNCHANGED <<cached, daemon>>

\* The cache is left as it is.
InvalidateNothing(t) ==
    /\ At(t, "invalidate")
    /\ Goes(t, [pc |-> req[t].then])
    /\ UNCHANGED <<url, cached, daemon, ops, settled>>

\* then both drop the cached answer, and connect goes on to status.
Invalidate(t) ==
    /\ At(t, "invalidate")
    /\ cached' = NotCached
    /\ Goes(t, [pc |-> req[t].then])
    /\ UNCHANGED <<url, daemon, ops, settled>>

\* connect's own status finds an answer another request has cached.
StatusCached(t) ==
    /\ At(t, "status") /\ cached # NotCached /\ Goes(t, Idle)
    /\ UNCHANGED <<url, cached, daemon, ops, settled>>

\* The daemon is started or stopped.
Daemon ==
    /\ \E u \in Urls : daemon' \in {daemon \cup {u}, daemon \ {u}} /\ daemon' # daemon
    /\ UNCHANGED <<url, cached, req, ops, settled>>

Next ==
    \/ Expire \/ Daemon
    \/ \E t \in Requests :
          \/ StatusBegin(t, "idle") \/ StatusBegin(t, "status") \/ StatusCached(t) \/ Probe(t) \/ Seen(t)
          \/ SetCache(t) \/ Connect(t) \/ Disconnect(t) \/ Invalidate(t)

Spec == Init /\ [][Next]_vars

-----------------------------------------------------------------------------
(* Properties. *)

\* A companion shown as present is the configured one: after a disconnect, or a
\* connect to another address, no earlier answer is served.  A probe under way at
\* that moment is the exception: it writes the old configuration back.
PresentIsConfigured ==
    settled /\ (\A t \in Requests : ~At(t, "invalidate")) /\ cached.is = "present" => cached.at = url
=============================================================================
