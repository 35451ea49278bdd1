------------------------------ MODULE EventBus ------------------------------
(***************************************************************************)
(* internal/controlplane: the event bus, the SSE handler that streams it   *)
(* to a console, and the console's EventStream, which reconnects with the  *)
(* last sequence number it has seen.                                       *)
(*                                                                         *)
(* An event is its Seq.  A client has at most one connection; stage is     *)
(* where that connection's handler is.  What the handler has written and   *)
(* the client has not yet read is on the wire, and lost by a disconnect.   *)
(***************************************************************************)
EXTENDS Naturals, Sequences, Functions

CONSTANTS
    Clients,        \* consoles
    RingCap,        \* Bus.ringCap (256)
    BufCap,         \* capacity of a subscriber's channel (256)
    MaxSeq,         \* bound on the events published in one life of the server
    MaxDrops,       \* bound on disconnects
    MaxRestarts     \* bound on restarts of the server

ASSUME CapsAssumption == RingCap \in Nat \ {0} /\ BufCap \in Nat \ {0}
ASSUME BoundsAssumption == MaxSeq \in Nat /\ MaxDrops \in Nat /\ MaxRestarts \in Nat

VARIABLES
    seq,        \* Bus.seq
    ring,       \* Bus.ring
    chan,       \* the subscriber's channel
    stage,      \* the handler: "off", "subscribed", "replaying" or "live"
    pending,    \* what Recent returned and is not yet written
    replayedTo, \* the handler's replayedTo
    wire,       \* written, not yet read by the client
    last,       \* EventStream.last, sent as last_event_id
    got,        \* events the client has read in this life of the server
    lost,       \* events the server could no longer give the client: skipped or evicted
    drops,      \* disconnects so far
    restarts    \* restarts so far

conn == <<chan, stage, pending, replayedTo, wire>>
client == <<last, got>>
vars == <<seq, ring, conn, client, lost, drops, restarts>>

Events == 1..MaxSeq

TypeOK ==
    /\ seq \in 0..MaxSeq
    /\ Len(ring) <= RingCap
    /\ \A c \in Clients : Len(chan[c]) <= BufCap
    /\ stage \in [Clients -> {"off", "subscribed", "replaying", "live"}]
    /\ \A c \in Clients :
         \A s \in {ring, chan[c], pending[c], wire[c], got[c]} : Range(s) \subseteq Events
    /\ replayedTo \in [Clients -> 0..MaxSeq] /\ last \in [Clients -> 0..MaxSeq]
    /\ lost \in [Clients -> SUBSET Events]
    /\ drops \in 0..MaxDrops /\ restarts \in 0..MaxRestarts

Empty == [c \in Clients |-> <<>>]

Init ==
    /\ seq = 0 /\ ring = <<>>
    /\ chan = Empty /\ stage = [c \in Clients |-> "off"] /\ pending = Empty
    /\ replayedTo = [c \in Clients |-> 0] /\ wire = Empty
    /\ last = [c \in Clients |-> 0] /\ got = Empty
    /\ lost = [c \in Clients |-> {}]
    /\ drops = 0 /\ restarts = 0

-----------------------------------------------------------------------------
\* The last RingCap elements.
Newest(s) == IF Len(s) > RingCap THEN SubSeq(s, Len(s) - RingCap + 1, Len(s)) ELSE s

Full(c) == Len(chan[c]) >= BufCap

\* Bus.Publish: into the ring and, without blocking, into every subscriber's channel.
Publish ==
    /\ seq < MaxSeq /\ seq' = seq + 1
    /\ ring' = Newest(Append(ring, seq + 1))
    /\ chan' = [c \in Clients |-> IF stage[c] = "off" \/ Full(c) THEN chan[c]
                                  ELSE Append(chan[c], seq + 1)]
    /\ lost' = [c \in Clients |-> IF stage[c] # "off" /\ Full(c)
                                  THEN lost[c] \cup {seq + 1} ELSE lost[c]]
    /\ UNCHANGED <<stage, pending, replayedTo, wire, client, drops, restarts>>

\* handleEvents: Bus.Subscribe before anything is replayed.
Subscribe(c) ==
    /\ stage[c] = "off"
    /\ stage' = [stage EXCEPT ![c] = "subscribed"]
    /\ chan' = [chan EXCEPT ![c] = <<>>]
    /\ replayedTo' = [replayedTo EXCEPT ![c] = 0]
    /\ UNCHANGED <<seq, ring, pending, wire, client, lost, drops, restarts>>

\* Bus.Recent(after): the ring is in the order of Seq, so what its filter drops comes first.
Dropped(after) == CHOOSE n \in 0..Len(ring) : \A k \in DOMAIN ring : ring[k] > after <=> k > n
Recent(after) == SubSeq(ring, Dropped(after) + 1, Len(ring))

\* Events published, after the client's last, that the ring has dropped.
Evicted(c) == {e \in Events : last[c] < e /\ e <= seq /\ e \notin Range(ring)}

\* handleEvents: the retained events after the client's last_event_id.
Replay(c) ==
    /\ stage[c] = "subscribed"
    /\ stage' = [stage EXCEPT ![c] = "replaying"]
    /\ pending' = [pending EXCEPT ![c] = Recent(last[c])]
    /\ lost' = [lost EXCEPT ![c] = @ \cup Evicted(c)]
    /\ UNCHANGED <<seq, ring, chan, replayedTo, wire, client, drops, restarts>>

Write(c, e) == wire' = [wire EXCEPT ![c] = Append(@, e)]

\* ... written one by one ...
WriteReplayed(c) ==
    /\ stage[c] = "replaying" /\ pending[c] # <<>>
    /\ Write(c, Head(pending[c]))
    /\ replayedTo' = [replayedTo EXCEPT ![c] = Head(pending[c])]
    /\ pending' = [pending EXCEPT ![c] = Tail(@)]
    /\ UNCHANGED <<seq, ring, chan, stage, client, lost, drops, restarts>>

GoLive(c) ==
    /\ stage[c] = "replaying" /\ pending[c] = <<>>
    /\ stage' = [stage EXCEPT ![c] = "live"]
    /\ UNCHANGED <<seq, ring, chan, pending, replayedTo, wire, client, lost, drops, restarts>>

\* As if live events covered by the replay were not skipped.
StreamAll(c) ==
    /\ stage[c] = "live" /\ chan[c] # <<>>
    /\ chan' = [chan EXCEPT ![c] = Tail(@)]
    /\ Write(c, Head(chan[c]))
    /\ UNCHANGED <<seq, ring, stage, pending, replayedTo, client, lost, drops, restarts>>

\* As if the event after the replayed ones were taken for one of them.
StreamLate(c) ==
    /\ stage[c] = "live" /\ chan[c] # <<>>
    /\ chan' = [chan EXCEPT ![c] = Tail(@)]
    /\ IF Head(chan[c]) <= replayedTo[c] + 1 THEN UNCHANGED wire ELSE Write(c, Head(chan[c]))
    /\ UNCHANGED <<seq, ring, stage, pending, replayedTo, client, lost, drops, restarts>>

\* As if frames were flushed only once the channel is full.
StreamBatched(c) ==
    /\ stage[c] = "live" /\ Full(c)
    /\ chan' = [chan EXCEPT ![c] = Tail(@)]
    /\ IF Head(chan[c]) <= replayedTo[c] THEN UNCHANGED wire ELSE Write(c, Head(chan[c]))
    /\ UNCHANGED <<seq, ring, stage, pending, replayedTo, client, lost, drops, restarts>>

\* ... then live events, except those the replay covered.
Stream(c) ==
    /\ stage[c] = "live" /\ chan[c] # <<>>
    /\ chan' = [chan EXCEPT ![c] = Tail(@)]
    /\ IF Head(chan[c]) <= replayedTo[c] THEN UNCHANGED wire ELSE Write(c, Head(chan[c]))
    /\ UNCHANGED <<seq, ring, stage, pending, replayedTo, client, lost, drops, restarts>>

\* EventStream: the client reads a frame and remembers its seq.
Read(c) ==
    /\ wire[c] # <<>>
    /\ last' = [last EXCEPT ![c] = Head(wire[c])]
    /\ got' = [got EXCEPT ![c] = Append(@, Head(wire[c]))]
    /\ wire' = [wire EXCEPT ![c] = Tail(@)]
    /\ UNCHANGED <<seq, ring, chan, stage, pending, replayedTo, lost, drops, restarts>>

\* The connection breaks: the handler returns, Unsubscribe closes the channel.
Disconnect(c) ==
    /\ stage[c] # "off" /\ drops < MaxDrops /\ drops' = drops + 1
    /\ stage' = [stage EXCEPT ![c] = "off"]
    /\ chan' = [chan EXCEPT ![c] = <<>>]
    /\ pending' = [pending EXCEPT ![c] = <<>>]
    /\ wire' = [wire EXCEPT ![c] = <<>>]
    /\ UNCHANGED <<seq, ring, replayedTo, client, lost, restarts>>

\* The server restarts: a new Bus, whose sequence starts over.
Restart ==
    /\ restarts < MaxRestarts /\ restarts' = restarts + 1
    /\ seq' = 0 /\ ring' = <<>>
    /\ chan' = Empty /\ stage' = [c \in Clients |-> "off"] /\ pending' = Empty /\ wire' = Empty
    /\ got' = Empty /\ lost' = [c \in Clients |-> {}]
    /\ UNCHANGED <<replayedTo, last, drops>>

Serve(c) ==
    Subscribe(c) \/ Replay(c) \/ WriteReplayed(c) \/ GoLive(c) \/ Stream(c) \/ Read(c)

Next ==
    \/ Publish
    \/ \E c \in Clients : Serve(c) \/ Disconnect(c)
    \/ Restart

Spec == Init /\ [][Next]_vars

\* The client reconnects after its two-second pause, the handler's goroutine and the
\* network go on.
FairSpec == Spec /\ \A c \in Clients : WF_vars(Serve(c))

-----------------------------------------------------------------------------
\* A client is never shown an event twice or out of order, across replays, reconnects and
\* the overlap of replay and live stream (handleEvents, "avoids duplicates on reconnect").
InOrder ==
    \A c \in Clients : \A j, k \in DOMAIN got[c] : j < k => got[c][j] < got[c][k]

\* Every event up to the last one a client has read was read by it, or was skipped or
\* evicted by the bus: none slips through the gap between replay and live stream.  Within one
\* life of the server: a restart starts the sequence over and the client keeps its last.
NoGap ==
    restarts = 0 => \A c \in Clients : 1..last[c] \subseteq Range(got[c]) \cup lost[c]

\* Both: what a client has seen is an unbroken prefix of the events in their order, but for
\* the ones the bus gave up for it.
StreamFaithful == InOrder /\ NoGap

\* A client misses no event for good unless it was too slow for its buffer or away for
\* longer than the ring lasts, or the server restarted.
Delivered ==
    \A c \in Clients, e \in Events :
        (seq >= e) ~> (e \in Range(got[c]) \cup lost[c] \/ restarts > 0)
=============================================================================
