--------------------------- MODULE EventBusProofs ---------------------------
(***************************************************************************)
(* What a console reads is the bus's events in order and without a gap,    *)
(* but for those the bus gave up: for every number of consoles and events, *)
(* every capacity of the ring and of the channels, and any disconnects.    *)
(*                                                                         *)
(* The argument follows an event through a connection: the channel, the    *)
(* replay, the wire, the client.  Each of the four is increasing, each     *)
(* comes after the one in front of it, except for what the channel shares  *)
(* with the replay, which replayedTo marks (Ordered); and nothing between  *)
(* two events of one of them is missing from all (Covered).                *)
(***************************************************************************)
EXTENDS EventBus, SequenceTheorems, TLAPS

-----------------------------------------------------------------------------
(* Sequences of events.                                                     *)

Increasing(s) == \A j, k \in DOMAIN s : j < k => s[j] < s[k]

\* The events of a sequence are its elements.
LEMMA InRange ==
    ASSUME NEW s \in Seq(Nat)
    PROVE  /\ \A k \in 1..Len(s) : s[k] \in Range(s)
           /\ \A e \in Range(s) : e \in Nat /\ \E k \in 1..Len(s) : s[k] = e
BY DEF Range

\* An empty sequence has no events and is increasing.
LEMMA NoEvents == Range(<<>>) = {} /\ Increasing(<<>>) /\ <<>> \in Seq(Nat)
BY DEF Range, Increasing

\* Appending an event later than all of a sequence.
LEMMA Appended ==
    ASSUME NEW s \in Seq(Nat), NEW e \in Nat
    PROVE  /\ Append(s, e) \in Seq(Nat)
           /\ Range(Append(s, e)) = Range(s) \cup {e}
           /\ Append(s, e) # <<>> /\ Append(s, e)[Len(Append(s, e))] = e
           /\ Increasing(s) /\ (\A x \in Range(s) : x < e) => Increasing(Append(s, e))
<1> DEFINE t == Append(s, e)
<1>1. /\ t \in Seq(Nat) /\ Len(t) = Len(s) + 1 /\ DOMAIN t = 1..Len(s) + 1 /\ DOMAIN s = 1..Len(s)
      /\ Len(s) \in Nat /\ t # <<>>
      /\ \A k \in 1..Len(s) : t[k] = s[k]
      /\ t[Len(s) + 1] = e
  OBVIOUS
<1> HIDE DEF t
<1>2. Range(t) = Range(s) \cup {e}
  <2>1. ASSUME NEW x \in Range(t) PROVE x \in Range(s) \cup {e}
    <3>1. PICK k \in 1..Len(s) + 1 : t[k] = x
      BY <1>1 DEF Range
    <3>2. k \in 1..Len(s) \/ k = Len(s) + 1
      BY <1>1
    <3> QED BY <1>1, <3>1, <3>2 DEF Range
  <2>2. ASSUME NEW x \in Range(s) PROVE x \in Range(t)
    BY <1>1 DEF Range
  <2>3. e \in Range(t)
    BY <1>1 DEF Range
  <2> QED BY <2>1, <2>2, <2>3
<1>3. ASSUME Increasing(s), \A x \in Range(s) : x < e PROVE Increasing(t)
  <2>1. \A k \in 1..Len(s) : s[k] < e
    BY <1>3, InRange
  <2>2. ASSUME NEW j \in 1..Len(s) + 1, NEW k \in 1..Len(s) + 1, j < k PROVE t[j] < t[k]
    <3>0. Len(s) \in Nat
      BY <1>1
    <3>1. j \in 1..Len(s)
      BY <3>0, <2>2
    <3>2. CASE k = Len(s) + 1
      BY <1>1, <2>1, <3>1, <3>2
    <3>3. CASE k # Len(s) + 1
      <4>1. k \in 1..Len(s)
        BY <3>0, <3>3
      <4> QED BY <1>1, <1>3, <2>2, <3>1, <4>1 DEF Increasing
    <3> QED BY <3>2, <3>3
  <2> QED BY <1>1, <2>2 DEF Increasing
<1> QED BY <1>1, <1>2, <1>3 DEF t

\* Taking the first event of an increasing sequence leaves the later ones.
LEMMA Taken ==
    ASSUME NEW s \in Seq(Nat), s # <<>>, Increasing(s)
    PROVE  /\ Tail(s) \in Seq(Nat) /\ Increasing(Tail(s))
           /\ Head(s) \in Nat
           /\ Range(s) = Range(Tail(s)) \cup {Head(s)}
           /\ \A x \in Range(Tail(s)) : Head(s) < x
<1> DEFINE t == Tail(s)
<1>1. /\ t \in Seq(Nat) /\ Len(t) = Len(s) - 1 /\ Len(s) \in Nat \ {0}
      /\ \A k \in 1..Len(t) : t[k] = s[k + 1]
      /\ Head(s) = s[1] /\ s[1] \in Nat
  BY HeadTailProperties, EmptySeq
<1>2. DOMAIN t = 1..Len(s) - 1 /\ DOMAIN s = 1..Len(s)
  BY <1>1
<1> HIDE DEF t
<1>3. ASSUME NEW x \in Range(t) PROVE x \in Range(s) /\ s[1] < x
  <2>1. PICK k \in 1..Len(s) - 1 : x = s[k + 1]
    <3>1. PICK k \in 1..Len(t) : t[k] = x
      BY <1>1, InRange
    <3> QED BY <1>1, <3>1
  <2>2. k + 1 \in 1..Len(s) /\ 1 \in 1..Len(s) /\ 1 < k + 1
    BY <1>1
  <2> QED BY <1>1, <1>2, <2>1, <2>2, InRange DEF Increasing
<1>4. ASSUME NEW x \in Range(s), x # s[1] PROVE x \in Range(t)
  <2>1. PICK k \in 1..Len(s) : x = s[k]
    BY InRange
  <2>2. k - 1 \in 1..Len(s) - 1 /\ t[k - 1] = s[(k - 1) + 1] /\ (k - 1) + 1 = k
    BY <2>1, <1>4, <1>1
  <2> QED BY <2>1, <2>2, <1>1, <1>2, InRange
<1>5. s[1] \in Range(s)
  BY <1>1, InRange
<1>6. Increasing(t)
  <2>1. ASSUME NEW j \in 1..Len(s) - 1, NEW k \in 1..Len(s) - 1, j < k PROVE t[j] < t[k]
    <3>1. t[j] = s[j + 1] /\ t[k] = s[k + 1]
      BY <1>1
    <3>2. j + 1 \in DOMAIN s /\ k + 1 \in DOMAIN s /\ j + 1 < k + 1
      BY <1>1, <1>2, <2>1
    <3> QED BY <3>1, <3>2 DEF Increasing
  <2> QED BY <1>2, <2>1 DEF Increasing
<1> QED BY <1>1, <1>3, <1>4, <1>5, <1>6 DEF t

-----------------------------------------------------------------------------
(* The invariant.                                                           *)

Types ==
    /\ seq \in 0..MaxSeq /\ restarts \in Nat
    /\ ring \in Seq(Nat)
    /\ chan \in [Clients -> Seq(Nat)] /\ pending \in [Clients -> Seq(Nat)]
    /\ wire \in [Clients -> Seq(Nat)] /\ got \in [Clients -> Seq(Nat)]
    /\ stage \in [Clients -> {"off", "subscribed", "replaying", "live"}]
    /\ replayedTo \in [Clients -> Nat] /\ last \in [Clients -> Nat]
    /\ lost \in [Clients -> SUBSET Nat]

\* The ring holds the newest events, in order.
UpTo(s, n) == Len(s) <= n /\ \A k \in 1..Len(s) : s[k] = n - Len(s) + k
RingInOrder == UpTo(ring, seq)

Chan(c) == Range(chan[c])
Pending(c) == Range(pending[c])
Wire(c) == Range(wire[c])
Got(c) == Range(got[c])

Ordered(c) ==
    /\ Increasing(chan[c]) /\ Increasing(pending[c]) /\ Increasing(wire[c]) /\ Increasing(got[c])
    /\ \A e \in Chan(c) \cup Pending(c) \cup Wire(c) \cup Got(c) : e <= seq
    /\ stage[c] \in {"off", "subscribed"} => wire[c] = <<>> /\ pending[c] = <<>>
    /\ stage[c] = "subscribed" => replayedTo[c] = 0
    /\ stage[c] = "live" => pending[c] = <<>>
    /\ \A g \in Got(c) : g <= last[c]
    /\ \A g \in Got(c), w \in Wire(c) : g < w
    /\ \A x \in Got(c) \cup Wire(c), p \in Pending(c) : x < p
    /\ \A p \in Pending(c) : replayedTo[c] < p
    /\ stage[c] # "off" => \A x \in Got(c) \cup Wire(c), y \in Chan(c) : x < y \/ y <= replayedTo[c]

\* No event between two that are in transit is missing, within one life of the server.
Covered(c) ==
    restarts = 0 =>
        /\ \A e \in 1..last[c] : e \in Got(c) \cup lost[c]
        /\ \A w \in Wire(c) : \A e \in 1..w : e \in Got(c) \cup Wire(c) \cup lost[c]
        /\ \A p \in Pending(c) : \A e \in 1..p : e \in Got(c) \cup Wire(c) \cup Pending(c) \cup lost[c]
        /\ stage[c] \in {"replaying", "live"} =>
             /\ \A e \in 1..replayedTo[c] : e \in Got(c) \cup Wire(c) \cup lost[c]
             /\ \A e \in 1..seq :
                  e \in Got(c) \cup Wire(c) \cup Pending(c) \cup Chan(c) \cup lost[c]

StreamInv == Types /\ RingInOrder /\ \A c \in Clients : Ordered(c) /\ Covered(c)

\* What a step leaves alone stays as it is.
LEMMA Untouched ==
    ASSUME NEW c \in Clients, Ordered(c), Covered(c), UNCHANGED <<seq, restarts>>,
           chan'[c] = chan[c], pending'[c] = pending[c], wire'[c] = wire[c], got'[c] = got[c],
           stage'[c] = stage[c], replayedTo'[c] = replayedTo[c], last'[c] = last[c], lost'[c] = lost[c]
    PROVE  Ordered(c)' /\ Covered(c)'
BY DEF Ordered, Covered, Chan, Pending, Wire, Got

-----------------------------------------------------------------------------
(* The bus.                                                                 *)

\* Keeping the newest RingCap of the events up to n.
LEMMA NewestKept ==
    ASSUME NEW s \in Seq(Nat), NEW n \in Nat, UpTo(s, n)
    PROVE  Newest(s) \in Seq(Nat) /\ UpTo(Newest(s), n)
<1>0. RingCap \in Nat \ {0} /\ Len(s) \in Nat
  BY CapsAssumption
<1>1. CASE Len(s) > RingCap
  <2> DEFINE m == Len(s) - RingCap + 1
             t == SubSeq(s, m, Len(s))
  <2>1. m \in Int /\ Len(s) \in Int /\ m <= Len(s) /\ Len(s) - m + 1 = RingCap
    BY <1>0, <1>1
  <2>2. \A i \in m..Len(s) : s[i] \in Nat
    BY <1>0, <1>1
  <2> HIDE DEF m
  <2>3. /\ t \in Seq(Nat)
        /\ Len(t) = IF m <= Len(s) THEN Len(s) - m + 1 ELSE 0
        /\ \A i \in 1..Len(s) - m + 1 : t[i] = s[m + i - 1]
    BY <2>1, <2>2, SubSeqProperties
  <2> HIDE DEF t
  <2>4. Len(t) = RingCap /\ \A i \in 1..RingCap : t[i] = s[m + i - 1]
    BY <2>1, <2>3
  <2>5. ASSUME NEW k \in 1..RingCap PROVE t[k] = n - RingCap + k
    <3>1. m + k - 1 \in 1..Len(s) /\ m + k - 1 = Len(s) - RingCap + k
      BY <1>0, <1>1 DEF m
    <3>2. s[m + k - 1] = n - Len(s) + (m + k - 1)
      BY <3>1 DEF UpTo
    <3> QED BY <1>0, <2>4, <3>1, <3>2
  <2>6. UpTo(t, n)
    BY <1>0, <1>1, <2>4, <2>5 DEF UpTo
  <2>7. Newest(s) = t
    BY <1>1 DEF Newest, t, m
  <2> QED BY <2>3, <2>6, <2>7
<1>2. CASE ~(Len(s) > RingCap)
  BY <1>2 DEF Newest
<1> QED BY <1>1, <1>2

\* The next event comes after the events up to n.
LEMMA NextAdded ==
    ASSUME NEW s \in Seq(Nat), NEW n \in Nat, UpTo(s, n)
    PROVE  Append(s, n + 1) \in Seq(Nat) /\ UpTo(Append(s, n + 1), n + 1)
<1> DEFINE t == Append(s, n + 1)
<1>1. /\ t \in Seq(Nat) /\ Len(t) = Len(s) + 1 /\ Len(s) \in Nat
      /\ \A k \in 1..Len(s) : t[k] = s[k]
      /\ t[Len(s) + 1] = n + 1
  OBVIOUS
<1> HIDE DEF t
<1>2. ASSUME NEW k \in 1..Len(t) PROVE t[k] = n + 1 - Len(t) + k
  <2>1. CASE k = Len(s) + 1
    BY <1>1, <2>1
  <2>2. CASE k # Len(s) + 1
    <3>1. k \in 1..Len(s)
      BY <1>1, <2>2
    <3> QED BY <1>1, <3>1 DEF UpTo
  <2> QED BY <2>1, <2>2
<1>3. UpTo(t, n + 1)
  BY <1>1, <1>2 DEF UpTo
<1> QED BY <1>1, <1>3 DEF t

\* Recent returns the retained events after the given one, in order.
LEMMA RecentIs ==
    ASSUME Types, RingInOrder, NEW after \in Nat
    PROVE  /\ Recent(after) \in Seq(Nat) /\ Increasing(Recent(after))
           /\ Range(Recent(after)) = {e \in Range(ring) : e > after}
           /\ \A e \in Range(ring) : e <= seq
<1> DEFINE low == seq - Len(ring)
           P(n) == \A k \in DOMAIN ring : ring[k] > after <=> k > n
           n == Dropped(after)
           t == Recent(after)
<1>1. /\ seq \in Nat /\ Len(ring) \in Nat /\ low \in Nat
      /\ ring \in Seq(Nat) /\ DOMAIN ring = 1..Len(ring)
      /\ \A k \in 1..Len(ring) : ring[k] = low + k
  BY BoundsAssumption DEF Types, RingInOrder, UpTo
<1> HIDE DEF low
<1>2. \E m \in 0..Len(ring) : P(m)
  <2>1. CASE after <= low
    <3>1. 0 \in 0..Len(ring) /\ P(0)
      BY <1>1, <2>1
    <3> QED BY <3>1
  <2>2. CASE low < after /\ after <= seq
    <3>1. after - low \in 0..Len(ring) /\ P(after - low)
      BY <1>1, <2>2 DEF low
    <3> QED BY <3>1
  <2>3. CASE after > seq
    <3>1. Len(ring) \in 0..Len(ring) /\ P(Len(ring))
      BY <1>1, <2>3 DEF low
    <3> QED BY <3>1
  <2> QED BY <1>1, <2>1, <2>2, <2>3
<1>3. n \in 0..Len(ring) /\ P(n)
  <2>1. n = CHOOSE m \in 0..Len(ring) : P(m)
    BY DEF Dropped
  <2> HIDE DEF P, n
  <2> QED BY <1>2, <2>1
<1>4. t = SubSeq(ring, n + 1, Len(ring))
  BY DEF Recent
<1> HIDE DEF n, t
<1>5. n + 1 \in Int /\ Len(ring) \in Int /\ \A i \in n + 1..Len(ring) : ring[i] \in Nat
  BY <1>1, <1>3
<1>6. /\ t \in Seq(Nat) /\ Len(t) = Len(ring) - n
      /\ \A i \in 1..Len(ring) - n : t[i] = ring[n + i]
  <2>1. /\ t \in Seq(Nat)
        /\ Len(t) = IF n + 1 <= Len(ring) THEN Len(ring) - (n + 1) + 1 ELSE 0
        /\ \A i \in 1..Len(ring) - (n + 1) + 1 : t[i] = ring[n + 1 + i - 1]
    BY <1>4, <1>5, SubSeqProperties
  <2>2. Len(t) = Len(ring) - n /\ Len(ring) - (n + 1) + 1 = Len(ring) - n
    <3>1. n \in Nat /\ Len(ring) \in Nat /\ n <= Len(ring)
      BY <1>1, <1>3
    <3>2. Len(t) = IF n + 1 <= Len(ring) THEN Len(ring) - (n + 1) + 1 ELSE 0
      BY <2>1
    <3> QED BY <3>1, <3>2
  <2>3. ASSUME NEW i \in 1..Len(ring) - n PROVE t[i] = ring[n + i]
    <3>1. n + 1 + i - 1 = n + i
      BY <1>3, <1>1
    <3> QED BY <2>1, <2>2, <3>1
  <2> QED BY <2>1, <2>2, <2>3
<1>7. \A i \in 1..Len(ring) - n : n + i \in 1..Len(ring) /\ t[i] = low + n + i
  BY <1>1, <1>3, <1>6
<1>8. DOMAIN t = 1..Len(ring) - n
  BY <1>6
<1>9. Increasing(t)
  <2>1. ASSUME NEW j \in 1..Len(ring) - n, NEW k \in 1..Len(ring) - n, j < k PROVE t[j] < t[k]
    BY <1>1, <1>3, <1>7, <2>1
  <2> QED BY <1>8, <2>1 DEF Increasing
<1>10. ASSUME NEW e \in Range(t) PROVE e \in Range(ring) /\ e > after
  <2>1. PICK i \in 1..Len(ring) - n : t[i] = e
    BY <1>8 DEF Range
  <2>2. n + i \in 1..Len(ring) /\ e = ring[n + i] /\ n + i > n
    BY <1>1, <1>3, <1>6, <1>7, <2>1
  <2> QED BY <1>1, <1>3, <2>2, InRange
<1>11. ASSUME NEW e \in Range(ring), e > after PROVE e \in Range(t)
  <2>1. PICK k \in 1..Len(ring) : ring[k] = e
    BY <1>1, InRange
  <2>2. k > n
    BY <1>1, <1>3, <1>11, <2>1
  <2>3. k - n \in 1..Len(ring) - n /\ n + (k - n) = k
    BY <1>1, <1>3, <2>2
  <2>4. t[k - n] = e
    BY <1>6, <2>1, <2>3
  <2> QED BY <1>6, <2>3, <2>4, InRange
<1>12. ASSUME NEW e \in Range(ring) PROVE e <= seq
  <2>1. PICK k \in 1..Len(ring) : ring[k] = e
    BY <1>1, InRange
  <2> QED BY <1>1, <2>1 DEF low
<1> QED BY <1>6, <1>9, <1>10, <1>11, <1>12 DEF t

-----------------------------------------------------------------------------
(* One lemma per step of the handler, the client and the network.           *)

\* A step of one connection: the others and the bus stay as they are.
LEMMA OneConnection ==
    ASSUME StreamInv, NEW d \in Clients, UNCHANGED <<seq, ring, restarts>>, Types',
           \A c \in Clients \ {d} :
               /\ chan'[c] = chan[c] /\ pending'[c] = pending[c] /\ wire'[c] = wire[c]
               /\ got'[c] = got[c] /\ stage'[c] = stage[c] /\ replayedTo'[c] = replayedTo[c]
               /\ last'[c] = last[c] /\ lost'[c] = lost[c],
           Ordered(d)', Covered(d)'
    PROVE  StreamInv'
<1>1. ASSUME NEW c \in Clients, c # d PROVE Ordered(c)' /\ Covered(c)'
  BY <1>1, Untouched DEF StreamInv
<1>2. RingInOrder'
  BY DEF StreamInv, RingInOrder
<1> QED BY <1>1, <1>2 DEF StreamInv

\* Subscribe: an empty channel, nothing in transit.
LEMMA SubscribeKeeps == ASSUME StreamInv, NEW d \in Clients, Subscribe(d) PROVE StreamInv'
<1> USE DEF client
<1>1. Types'
  BY NoEvents DEF StreamInv, Types, Subscribe
<1>2. /\ chan'[d] = <<>> /\ stage'[d] = "subscribed" /\ replayedTo'[d] = 0 /\ stage[d] = "off"
      /\ UNCHANGED <<seq, ring, restarts, pending, wire, got, last, lost>>
  BY DEF StreamInv, Types, Subscribe
<1>3. Ordered(d) /\ Covered(d)
  BY DEF StreamInv
<1>4. Ordered(d)'
  BY <1>2, <1>3, NoEvents DEF Ordered, Chan, Pending, Wire, Got
<1>5. Covered(d)'
  BY <1>2, <1>3 DEF Covered, Chan, Pending, Wire, Got
<1> QED BY <1>1, <1>2, <1>4, <1>5, OneConnection DEF Subscribe

\* Replay: what the ring retains after the client's last goes to the replay, the rest is lost.
LEMMA ReplayKeeps == ASSUME StreamInv, NEW d \in Clients, Replay(d) PROVE StreamInv'
<1> USE DEF client
<1> DEFINE rest == Recent(last[d])
<1>1. /\ rest \in Seq(Nat) /\ Increasing(rest)
      /\ Range(rest) = {e \in Range(ring) : e > last[d]}
      /\ \A e \in Range(ring) : e <= seq
  BY RecentIs DEF StreamInv, Types
<1>2. /\ pending'[d] = rest /\ stage'[d] = "replaying" /\ stage[d] = "subscribed"
      /\ lost'[d] = lost[d] \cup Evicted(d)
      /\ UNCHANGED <<seq, ring, restarts, chan, wire, got, last, replayedTo>>
  BY DEF StreamInv, Types, Replay
<1>3. Types'
  <2>1. pending' \in [Clients -> Seq(Nat)]
    BY <1>1 DEF StreamInv, Types, Replay
  <2>2. Evicted(d) \subseteq Nat
    BY DEF Evicted, Events
  <2>3. lost' \in [Clients -> SUBSET Nat]
    BY <2>2 DEF StreamInv, Types, Replay
  <2>4. stage' \in [Clients -> {"off", "subscribed", "replaying", "live"}]
    BY DEF StreamInv, Types, Replay
  <2> QED BY <2>1, <2>3, <2>4 DEF StreamInv, Types, Replay
<1> HIDE DEF rest
<1>4. Ordered(d) /\ Covered(d)
  BY DEF StreamInv
<1>5. wire[d] = <<>> /\ Wire(d) = {} /\ replayedTo[d] = 0 /\ Wire(d)' = {} /\ Pending(d) = {}
  BY <1>2, <1>4, NoEvents DEF Ordered, Wire, Pending
<1>6. seq \in Nat /\ last[d] \in Nat /\ Pending(d)' = Range(rest) /\ Got(d)' = Got(d) /\ Chan(d)' = Chan(d)
  BY <1>2, BoundsAssumption DEF StreamInv, Types, Pending, Got, Chan
<1>7. Got(d) \subseteq Nat /\ Chan(d) \subseteq Nat /\ Range(rest) \subseteq Nat
  BY <1>1, InRange DEF StreamInv, Types, Got, Chan
<1>8. Ordered(d)'
  <2>1. ASSUME NEW g \in Got(d), NEW e \in Range(rest) PROVE g < e
    <3>1. g <= last[d] /\ e > last[d]
      BY <1>1, <1>4 DEF Ordered
    <3> QED BY <3>1, <1>6, <1>7
  <2>2. \A e \in Range(rest) : 0 < e
    BY <1>1, <1>6, <1>7
  <2>3. \A e \in Chan(d) \cup Range(rest) \cup Got(d) : e <= seq
    BY <1>1, <1>4 DEF Ordered
  <2>4. \A x \in Got(d), y \in Chan(d) : x < y \/ y <= replayedTo[d]
    BY <1>2, <1>4 DEF Ordered
  <2> QED
    BY <1>1, <1>2, <1>4, <1>5, <1>6, <2>1, <2>2, <2>3, <2>4 DEF Ordered
<1>9. ASSUME restarts = 0, NEW e \in 1..seq PROVE e \in Got(d) \cup Range(rest) \cup lost'[d]
  <2>1. CASE e <= last[d]
    <3>1. e \in 1..last[d]
      BY <1>6, <2>1
    <3> QED BY <1>2, <1>4, <1>9, <3>1 DEF Covered
  <2>2. CASE ~(e <= last[d])
    <3>1. e > last[d] /\ e <= seq /\ e \in Events
      BY <1>6, <2>2, BoundsAssumption DEF StreamInv, Types, Events
    <3>2. CASE e \in Range(ring)
      BY <1>1, <3>1, <3>2
    <3>3. CASE e \notin Range(ring)
      BY <1>2, <1>6, <3>1, <3>3 DEF Evicted
    <3> QED BY <3>2, <3>3
  <2> QED BY <2>1, <2>2
<1>10. Covered(d)'
  <2>0. CASE restarts # 0
    <3>1. restarts' # 0
      BY <1>2, <2>0
    <3> QED BY <3>1 DEF Covered
  <2> SUFFICES ASSUME restarts = 0 PROVE Covered(d)'
    BY <2>0
  <2>1. \A e \in 1..last[d] : e \in Got(d) \cup lost'[d]
    BY <1>2, <1>4 DEF Covered
  <2>2. ASSUME NEW p \in Range(rest), NEW e \in 1..p PROVE e \in Got(d) \cup Range(rest) \cup lost'[d]
    <3>1. p \in Nat /\ p <= seq
      BY <1>1, <1>7
    <3>2. e \in 1..seq
      BY <3>1, <1>6
    <3> QED BY <1>9, <3>2
  <2>3. \A e \in 1..replayedTo[d] : FALSE
    BY <1>5
  <2> QED BY <1>2, <1>5, <1>6, <1>9, <2>1, <2>2, <2>3 DEF Covered
<1> QED BY <1>2, <1>3, <1>8, <1>10, OneConnection DEF Replay

\* WriteReplayed: the first event of the replay moves to the wire and marks the channel.
LEMMA WriteReplayedKeeps == ASSUME StreamInv, NEW d \in Clients, WriteReplayed(d) PROVE StreamInv'
<1> USE DEF client
<1> DEFINE e == Head(pending[d])
<1>1. Ordered(d) /\ Covered(d) /\ pending[d] \in Seq(Nat) /\ pending[d] # <<>> /\ wire[d] \in Seq(Nat)
  BY DEF StreamInv, Types, WriteReplayed
<1>2. /\ Tail(pending[d]) \in Seq(Nat) /\ Increasing(Tail(pending[d])) /\ e \in Nat
      /\ Pending(d) = Range(Tail(pending[d])) \cup {e}
      /\ \A x \in Range(Tail(pending[d])) : e < x
  BY <1>1, Taken DEF Ordered, Pending
<1>3. /\ Append(wire[d], e) \in Seq(Nat)
      /\ Range(Append(wire[d], e)) = Wire(d) \cup {e}
      /\ Increasing(wire[d]) /\ (\A x \in Wire(d) : x < e) => Increasing(Append(wire[d], e))
  BY <1>1, <1>2, Appended DEF Wire
<1>4. /\ pending'[d] = Tail(pending[d]) /\ wire'[d] = Append(wire[d], e) /\ replayedTo'[d] = e
      /\ stage[d] = "replaying"
      /\ UNCHANGED <<seq, ring, restarts, chan, stage, got, last, lost>>
  BY DEF StreamInv, Types, WriteReplayed, Write
<1>5. Types'
  BY <1>2, <1>3 DEF StreamInv, Types, WriteReplayed, Write
<1>6. /\ Pending(d)' = Range(Tail(pending[d])) /\ Wire(d)' = Wire(d) \cup {e}
      /\ Got(d)' = Got(d) /\ Chan(d)' = Chan(d)
  BY <1>3, <1>4 DEF Pending, Wire, Got, Chan
<1>7. /\ Got(d) \subseteq Nat /\ Chan(d) \subseteq Nat /\ Wire(d) \subseteq Nat /\ Pending(d) \subseteq Nat
      /\ seq \in Nat /\ replayedTo[d] \in Nat
  BY InRange, BoundsAssumption DEF StreamInv, Types, Got, Chan, Wire, Pending
<1> HIDE DEF e
<1>8. Ordered(d)'
  <2>1. \A x \in Got(d) \cup Wire(d) : x < e
    BY <1>1, <1>2 DEF Ordered
  <2>2. Increasing(wire'[d]) /\ Increasing(pending'[d]) /\ Increasing(chan'[d]) /\ Increasing(got'[d])
    BY <1>1, <1>2, <1>3, <1>4, <2>1 DEF Ordered
  <2>3. replayedTo[d] < e /\ e <= seq
    BY <1>1, <1>2 DEF Ordered
  <2>4. ASSUME NEW x \in Got(d) \cup Wire(d) \cup {e}, NEW y \in Chan(d) PROVE x < y \/ y <= e
    BY <1>1, <1>2, <1>4, <1>7, <2>3 DEF Ordered
  <2>5. \A x \in Got(d) \cup Wire(d) \cup {e}, p \in Pending(d)' : x < p
    BY <1>1, <1>2, <1>6 DEF Ordered
  <2>6. \A x \in Chan(d)' \cup Pending(d)' \cup Wire(d)' \cup Got(d)' : x <= seq
    BY <1>1, <1>2, <1>6 DEF Ordered
  <2>7. \A g \in Got(d), w \in Wire(d) \cup {e} : g < w
    BY <1>1, <2>1 DEF Ordered
  <2>8. \A g \in Got(d) : g <= last[d]
    BY <1>1 DEF Ordered
  <2> QED
    BY <1>4, <1>6, <1>2, <2>2, <2>4, <2>5, <2>6, <2>7, <2>8 DEF Ordered
<1>9. Covered(d)'
  <2>0. CASE restarts # 0
    <3>1. restarts' # 0
      BY <1>4, <2>0
    <3> QED BY <3>1 DEF Covered
  <2> SUFFICES ASSUME restarts = 0 PROVE Covered(d)'
    BY <2>0
  <2>1. ASSUME NEW x \in 1..e PROVE x \in Got(d) \cup Wire(d) \cup {e} \cup lost[d]
    <3>1. x \in Got(d) \cup Wire(d) \cup Pending(d) \cup lost[d]
      BY <1>1, <1>2 DEF Covered
    <3>2. x \in Range(Tail(pending[d])) => FALSE
      BY <1>2, <1>7
    <3> QED BY <1>2, <3>1, <3>2
  <2>2. \A w \in Wire(d) : \A x \in 1..w : x \in Got(d) \cup Wire(d) \cup lost[d]
    BY <1>1 DEF Covered
  <2>3. \A p \in Pending(d)' : \A x \in 1..p : x \in Got(d) \cup Wire(d)' \cup Pending(d)' \cup lost[d]
    BY <1>1, <1>2, <1>6 DEF Covered
  <2>4. \A x \in 1..seq : x \in Got(d) \cup Wire(d)' \cup Pending(d)' \cup Chan(d) \cup lost[d]
    BY <1>1, <1>2, <1>4, <1>6 DEF Covered
  <2>5. \A x \in 1..last[d] : x \in Got(d) \cup lost[d]
    BY <1>1 DEF Covered
  <2> QED BY <1>4, <1>6, <2>1, <2>2, <2>3, <2>4, <2>5 DEF Covered
<1> QED BY <1>4, <1>5, <1>8, <1>9, OneConnection DEF WriteReplayed, Write

\* GoLive: the replay is through.
LEMMA GoLiveKeeps == ASSUME StreamInv, NEW d \in Clients, GoLive(d) PROVE StreamInv'
<1> USE DEF client
<1>1. Types'
  BY DEF StreamInv, Types, GoLive
<1>2. /\ stage'[d] = "live" /\ stage[d] = "replaying" /\ pending[d] = <<>>
      /\ UNCHANGED <<seq, ring, restarts, chan, pending, wire, got, last, lost, replayedTo>>
  BY DEF StreamInv, Types, GoLive
<1>3. Ordered(d) /\ Covered(d)
  BY DEF StreamInv
<1>4. Ordered(d)'
  BY <1>2, <1>3 DEF Ordered, Chan, Pending, Wire, Got
<1>5. Covered(d)'
  BY <1>2, <1>3 DEF Covered, Chan, Pending, Wire, Got
<1> QED BY <1>1, <1>2, <1>4, <1>5, OneConnection DEF GoLive

\* Stream: an event the replay covered is dropped, a later one goes on the wire.
LEMMA StreamKeeps == ASSUME StreamInv, NEW d \in Clients, Stream(d) PROVE StreamInv'
<1> USE DEF client
<1> DEFINE e == Head(chan[d])
<1>1. /\ Ordered(d) /\ Covered(d) /\ chan[d] \in Seq(Nat) /\ chan[d] # <<>> /\ wire[d] \in Seq(Nat)
      /\ stage[d] = "live"
  BY DEF StreamInv, Types, Stream
<1>2. /\ Tail(chan[d]) \in Seq(Nat) /\ Increasing(Tail(chan[d])) /\ e \in Nat
      /\ Chan(d) = Range(Tail(chan[d])) \cup {e}
      /\ \A x \in Range(Tail(chan[d])) : e < x
  BY <1>1, Taken DEF Ordered, Chan
<1>3. /\ Append(wire[d], e) \in Seq(Nat)
      /\ Range(Append(wire[d], e)) = Wire(d) \cup {e}
      /\ Increasing(wire[d]) /\ (\A x \in Wire(d) : x < e) => Increasing(Append(wire[d], e))
  BY <1>1, <1>2, Appended DEF Wire
<1>4. /\ chan'[d] = Tail(chan[d])
      /\ wire'[d] = IF e <= replayedTo[d] THEN wire[d] ELSE Append(wire[d], e)
      /\ UNCHANGED <<seq, ring, restarts, pending, stage, got, last, lost, replayedTo>>
  BY DEF StreamInv, Types, Stream, Write
<1>5. Types'
  BY <1>2, <1>3 DEF StreamInv, Types, Stream, Write
<1>6. /\ Chan(d)' = Range(Tail(chan[d])) /\ Got(d)' = Got(d)
      /\ Wire(d)' = IF e <= replayedTo[d] THEN Wire(d) ELSE Wire(d) \cup {e}
      /\ Pending(d)' = {} /\ Pending(d) = {} /\ pending'[d] = <<>>
  BY <1>1, <1>3, <1>4, NoEvents DEF Ordered, Pending, Wire, Got, Chan
<1>7. /\ Got(d) \subseteq Nat /\ Chan(d) \subseteq Nat /\ Wire(d) \subseteq Nat
      /\ seq \in Nat /\ replayedTo[d] \in Nat
  BY InRange, BoundsAssumption DEF StreamInv, Types, Got, Chan, Wire
<1> HIDE DEF e
<1>8. Ordered(d)'
  <2>1. e <= replayedTo[d] \/ \A x \in Got(d) \cup Wire(d) : x < e
    BY <1>1, <1>2, <1>7 DEF Ordered
  <2>2. Increasing(wire'[d]) /\ Increasing(pending'[d]) /\ Increasing(chan'[d]) /\ Increasing(got'[d])
    BY <1>1, <1>2, <1>3, <1>4, <2>1 DEF Ordered
  <2>3. ASSUME NEW x \in Got(d) \cup Wire(d)', NEW y \in Chan(d)' PROVE x < y \/ y <= replayedTo[d]
    BY <1>1, <1>2, <1>6, <1>7 DEF Ordered
  <2>4. \A x \in Chan(d)' \cup Wire(d)' \cup Got(d)' : x <= seq
    BY <1>1, <1>2, <1>6 DEF Ordered
  <2>5. \A g \in Got(d), w \in Wire(d)' : g < w
    BY <1>1, <1>6, <2>1 DEF Ordered
  <2>6. \A g \in Got(d) : g <= last[d]
    BY <1>1 DEF Ordered
  <2> QED
    BY <1>1, <1>4, <1>6, <2>2, <2>3, <2>4, <2>5, <2>6 DEF Ordered
<1>9. Covered(d)'
  <2>0. CASE restarts # 0
    <3>1. restarts' # 0
      BY <1>4, <2>0
    <3> QED BY <3>1 DEF Covered
  <2> SUFFICES ASSUME restarts = 0 PROVE Covered(d)'
    BY <2>0
  <2>1. e >= 1 /\ e <= replayedTo[d] => e \in Got(d) \cup Wire(d) \cup lost[d]
    BY <1>1, <1>2, <1>7 DEF Covered
  <2>2. \A x \in 1..seq : x \in Got(d) \cup Wire(d) \cup Chan(d) \cup lost[d]
    BY <1>1, <1>6 DEF Covered
  <2>3. \A x \in 1..seq : x \in Got(d) \cup Wire(d)' \cup Chan(d)' \cup lost[d]
    BY <1>2, <1>6, <1>7, <2>1, <2>2
  <2>4. ASSUME NEW w \in Wire(d)', NEW x \in 1..w PROVE x \in Got(d) \cup Wire(d)' \cup lost[d]
    <3>1. CASE w \in Wire(d)
      BY <1>1, <1>6, <3>1 DEF Covered
    <3>2. CASE w \notin Wire(d)
      <4>1. w = e /\ Wire(d)' = Wire(d) \cup {e}
        BY <1>6, <3>2
      <4>2. e <= seq
        BY <1>1, <1>2 DEF Ordered
      <4>3. x \in Got(d) \cup Wire(d) \cup Chan(d) \cup lost[d]
        BY <1>2, <1>7, <2>2, <4>1, <4>2
      <4>4. x \in Range(Tail(chan[d])) => FALSE
        BY <1>2, <1>7, <4>1
      <4> QED BY <1>2, <4>1, <4>3, <4>4
    <3> QED BY <3>1, <3>2
  <2>5. \A x \in 1..last[d] : x \in Got(d) \cup lost[d]
    BY <1>1 DEF Covered
  <2>6. \A x \in 1..replayedTo[d] : x \in Got(d) \cup Wire(d)' \cup lost[d]
    BY <1>1, <1>6 DEF Covered
  <2> QED BY <1>4, <1>6, <2>3, <2>4, <2>5, <2>6 DEF Covered
<1>10. ASSUME NEW c \in Clients, c # d PROVE chan'[c] = chan[c] /\ wire'[c] = wire[c]
  BY <1>10 DEF StreamInv, Types, Stream, Write
<1> QED BY <1>4, <1>5, <1>8, <1>9, <1>10, OneConnection

\* Read: the client takes the first event off the wire.
LEMMA ReadKeeps == ASSUME StreamInv, NEW d \in Clients, Read(d) PROVE StreamInv'
<1> DEFINE e == Head(wire[d])
<1>1. Ordered(d) /\ Covered(d) /\ wire[d] \in Seq(Nat) /\ wire[d] # <<>> /\ got[d] \in Seq(Nat)
  BY DEF StreamInv, Types, Read
<1>2. /\ Tail(wire[d]) \in Seq(Nat) /\ Increasing(Tail(wire[d])) /\ e \in Nat
      /\ Wire(d) = Range(Tail(wire[d])) \cup {e}
      /\ \A x \in Range(Tail(wire[d])) : e < x
  BY <1>1, Taken DEF Ordered, Wire
<1>3. /\ Append(got[d], e) \in Seq(Nat)
      /\ Range(Append(got[d], e)) = Got(d) \cup {e}
      /\ Increasing(got[d]) /\ (\A x \in Got(d) : x < e) => Increasing(Append(got[d], e))
  BY <1>1, <1>2, Appended DEF Got
<1>4. /\ wire'[d] = Tail(wire[d]) /\ got'[d] = Append(got[d], e) /\ last'[d] = e
      /\ UNCHANGED <<seq, ring, restarts, chan, stage, pending, lost, replayedTo>>
  BY DEF StreamInv, Types, Read
<1>5. Types'
  BY <1>2, <1>3 DEF StreamInv, Types, Read
<1>6. /\ Wire(d)' = Range(Tail(wire[d])) /\ Got(d)' = Got(d) \cup {e}
      /\ Pending(d)' = Pending(d) /\ Chan(d)' = Chan(d)
  BY <1>3, <1>4 DEF Pending, Wire, Got, Chan
<1>7. /\ Got(d) \subseteq Nat /\ Chan(d) \subseteq Nat /\ Wire(d) \subseteq Nat /\ Pending(d) \subseteq Nat
      /\ seq \in Nat /\ replayedTo[d] \in Nat
  BY InRange, BoundsAssumption DEF StreamInv, Types, Got, Chan, Wire, Pending
<1>8. stage[d] \in {"replaying", "live"}
  BY <1>1 DEF Ordered, StreamInv, Types
<1> HIDE DEF e
<1>9. Ordered(d)'
  <2>1. \A x \in Got(d) : x < e
    BY <1>1, <1>2 DEF Ordered
  <2>2. Increasing(wire'[d]) /\ Increasing(pending'[d]) /\ Increasing(chan'[d]) /\ Increasing(got'[d])
    BY <1>1, <1>2, <1>3, <1>4, <2>1 DEF Ordered
  <2>3. Got(d)' \cup Wire(d)' = Got(d) \cup Wire(d)
    BY <1>2, <1>6
  <2>4. \A x \in Chan(d)' \cup Pending(d)' \cup Wire(d)' \cup Got(d)' : x <= seq
    BY <1>1, <1>2, <1>6 DEF Ordered
  <2>5. \A g \in Got(d)', w \in Wire(d)' : g < w
    BY <1>1, <1>2, <1>6 DEF Ordered
  <2>6. \A g \in Got(d)' : g <= e
    BY <1>2, <1>6, <1>7, <2>1
  <2>7. \A x \in Got(d)' \cup Wire(d)', p \in Pending(d)' : x < p
    BY <1>1, <1>6, <2>3 DEF Ordered
  <2>8. \A x \in Got(d)' \cup Wire(d)', y \in Chan(d)' : x < y \/ y <= replayedTo[d]
    BY <1>1, <1>6, <1>8, <2>3 DEF Ordered
  <2>9. (\A p \in Pending(d)' : replayedTo[d] < p) /\ (stage[d] = "live" => pending[d] = <<>>)
    BY <1>1, <1>6 DEF Ordered
  <2> QED
    BY <1>4, <1>8, <2>2, <2>4, <2>5, <2>6, <2>7, <2>8, <2>9 DEF Ordered
<1>10. Covered(d)'
  <2>0. CASE restarts # 0
    <3>1. restarts' # 0
      BY <1>4, <2>0
    <3> QED BY <3>1 DEF Covered
  <2> SUFFICES ASSUME restarts = 0 PROVE Covered(d)'
    BY <2>0
  <2>1. Got(d)' \cup Wire(d)' = Got(d) \cup Wire(d)
    BY <1>2, <1>6
  <2>2. ASSUME NEW x \in 1..e PROVE x \in Got(d)' \cup lost[d]
    <3>1. x \in Got(d) \cup Wire(d) \cup lost[d]
      BY <1>1, <1>2 DEF Covered
    <3>2. x \in Range(Tail(wire[d])) => FALSE
      BY <1>2, <1>7
    <3> QED BY <1>2, <1>6, <3>1, <3>2
  <2>3. \A w \in Wire(d)' : \A x \in 1..w : x \in Got(d)' \cup Wire(d)' \cup lost[d]
    BY <1>1, <1>2, <1>6, <2>1 DEF Covered
  <2>4. \A p \in Pending(d)' : \A x \in 1..p : x \in Got(d)' \cup Wire(d)' \cup Pending(d)' \cup lost[d]
    BY <1>1, <1>6, <2>1 DEF Covered
  <2>5. /\ \A x \in 1..replayedTo[d] : x \in Got(d)' \cup Wire(d)' \cup lost[d]
        /\ \A x \in 1..seq : x \in Got(d)' \cup Wire(d)' \cup Pending(d)' \cup Chan(d)' \cup lost[d]
    BY <1>1, <1>6, <1>8, <2>1 DEF Covered
  <2> QED BY <1>4, <2>2, <2>3, <2>4, <2>5 DEF Covered
<1> QED BY <1>4, <1>5, <1>9, <1>10, OneConnection DEF Read

\* Disconnect: what was in transit is gone; the client keeps what it read.
LEMMA DisconnectKeeps == ASSUME StreamInv, NEW d \in Clients, Disconnect(d) PROVE StreamInv'
<1> USE DEF client
<1>1. Types'
  BY NoEvents DEF StreamInv, Types, Disconnect
<1>2. /\ stage'[d] = "off" /\ chan'[d] = <<>> /\ pending'[d] = <<>> /\ wire'[d] = <<>>
      /\ UNCHANGED <<seq, ring, restarts, got, last, lost, replayedTo>>
  BY DEF StreamInv, Types, Disconnect
<1>3. Ordered(d) /\ Covered(d)
  BY DEF StreamInv
<1>4. Ordered(d)'
  BY <1>2, <1>3, NoEvents DEF Ordered, Chan, Pending, Wire, Got
<1>5. Covered(d)'
  BY <1>2, <1>3, NoEvents DEF Covered, Chan, Pending, Wire, Got
<1> QED BY <1>1, <1>2, <1>4, <1>5, OneConnection DEF Disconnect

\* Publish: the new event is the latest of every channel that takes it, and lost to the
\* subscribers whose channel is full.
LEMMA PublishKeeps == ASSUME StreamInv, Publish PROVE StreamInv'
<1> USE DEF client
<1>1. seq \in Nat /\ seq' = seq + 1 /\ seq' \in 0..MaxSeq /\ ring' = Newest(Append(ring, seq + 1))
  BY BoundsAssumption DEF StreamInv, Types, Publish
<1>2. ring' \in Seq(Nat) /\ RingInOrder'
  <2>1. Append(ring, seq + 1) \in Seq(Nat) /\ UpTo(Append(ring, seq + 1), seq + 1)
    BY <1>1, NextAdded DEF StreamInv, Types, RingInOrder
  <2>2. seq + 1 \in Nat
    BY <1>1
  <2>3. Newest(Append(ring, seq + 1)) \in Seq(Nat) /\ UpTo(Newest(Append(ring, seq + 1)), seq + 1)
    BY <2>1, <2>2, NewestKept
  <2> QED BY <1>1, <2>3 DEF RingInOrder
<1>3. ASSUME NEW c \in Clients
      PROVE  /\ Append(chan[c], seq + 1) \in Seq(Nat)
             /\ Range(Append(chan[c], seq + 1)) = Chan(c) \cup {seq + 1}
             /\ Increasing(Append(chan[c], seq + 1))
  <2>1. chan[c] \in Seq(Nat) /\ seq + 1 \in Nat /\ Increasing(chan[c])
    BY <1>1 DEF StreamInv, Types, Ordered
  <2>2. ASSUME NEW x \in Chan(c) PROVE x < seq + 1
    <3>1. x \in Nat
      BY <2>1, InRange DEF Chan
    <3>2. x <= seq
      BY DEF StreamInv, Ordered
    <3> QED BY <1>1, <3>1, <3>2
  <2> QED BY <2>1, <2>2, Appended DEF Chan
<1>4. Types'
  <2>1. chan' \in [Clients -> Seq(Nat)]
    BY <1>3 DEF StreamInv, Types, Publish
  <2>2. lost' \in [Clients -> SUBSET Nat]
    BY <1>1 DEF StreamInv, Types, Publish
  <2> QED BY <1>1, <1>2, <2>1, <2>2 DEF StreamInv, Types, Publish
<1>5. ASSUME NEW c \in Clients PROVE Ordered(c)' /\ Covered(c)'
  <2>1. Ordered(c) /\ Covered(c)
    BY DEF StreamInv
  <2>2. UNCHANGED <<stage, pending, wire, got, last, replayedTo, restarts>>
    BY DEF Publish
  <2>3. Pending(c)' = Pending(c) /\ Wire(c)' = Wire(c) /\ Got(c)' = Got(c)
    BY <2>2 DEF Pending, Wire, Got
  <2>4. /\ Got(c) \subseteq Nat /\ Chan(c) \subseteq Nat /\ Wire(c) \subseteq Nat /\ Pending(c) \subseteq Nat
    BY InRange DEF StreamInv, Types, Got, Chan, Wire, Pending
  <2>5. /\ Increasing(chan'[c])
        /\ stage[c] # "off" => \/ Chan(c)' = Chan(c) \cup {seq + 1} /\ lost'[c] = lost[c]
                               \/ Chan(c)' = Chan(c) /\ lost'[c] = lost[c] \cup {seq + 1}
        /\ stage[c] = "off" => Chan(c)' = Chan(c) /\ lost'[c] = lost[c]
    <3>1. CASE stage[c] = "off" \/ Full(c)
      BY <2>1, <3>1 DEF Publish, Ordered, Chan
    <3>2. CASE ~(stage[c] = "off" \/ Full(c))
      BY <1>3, <3>2 DEF Publish, Chan
    <3> QED BY <3>1, <3>2
  <2>6. Ordered(c)'
    <3>1. \A x \in Chan(c)' \cup Pending(c)' \cup Wire(c)' \cup Got(c)' : x <= seq'
      BY <1>1, <2>1, <2>3, <2>4, <2>5 DEF Ordered
    <3>2. stage[c] # "off" => \A x \in Got(c) \cup Wire(c), y \in Chan(c)' : x < y \/ y <= replayedTo[c]
      <4>1. \A x \in Got(c) \cup Wire(c) : x < seq + 1
        BY <1>1, <2>1, <2>4 DEF Ordered
      <4> QED BY <2>1, <2>5, <4>1 DEF Ordered
    <3> QED BY <2>1, <2>2, <2>3, <2>5, <3>1, <3>2 DEF Ordered
  <2>7. Covered(c)'
    <3>0. CASE restarts # 0
      <4>1. restarts' # 0
        BY <2>2, <3>0
      <4> QED BY <4>1 DEF Covered
    <3> SUFFICES ASSUME restarts = 0 PROVE Covered(c)'
      BY <3>0
    <3>1. lost[c] \subseteq lost'[c]
      BY <2>5
    <3>2. stage[c] \in {"replaying", "live"} => \A x \in 1..seq' :
            x \in Got(c) \cup Wire(c) \cup Pending(c) \cup Chan(c)' \cup lost'[c]
      <4>1. \A x \in 1..seq' : x \in 1..seq \/ x = seq + 1
        BY <1>1
      <4> QED BY <2>1, <2>5, <4>1 DEF Covered
    <3>3. \A x \in 1..last[c] : x \in Got(c) \cup lost'[c]
      BY <2>1, <3>1 DEF Covered
    <3>4. \A w \in Wire(c) : \A x \in 1..w : x \in Got(c) \cup Wire(c) \cup lost'[c]
      BY <2>1, <3>1 DEF Covered
    <3>5. \A p \in Pending(c) : \A x \in 1..p : x \in Got(c) \cup Wire(c) \cup Pending(c) \cup lost'[c]
      BY <2>1, <3>1 DEF Covered
    <3>6. stage[c] \in {"replaying", "live"} =>
            \A x \in 1..replayedTo[c] : x \in Got(c) \cup Wire(c) \cup lost'[c]
      BY <2>1, <3>1 DEF Covered
    <3> QED BY <2>2, <2>3, <3>2, <3>3, <3>4, <3>5, <3>6 DEF Covered
  <2> QED BY <2>6, <2>7
<1> QED BY <1>2, <1>4, <1>5 DEF StreamInv

\* Restart: a new bus, nothing in transit, a client that remembers only its last event.
LEMMA RestartKeeps == ASSUME StreamInv, Restart PROVE StreamInv'
<1>1. Types'
  BY NoEvents, BoundsAssumption DEF StreamInv, Types, Restart, Empty
<1>2. RingInOrder'
  BY DEF Restart, RingInOrder, UpTo
<1>3. restarts' # 0
  BY DEF StreamInv, Types, Restart
<1>4. ASSUME NEW c \in Clients PROVE Ordered(c)' /\ Covered(c)'
  <2>1. chan'[c] = <<>> /\ pending'[c] = <<>> /\ wire'[c] = <<>> /\ got'[c] = <<>> /\ stage'[c] = "off"
    BY DEF Restart, Empty
  <2>2. Ordered(c)'
    BY <2>1, NoEvents DEF Ordered, Chan, Pending, Wire, Got
  <2>3. Covered(c)'
    BY <1>3 DEF Covered
  <2> QED BY <2>2, <2>3
<1> QED BY <1>1, <1>2, <1>4 DEF StreamInv

-----------------------------------------------------------------------------
\* Every step keeps the invariant.
LEMMA StreamInductive == StreamInv /\ [Next]_vars => StreamInv'
<1> SUFFICES ASSUME StreamInv, [Next]_vars PROVE StreamInv'
  OBVIOUS
<1>1. CASE UNCHANGED vars
  <2>1. UNCHANGED <<seq, ring, restarts, chan, stage, pending, wire, got, last, lost, replayedTo>>
    BY <1>1 DEF vars, conn, client
  <2>2. \A c \in Clients : Ordered(c)' /\ Covered(c)'
    BY <2>1, Untouched DEF StreamInv
  <2> QED BY <2>1, <2>2 DEF StreamInv, Types, RingInOrder
<1>2. ASSUME NEW c \in Clients, Serve(c) \/ Disconnect(c) PROVE StreamInv'
  BY <1>2, SubscribeKeeps, ReplayKeeps, WriteReplayedKeeps, GoLiveKeeps, StreamKeeps, ReadKeeps,
     DisconnectKeeps, Zenon
  DEF Serve
<1> QED BY <1>1, <1>2, PublishKeeps, RestartKeeps, Zenon DEF Next

\* Nothing has been published or read.
LEMMA StreamStarts == Init => StreamInv
<1> SUFFICES ASSUME Init PROVE StreamInv
  OBVIOUS
<1>1. Types
  BY NoEvents, BoundsAssumption DEF Init, Types, Empty
<1>2. RingInOrder
  BY DEF Init, RingInOrder, UpTo
<1>3. ASSUME NEW c \in Clients PROVE Ordered(c) /\ Covered(c)
  <2>1. /\ chan[c] = <<>> /\ pending[c] = <<>> /\ wire[c] = <<>> /\ got[c] = <<>>
        /\ stage[c] = "off" /\ last[c] = 0
    BY DEF Init, Empty
  <2> QED BY <2>1, NoEvents DEF Ordered, Covered, Chan, Pending, Wire, Got
<1> QED BY <1>1, <1>2, <1>3 DEF StreamInv

\* For any number of consoles and events and any capacities, whenever connections break: a console
\* reads each event once and in order, and within one life of the server misses none but those
\* the bus skipped for it or evicted.
THEOREM StreamIsFaithful == Spec => []StreamFaithful
<1>1. StreamInv => StreamFaithful
  <2>1. StreamInv => InOrder
    BY DEF StreamInv, Ordered, Increasing, InOrder
  <2>2. StreamInv => NoGap
    BY DEF StreamInv, Covered, Got, NoGap
  <2> QED BY <2>1, <2>2 DEF StreamFaithful
<1> QED BY <1>1, StreamStarts, StreamInductive, PTL DEF Spec

-----------------------------------------------------------------------------
(* The capacities, and the types.                                           *)

\* What the types add to StreamInv: the ring and the channels keep to their capacities, events
\* count from 1, and what a client or a handler remembers was published.
Bounded(c) ==
    /\ Len(chan[c]) <= BufCap
    /\ 0 \notin Chan(c) \cup Wire(c) \cup Got(c)
    /\ replayedTo[c] <= MaxSeq /\ last[c] <= MaxSeq
    /\ lost[c] \subseteq Events
BoundsInv ==
    /\ Len(ring) <= RingCap
    /\ \A c \in Clients : Bounded(c)
    /\ drops \in 0..MaxDrops /\ restarts \in 0..MaxRestarts

\* The events in transit are numbers up to seq, and those of a replay come after replayedTo.
LEMMA InTransit ==
    ASSUME StreamInv, NEW c \in Clients
    PROVE  /\ seq \in Nat /\ seq <= MaxSeq /\ MaxSeq \in Nat
           /\ \A e \in Chan(c) \cup Pending(c) \cup Wire(c) \cup Got(c) : e \in Nat /\ e <= seq /\ e <= MaxSeq
           /\ 0 \notin Pending(c)
<1>1. seq \in Nat /\ seq <= MaxSeq /\ MaxSeq \in Nat
  BY BoundsAssumption DEF StreamInv, Types
<1>2. /\ Got(c) \subseteq Nat /\ Chan(c) \subseteq Nat /\ Wire(c) \subseteq Nat /\ Pending(c) \subseteq Nat
      /\ replayedTo[c] \in Nat
  BY InRange DEF StreamInv, Types, Got, Chan, Wire, Pending
<1>3. \A e \in Chan(c) \cup Pending(c) \cup Wire(c) \cup Got(c) : e <= seq
  BY DEF StreamInv, Ordered
<1>4. \A p \in Pending(c) : replayedTo[c] < p
  BY DEF StreamInv, Ordered
<1> QED BY <1>1, <1>2, <1>3, <1>4

\* The first of a sequence of events and the rest are events of the sequence; the rest is shorter.
LEMMA TakenFrom ==
    ASSUME NEW s \in Seq(Nat), s # <<>>, Increasing(s)
    PROVE  Head(s) \in Range(s) /\ Range(Tail(s)) \subseteq Range(s) /\ Len(Tail(s)) <= Len(s)
<1>1. Len(Tail(s)) = Len(s) - 1 /\ Len(s) \in Nat
  BY HeadTailProperties
<1>2. Len(Tail(s)) <= Len(s)
  BY <1>1
<1> QED BY <1>2, Taken

\* A step of one connection.
LEMMA OneBounded ==
    ASSUME BoundsInv, NEW d \in Clients, Bounded(d)', UNCHANGED <<ring, restarts>>,
           drops' \in 0..MaxDrops,
           \A c \in Clients \ {d} :
               /\ chan'[c] = chan[c] /\ wire'[c] = wire[c] /\ got'[c] = got[c]
               /\ replayedTo'[c] = replayedTo[c] /\ last'[c] = last[c] /\ lost'[c] = lost[c]
    PROVE  BoundsInv'
<1>1. ASSUME NEW c \in Clients, c # d PROVE Bounded(c)'
  BY <1>1 DEF BoundsInv, Bounded, Chan, Wire, Got
<1> QED BY <1>1 DEF BoundsInv

\* Steps of the handler and of the client.
LEMMA ServeBounded ==
    ASSUME StreamInv, BoundsInv, NEW d \in Clients, Serve(d)
    PROVE  BoundsInv'
<1> USE DEF client
<1>0. Bounded(d) /\ drops \in 0..MaxDrops /\ Ordered(d) /\ Types
  BY DEF BoundsInv, StreamInv
<1>1. CASE Subscribe(d)
  <2>1. /\ chan'[d] = <<>> /\ replayedTo'[d] = 0
        /\ UNCHANGED <<ring, restarts, drops, wire, got, last, lost>>
        /\ \A c \in Clients \ {d} : chan'[c] = chan[c] /\ replayedTo'[c] = replayedTo[c]
    BY <1>0, <1>1 DEF Types, Subscribe
  <2>2. Bounded(d)'
    BY <1>0, <2>1, NoEvents, CapsAssumption, BoundsAssumption DEF Bounded, Chan, Wire, Got
  <2> QED BY <1>0, <2>1, <2>2, OneBounded
<1>2. CASE Replay(d)
  <2>1. /\ lost'[d] = lost[d] \cup Evicted(d)
        /\ UNCHANGED <<ring, restarts, drops, chan, wire, got, last, replayedTo>>
        /\ \A c \in Clients \ {d} : lost'[c] = lost[c]
    BY <1>0, <1>2 DEF Types, Replay
  <2>2. Bounded(d)'
    BY <1>0, <2>1 DEF Bounded, Chan, Wire, Got, Evicted
  <2> QED BY <1>0, <2>1, <2>2, OneBounded
<1>3. CASE WriteReplayed(d)
  <2> DEFINE e == Head(pending[d])
  <2>1. /\ wire'[d] = Append(wire[d], e) /\ replayedTo'[d] = e /\ pending[d] # <<>>
        /\ UNCHANGED <<ring, restarts, drops, chan, got, last, lost>>
        /\ \A c \in Clients \ {d} : wire'[c] = wire[c] /\ replayedTo'[c] = replayedTo[c]
    BY <1>0, <1>3 DEF Types, WriteReplayed, Write
  <2>2. e \in Pending(d)
    BY <1>0, <2>1, TakenFrom DEF Types, Ordered, Pending
  <2> HIDE DEF e
  <2>3. e \in Nat /\ e # 0 /\ e <= MaxSeq
    BY <2>2, InTransit
  <2>4. Wire(d)' = Wire(d) \cup {e}
    BY <1>0, <2>1, <2>3, Appended DEF Types, Wire
  <2>5. Bounded(d)'
    BY <1>0, <2>1, <2>3, <2>4 DEF Bounded, Chan, Got
  <2> QED BY <1>0, <2>1, <2>5, OneBounded
<1>4. CASE GoLive(d)
  <2>1. UNCHANGED <<ring, restarts, drops, chan, wire, got, last, lost, replayedTo>>
    BY <1>4 DEF GoLive
  <2> QED BY <2>1 DEF BoundsInv, Bounded, Chan, Wire, Got
<1>5. CASE Stream(d)
  <2> DEFINE e == Head(chan[d])
  <2>1. /\ chan'[d] = Tail(chan[d]) /\ wire'[d] \in {wire[d], Append(wire[d], e)} /\ chan[d] # <<>>
        /\ UNCHANGED <<ring, restarts, drops, got, last, lost, replayedTo>>
        /\ \A c \in Clients \ {d} : wire'[c] = wire[c] /\ chan'[c] = chan[c]
    BY <1>0, <1>5 DEF Types, Stream, Write
  <2>2. /\ e \in Chan(d) /\ Chan(d)' \subseteq Chan(d) /\ Len(chan'[d]) <= Len(chan[d])
        /\ chan'[d] \in Seq(Nat) /\ chan[d] \in Seq(Nat)
    BY <1>0, <2>1, TakenFrom, Taken DEF Types, Ordered, Chan
  <2> HIDE DEF e
  <2>3. e \in Nat /\ e # 0
    BY <1>0, <2>2, InTransit DEF Bounded
  <2>4. Wire(d)' \subseteq Wire(d) \cup {e}
    <3>1. Range(Append(wire[d], e)) = Wire(d) \cup {e}
      BY <1>0, <2>3, Appended DEF Types, Wire
    <3> QED BY <2>1, <3>1 DEF Wire
  <2>5. Len(chan'[d]) <= BufCap
    BY <1>0, <2>2, CapsAssumption DEF Bounded
  <2>6. Bounded(d)'
    BY <1>0, <2>1, <2>2, <2>3, <2>4, <2>5 DEF Bounded, Got
  <2> QED BY <1>0, <2>1, <2>6, OneBounded
<1>6. CASE Read(d)
  <2> DEFINE e == Head(wire[d])
  <2>1. /\ wire'[d] = Tail(wire[d]) /\ got'[d] = Append(got[d], e) /\ last'[d] = e /\ wire[d] # <<>>
        /\ UNCHANGED <<ring, restarts, drops, chan, lost, replayedTo>>
        /\ \A c \in Clients \ {d} : wire'[c] = wire[c] /\ got'[c] = got[c] /\ last'[c] = last[c]
    BY <1>0, <1>6 DEF Types, Read
  <2>2. e \in Wire(d) /\ Wire(d)' \subseteq Wire(d)
    BY <1>0, <2>1, TakenFrom DEF Types, Ordered, Wire
  <2> HIDE DEF e
  <2>3. e \in Nat /\ e # 0 /\ e <= MaxSeq
    BY <1>0, <2>2, InTransit DEF Bounded
  <2>4. Got(d)' = Got(d) \cup {e}
    BY <1>0, <2>1, <2>3, Appended DEF Types, Got
  <2>5. Bounded(d)'
    BY <1>0, <2>1, <2>2, <2>3, <2>4 DEF Bounded, Chan
  <2> QED BY <1>0, <2>1, <2>5, OneBounded
<1> QED BY <1>1, <1>2, <1>3, <1>4, <1>5, <1>6 DEF Serve

\* A publication goes to channels that have room, and the ring keeps its newest.
LEMMA PublishBounded == ASSUME StreamInv, BoundsInv, Publish PROVE BoundsInv'
<1> USE DEF client
<1>1. /\ ring \in Seq(Nat) /\ seq \in Nat /\ seq + 1 \in Events /\ RingCap \in Nat /\ BufCap \in Nat
      /\ UNCHANGED <<wire, got, last, replayedTo, drops, restarts>>
      /\ ring' = Newest(Append(ring, seq + 1))
  BY BoundsAssumption, CapsAssumption DEF StreamInv, Types, Publish, Events
<1>2. Len(ring') <= RingCap
  <2> DEFINE s == Append(ring, seq + 1)
  <2>1. s \in Seq(Nat) /\ Len(s) \in Nat /\ \A i \in 1..Len(s) : s[i] \in Nat
    BY <1>1
  <2> HIDE DEF s
  <2>2. CASE Len(s) > RingCap
    <3>1. /\ Len(s) - RingCap + 1 \in Int /\ Len(s) \in Int
          /\ \A i \in Len(s) - RingCap + 1..Len(s) : s[i] \in Nat
      BY <1>1, <2>1, <2>2
    <3>2. Len(SubSeq(s, Len(s) - RingCap + 1, Len(s)))
            = IF Len(s) - RingCap + 1 <= Len(s) THEN Len(s) - (Len(s) - RingCap + 1) + 1 ELSE 0
      BY <3>1, SubSeqProperties
    <3>3. ring' = SubSeq(s, Len(s) - RingCap + 1, Len(s))
      BY <1>1, <2>2 DEF Newest, s
    <3> QED BY <1>1, <2>1, <3>2, <3>3
  <2>3. CASE ~(Len(s) > RingCap)
    BY <1>1, <2>1, <2>3 DEF Newest, s
  <2> QED BY <2>2, <2>3
<1>3. ASSUME NEW c \in Clients PROVE Bounded(c)'
  <2>1. Bounded(c) /\ chan[c] \in Seq(Nat)
    BY DEF BoundsInv, StreamInv, Types
  <2>2. lost'[c] \subseteq Events
    BY <1>1, <2>1 DEF Bounded, Publish
  <2>3. Len(chan'[c]) <= BufCap /\ 0 \notin Chan(c)'
    <3>1. CASE stage[c] = "off" \/ Full(c)
      BY <2>1, <3>1 DEF Publish, Bounded, Chan
    <3>2. CASE ~(stage[c] = "off" \/ Full(c))
      <4>1. chan'[c] = Append(chan[c], seq + 1) /\ ~(Len(chan[c]) >= BufCap)
        BY <3>2 DEF Publish, Full
      <4>2. Len(chan'[c]) = Len(chan[c]) + 1 /\ Len(chan[c]) \in Nat
        BY <2>1, <4>1, <1>1
      <4>3. Chan(c)' = Chan(c) \cup {seq + 1} /\ seq + 1 # 0
        BY <1>1, <2>1, <4>1, Appended DEF Chan
      <4> QED BY <1>1, <2>1, <4>1, <4>2, <4>3 DEF Bounded
    <3> QED BY <3>1, <3>2
  <2> QED BY <1>1, <2>1, <2>2, <2>3 DEF Bounded, Wire, Got
<1> QED BY <1>1, <1>2, <1>3 DEF BoundsInv

\* Every step keeps the bounds.
LEMMA BoundsInductive == StreamInv /\ BoundsInv /\ [Next]_vars => BoundsInv'
<1> SUFFICES ASSUME StreamInv, BoundsInv, [Next]_vars PROVE BoundsInv'
  OBVIOUS
<1>1. CASE UNCHANGED vars
  <2>1. UNCHANGED <<ring, restarts, drops, chan, wire, got, last, lost, replayedTo>>
    BY <1>1 DEF vars, conn, client
  <2> QED BY <2>1 DEF BoundsInv, Bounded, Chan, Wire, Got
<1>2. ASSUME NEW d \in Clients, Disconnect(d) PROVE BoundsInv'
  <2>1. /\ chan'[d] = <<>> /\ wire'[d] = <<>> /\ drops' = drops + 1 /\ drops < MaxDrops
        /\ UNCHANGED <<ring, restarts, got, last, lost, replayedTo>>
        /\ \A c \in Clients \ {d} : chan'[c] = chan[c] /\ wire'[c] = wire[c]
    BY <1>2 DEF StreamInv, Types, Disconnect, client
  <2>2. Bounded(d)'
    BY <2>1, NoEvents, CapsAssumption DEF BoundsInv, Bounded, Chan, Wire, Got
  <2>3. drops' \in 0..MaxDrops
    BY <2>1, BoundsAssumption DEF BoundsInv
  <2> QED BY <2>1, <2>2, <2>3, OneBounded
<1>3. CASE Restart
  <2>1. /\ ring' = <<>> /\ restarts' = restarts + 1 /\ restarts < MaxRestarts
        /\ UNCHANGED <<last, drops, replayedTo>>
        /\ \A c \in Clients : chan'[c] = <<>> /\ wire'[c] = <<>> /\ got'[c] = <<>> /\ lost'[c] = {}
    BY <1>3 DEF Restart, Empty
  <2>2. \A c \in Clients : Bounded(c)'
    BY <2>1, NoEvents, CapsAssumption DEF BoundsInv, Bounded, Chan, Wire, Got
  <2>3. Len(ring') <= RingCap /\ restarts' \in 0..MaxRestarts
    BY <2>1, CapsAssumption, BoundsAssumption DEF BoundsInv
  <2> QED BY <2>1, <2>2, <2>3 DEF BoundsInv
<1> QED BY <1>1, <1>2, <1>3, PublishBounded, ServeBounded, Zenon DEF Next

\* Whatever is published and whoever disconnects, the ring and the channels keep to their
\* capacities, and every event in transit, read or lost is one of those published
\* (controlplane.go, Publish; sse.go, handleEvents).
THEOREM CapacitiesKept == Spec => []TypeOK
<1>1. Init => BoundsInv
  <2> SUFFICES ASSUME Init PROVE BoundsInv
    OBVIOUS
  <2>1. \A c \in Clients : Bounded(c)
    BY NoEvents, CapsAssumption, BoundsAssumption DEF Init, Empty, Bounded, Chan, Wire, Got
  <2> QED BY <2>1, CapsAssumption, BoundsAssumption DEF Init, BoundsInv
<1>2. StreamInv /\ BoundsInv => TypeOK
  <2> SUFFICES ASSUME StreamInv, BoundsInv PROVE TypeOK
    OBVIOUS
  <2>1. Range(ring) \subseteq Events
    <3>1. ASSUME NEW e \in Range(ring) PROVE e \in Events
      <4>1. ring \in Seq(Nat) /\ seq \in 0..MaxSeq /\ MaxSeq \in Nat /\ UpTo(ring, seq)
        BY BoundsAssumption DEF StreamInv, Types, RingInOrder
      <4>2. PICK k \in 1..Len(ring) : e = ring[k]
        BY <4>1, InRange
      <4>3. e = seq - Len(ring) + k /\ Len(ring) <= seq /\ Len(ring) \in Nat
        BY <4>1, <4>2 DEF UpTo
      <4> QED BY <4>1, <4>2, <4>3 DEF Events
    <3> QED BY <3>1
  <2>2. ASSUME NEW c \in Clients
        PROVE  Chan(c) \cup Pending(c) \cup Wire(c) \cup Got(c) \subseteq Events
    BY InTransit DEF BoundsInv, Bounded, Events
  <2>3. \A c \in Clients :
           \A s \in {ring, chan[c], pending[c], wire[c], got[c]} : Range(s) \subseteq Events
    BY <2>1, <2>2 DEF Chan, Pending, Wire, Got
  <2>4. replayedTo \in [Clients -> 0..MaxSeq] /\ last \in [Clients -> 0..MaxSeq]
    BY BoundsAssumption DEF StreamInv, Types, BoundsInv, Bounded
  <2>5. lost \in [Clients -> SUBSET Events]
    BY DEF StreamInv, Types, BoundsInv, Bounded
  <2> QED BY <2>3, <2>4, <2>5 DEF TypeOK, StreamInv, Types, BoundsInv, Bounded
<1> QED BY <1>1, <1>2, StreamStarts, StreamInductive, BoundsInductive, PTL DEF Spec
=============================================================================
