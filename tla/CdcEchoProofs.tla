---------------------------- MODULE CdcEchoProofs ----------------------------
(***************************************************************************)
(* CdcEcho for every size of the event ring and of the TRB rings, every    *)
(* maximum speed, every length of the buffer, and every number of packets, *)
(* requests and bus resets.                                                *)
(***************************************************************************)
EXTENDS CdcEcho, SequenceTheorems, FiniteSetTheorems, TLAPS

-----------------------------------------------------------------------------
(* Queues of which at most one element is in a set *)

AtMostOne(s, S) == \A i, j \in 1 .. Len(s) : s[i] \in S /\ s[j] \in S => i = j

LEMMA ToSetIs ==
    ASSUME NEW T, NEW s \in Seq(T)
    PROVE  /\ \A x : x \in ToSet(s) <=> \E k \in 1 .. Len(s) : s[k] = x
           /\ ToSet(s) \subseteq T
<1>1. DOMAIN s = 1 .. Len(s) /\ \A k \in 1 .. Len(s) : s[k] \in T
  BY ElementOfSeq
<1> QED
  BY <1>1 DEF ToSet

LEMMA EmptyQueue ==
    ASSUME NEW S
    PROVE  AtMostOne(<<>>, S) /\ ToSet(<<>>) = {} /\ Len(<<>>) = 0
<1>1. DOMAIN <<>> = {} /\ Len(<<>>) = 0
  OBVIOUS
<1> QED
  BY <1>1 DEF AtMostOne, ToSet

LEMMA AppendQueue ==
    ASSUME NEW T, NEW s \in Seq(T), NEW e \in T
    PROVE  /\ Append(s, e) \in Seq(T) /\ Len(Append(s, e)) = Len(s) + 1 /\ Len(s) \in Nat
           /\ \A i \in 1 .. Len(s) : Append(s, e)[i] = s[i]
           /\ Append(s, e)[Len(s) + 1] = e
           /\ ToSet(Append(s, e)) = ToSet(s) \cup {e}
           /\ \A S : AtMostOne(s, S) /\ (e \notin S \/ S \cap ToSet(s) = {})
                     => AtMostOne(Append(s, e), S)
<1> DEFINE r == Append(s, e)
<1>1. /\ r \in Seq(T) /\ Len(r) = Len(s) + 1 /\ Len(s) \in Nat
      /\ \A i \in 1 .. Len(s) : r[i] = s[i]
      /\ r[Len(s) + 1] = e
  BY AppendProperties
<1> HIDE DEF r
<1>2. /\ \A x : x \in ToSet(s) <=> \E k \in 1 .. Len(s) : s[k] = x
      /\ \A x : x \in ToSet(r) <=> \E k \in 1 .. Len(r) : r[k] = x
  <2>1. \A q \in Seq(T) : \A x : x \in ToSet(q) <=> \E k \in 1 .. Len(q) : q[k] = x
    BY ToSetIs
  <2> QED
    BY <1>1, <2>1
<1>3. \A i \in 1 .. Len(r) : i \in 1 .. Len(s) \/ i = Len(s) + 1
  BY <1>1
<1>4. ToSet(r) = ToSet(s) \cup {e}
  <2>1. \A i \in 1 .. Len(s) : i \in 1 .. Len(r)
    BY <1>1
  <2>2. Len(s) + 1 \in 1 .. Len(r)
    BY <1>1
  <2> QED
    BY <1>1, <1>2, <1>3, <2>1, <2>2
<1>5. ASSUME NEW S, AtMostOne(s, S), e \notin S \/ S \cap ToSet(s) = {}
      PROVE  AtMostOne(r, S)
  BY <1>1, <1>2, <1>3, <1>5 DEF AtMostOne
<1> QED
  BY <1>1, <1>4, <1>5 DEF r

LEMMA TailQueue ==
    ASSUME NEW T, NEW s \in Seq(T), s # <<>>
    PROVE  /\ Tail(s) \in Seq(T) /\ Len(Tail(s)) = Len(s) - 1 /\ Len(s) \in Nat \ {0}
           /\ Head(s) \in T /\ Head(s) = s[1] /\ Head(s) \in ToSet(s)
           /\ \A i \in 1 .. Len(s) - 1 : Tail(s)[i] = s[i + 1]
           /\ ToSet(s) = ToSet(Tail(s)) \cup {Head(s)}
           /\ \A S : AtMostOne(s, S) => /\ AtMostOne(Tail(s), S)
                                        /\ Head(s) \in S => S \cap ToSet(Tail(s)) = {}
<1> DEFINE r == Tail(s)
<1>1. /\ r \in Seq(T) /\ Len(r) = Len(s) - 1 /\ Len(s) \in Nat \ {0}
      /\ Head(s) \in T /\ Head(s) = s[1]
      /\ \A i \in 1 .. Len(s) - 1 : r[i] = s[i + 1]
  BY EmptySeq, HeadTailProperties
<1> HIDE DEF r
<1>2. /\ \A x : x \in ToSet(s) <=> \E k \in 1 .. Len(s) : s[k] = x
      /\ \A x : x \in ToSet(r) <=> \E k \in 1 .. Len(r) : r[k] = x
  <2>1. \A q \in Seq(T) : \A x : x \in ToSet(q) <=> \E k \in 1 .. Len(q) : q[k] = x
    BY ToSetIs
  <2> QED
    BY <1>1, <2>1
<1>3. ASSUME NEW i \in 1 .. Len(r) PROVE i + 1 \in 1 .. Len(s) /\ r[i] = s[i + 1] /\ i + 1 # 1
  BY <1>1
<1>4. ASSUME NEW i \in 1 .. Len(s), i # 1 PROVE i - 1 \in 1 .. Len(r) /\ r[i - 1] = s[i]
  <2>1. i - 1 \in 1 .. Len(s) - 1 /\ (i - 1) + 1 = i
    BY <1>1, <1>4
  <2> QED
    BY <1>1, <2>1
<1>5. 1 \in 1 .. Len(s)
  BY <1>1
<1>6. ToSet(s) = ToSet(r) \cup {Head(s)}
  BY <1>1, <1>2, <1>3, <1>4, <1>5
<1>7. ASSUME NEW S, AtMostOne(s, S)
      PROVE  AtMostOne(r, S) /\ (Head(s) \in S => S \cap ToSet(r) = {})
  <2>1. AtMostOne(r, S)
    <3> SUFFICES ASSUME NEW i \in 1 .. Len(r), NEW j \in 1 .. Len(r), r[i] \in S, r[j] \in S
                 PROVE  i = j
      BY DEF AtMostOne
    <3>1. i + 1 = j + 1
      BY <1>3, <1>7 DEF AtMostOne
    <3> QED
      BY <1>1, <3>1
  <2>2. ASSUME Head(s) \in S, NEW i \in 1 .. Len(r) PROVE r[i] \notin S
    BY <1>1, <1>3, <1>5, <1>7, <2>2 DEF AtMostOne
  <2> QED
    BY <1>2, <2>1, <2>2
<1> QED
  BY <1>1, <1>2, <1>5, <1>6, <1>7 DEF r

-----------------------------------------------------------------------------
(* Places of the event ring *)

\* x % EventsNum, for what the ring adds up.
LEMMA ModSmall ==
    \A x \in 0 .. 2 * EventsNum - 1 :
        x % EventsNum = IF x >= EventsNum THEN x - EventsNum ELSE x
<1> SUFFICES ASSUME NEW x \in 0 .. 2 * EventsNum - 1
             PROVE  x % EventsNum = IF x >= EventsNum THEN x - EventsNum ELSE x
  OBVIOUS
<1>1. EventsNum \in Nat /\ EventsNum >= 4
  BY EventsNumAssumption
<1>2. CASE x < EventsNum
  BY <1>1, <1>2
<1>3. CASE x >= EventsNum
  BY <1>1, <1>3
<1> QED
  BY <1>1, <1>2, <1>3

-----------------------------------------------------------------------------
(* The inductive invariant *)

Msgs  == [kind : {"reset", "ctrl", "done"}, arg : {"none"} \cup Requests \cup Dirs]
Dones == {m \in Msgs : m.kind = "done"}

QueueTypes ==
    /\ raised \in Seq(EventKinds) /\ msgs \in Seq(Msgs)
    /\ ep \in [Dirs -> Endpoints]

\* Before the device is enabled, nothing has happened.
StartInv ==
    /\ main \in {"setup", "init", "enable"} => ~running /\ raised = <<>> /\ msgs = <<>> /\ evtNext = 0
    /\ main = "enable" => initialized
    /\ ~failed

\* The ring of events: the controller writes behind what the driver reads.
RingInv ==
    /\ evtNext \in 0 .. EventsNum - 1 /\ hwNext \in 0 .. EventsNum - 1
    /\ evtBuf \in [0 .. EventsNum - 1 -> EventKinds \cup {NoEvent}]
    /\ Len(raised) <= EventsNum
    /\ hwNext = (evtNext + Len(raised)) % EventsNum
    /\ EventsInOrder

\* Bus events leave room for a request and a transfer, of which the ring
\* never has two.
RoomInv ==
    /\ \A i \in 1 .. Len(raised) : raised[i] \in BusEvents => i <= EventsNum - 2
    /\ AtMostOne(raised, Dirs) /\ AtMostOne(raised, Requests)

\* The one buffer: with an endpoint, that has completed or not, or with usbd.
OneInv ==
    /\ \A d \in Dirs : ep[d].owned => ep[d].held
    /\ \A d \in Dirs \cap ToSet(raised) : ep[d].held /\ ~ep[d].owned
    /\ ~(ep["out"].held /\ ep["in"].held)
    /\ AtMostOne(msgs, Dones)
    /\ Dones \cap ToSet(msgs) # {} => \A d \in Dirs : ~ep[d].held
    /\ main # "sleep" => Dones \cap ToSet(msgs) = {} /\ \A d \in Dirs : ~ep[d].held

\* The buffer is somewhere, as the endpoints are enabled together, before the
\* first read, until a configuration ends.
KeptInv ==
    /\ ep["out"].on <=> ep["in"].on
    /\ lineState \/ main = "sleep" => dropped \/ ep["out"].on
    /\ main = "sleep" => \/ dropped \/ Dones \cap ToSet(msgs) # {}
                         \/ \E d \in Dirs : ep[d].held
    /\ main = "error" => dropped \/ ~running

\* The buffer has room for the packet that comes next, and no more is left of
\* a read than its buffer takes.
GotInv ==
    /\ \A d \in Dirs : ep[d].on => ep[d].mps \in Sizes
    /\ ep["out"].owned => got < size
    /\ ep["out"].left <= size

DriverTypes ==
    /\ initialized \in BOOLEAN /\ running \in BOOLEAN /\ failed \in BOOLEAN
    /\ link \in {"down", "reset", "up"} /\ dsts \in Speeds
    /\ mps0 \in {NoSize, 64, 512}

AppTypes ==
    /\ main \in Mains /\ speed \in Speeds /\ early \in BOOLEAN /\ lineState \in BOOLEAN
    /\ mem \in [1 .. MaxLen -> Packets] /\ len \in 0 .. MaxLen
    /\ size \in 0 .. MaxLen /\ got \in 0 .. MaxLen
    /\ dropped \in BOOLEAN /\ spoiled \in BOOLEAN

HostTypes ==
    /\ hostConf \in BOOLEAN /\ hostReq \in Requests \cup {NoReq}
    /\ requests \in 0 .. MaxRequests
    /\ sent \in 0 .. MaxPackets /\ received \in Seq(Packets)
    /\ bus \in 0 .. MaxBus

RestTypes == DriverTypes /\ AppTypes /\ HostTypes

LEMMA KindsDiffer ==
    /\ Dirs \cap Requests = {} /\ Dirs \cap BusEvents = {} /\ Requests \cap BusEvents = {}
    /\ EventKinds = BusEvents \cup Dirs \cup Requests
    /\ "out" \in Dirs /\ "in" \in Dirs /\ "out" # "in" /\ \A d \in Dirs : d = "out" \/ d = "in"
    /\ "reset" \in BusEvents /\ "connect" \in BusEvents
BY RequestAssumption DEF Dirs, BusEvents, EventKinds

LEMMA SizesOfBuffer ==
    /\ MaxLen \in Nat
    /\ \A m \in Sizes : BufPackets[m] \in 1 .. MaxLen
<1> DEFINE B == {BufPackets[m] : m \in Sizes}
<1>1. /\ B = {BufPackets[64], BufPackets[512], BufPackets[1024]}
      /\ \A m \in Sizes : BufPackets[m] \in Nat \ {0}
  BY BoundAssumption DEF Sizes
<1>2. \E x \in B : \A y \in B : x >= y
  <2>1. PICK a \in Nat, b \in Nat, c \in Nat :
          a = BufPackets[64] /\ b = BufPackets[512] /\ c = BufPackets[1024]
    BY <1>1 DEF Sizes
  <2>2. B = {a, b, c}
    BY <1>1, <2>1
  <2> HIDE DEF B
  <2>3. CASE a >= b /\ a >= c
    BY <2>2, <2>3
  <2>4. CASE b >= a /\ b >= c
    BY <2>2, <2>4
  <2>5. CASE c >= a /\ c >= b
    BY <2>2, <2>5
  <2> QED
    BY <2>1, <2>3, <2>4, <2>5
<1>3. MaxLen \in B /\ \A y \in B : MaxLen >= y
  <2>1. MaxLen = CHOOSE x \in B : \A y \in B : x >= y
    BY DEF MaxLen, Max
  <2> HIDE DEF B
  <2> QED
    BY <1>2, <2>1
<1> QED
  BY <1>1, <1>3

LEMMA LengthsAreNat == \A n \in 0 .. MaxLen : n \in Nat
BY SizesOfBuffer

-----------------------------------------------------------------------------
(* What the operations do to the endpoints *)

LEMMA SetOn ==
    \A e \in Endpoints, v \in BOOLEAN :
        /\ [e EXCEPT !.on = v] \in Endpoints /\ [e EXCEPT !.on = v].on = v
        /\ [e EXCEPT !.on = v].at = e.at /\ [e EXCEPT !.on = v].held = e.held
        /\ [e EXCEPT !.on = v].owned = e.owned /\ [e EXCEPT !.on = v].hw = e.hw
        /\ [e EXCEPT !.on = v].mps = e.mps /\ [e EXCEPT !.on = v].left = e.left
BY DEF Endpoints

LEMMA SetHeld ==
    \A e \in Endpoints, v \in BOOLEAN :
        /\ [e EXCEPT !.held = v] \in Endpoints /\ [e EXCEPT !.held = v].held = v
        /\ [e EXCEPT !.held = v].on = e.on /\ [e EXCEPT !.held = v].at = e.at
        /\ [e EXCEPT !.held = v].owned = e.owned /\ [e EXCEPT !.held = v].hw = e.hw
        /\ [e EXCEPT !.held = v].mps = e.mps /\ [e EXCEPT !.held = v].left = e.left
BY DEF Endpoints

LEMMA SetOwned ==
    \A e \in Endpoints, v \in BOOLEAN :
        /\ [e EXCEPT !.owned = v] \in Endpoints /\ [e EXCEPT !.owned = v].owned = v
        /\ [e EXCEPT !.owned = v].on = e.on /\ [e EXCEPT !.owned = v].at = e.at
        /\ [e EXCEPT !.owned = v].held = e.held /\ [e EXCEPT !.owned = v].hw = e.hw
        /\ [e EXCEPT !.owned = v].mps = e.mps /\ [e EXCEPT !.owned = v].left = e.left
BY DEF Endpoints

LEMMA SetAt ==
    \A e \in Endpoints, v \in Slots :
        /\ [e EXCEPT !.at = v] \in Endpoints /\ [e EXCEPT !.at = v].at = v
        /\ [e EXCEPT !.at = v].on = e.on /\ [e EXCEPT !.at = v].held = e.held
        /\ [e EXCEPT !.at = v].owned = e.owned /\ [e EXCEPT !.at = v].hw = e.hw
        /\ [e EXCEPT !.at = v].mps = e.mps /\ [e EXCEPT !.at = v].left = e.left
BY DEF Endpoints

LEMMA SetLeft ==
    \A e \in Endpoints, v \in Nat :
        /\ [e EXCEPT !.left = v] \in Endpoints /\ [e EXCEPT !.left = v].left = v
        /\ [e EXCEPT !.left = v].on = e.on /\ [e EXCEPT !.left = v].at = e.at
        /\ [e EXCEPT !.left = v].held = e.held /\ [e EXCEPT !.left = v].owned = e.owned
        /\ [e EXCEPT !.left = v].hw = e.hw /\ [e EXCEPT !.left = v].mps = e.mps
BY DEF Endpoints

LEMMA SetHw ==
    \A e \in Endpoints, v \in Slots :
        /\ [e EXCEPT !.hw = v] \in Endpoints /\ [e EXCEPT !.hw = v].hw = v
        /\ [e EXCEPT !.hw = v].on = e.on /\ [e EXCEPT !.hw = v].at = e.at
        /\ [e EXCEPT !.hw = v].held = e.held /\ [e EXCEPT !.hw = v].owned = e.owned
        /\ [e EXCEPT !.hw = v].mps = e.mps /\ [e EXCEPT !.hw = v].left = e.left
BY DEF Endpoints

LEMMA SetMps ==
    \A e \in Endpoints, v \in Sizes :
        /\ [e EXCEPT !.mps = v] \in Endpoints /\ [e EXCEPT !.mps = v].mps = v
        /\ [e EXCEPT !.mps = v].on = e.on /\ [e EXCEPT !.mps = v].at = e.at
        /\ [e EXCEPT !.mps = v].held = e.held /\ [e EXCEPT !.mps = v].owned = e.owned
        /\ [e EXCEPT !.mps = v].hw = e.hw /\ [e EXCEPT !.mps = v].left = e.left
BY DEF Endpoints, Sizes

LEMMA EnqueueMoves ==
    ASSUME NEW e \in [Dirs -> Endpoints], NEW d \in Dirs, NEW n \in Nat
    PROVE  /\ Enqueue(d, e, n) \in [Dirs -> Endpoints]
           /\ \A c \in Dirs : /\ Enqueue(d, e, n)[c].on = e[c].on
                              /\ Enqueue(d, e, n)[c].mps = e[c].mps
                              /\ c # d => Enqueue(d, e, n)[c] = e[c]
           /\ e[d].on => /\ Enqueue(d, e, n)[d].held /\ Enqueue(d, e, n)[d].owned
                         /\ Enqueue(d, e, n)[d].left = n
           /\ ~e[d].on => Enqueue(d, e, n) = e
<1>1. CASE e[d].on
  <2>1. PICK h \in Endpoints : h = [e[d] EXCEPT !.held = TRUE] /\ h.held = TRUE
                               /\ h.on = e[d].on /\ h.mps = e[d].mps
    BY SetHeld
  <2>2. PICK o \in Endpoints : o = [h EXCEPT !.owned = TRUE] /\ o.held = h.held /\ o.owned = TRUE
                               /\ o.on = h.on /\ o.mps = h.mps
    BY SetOwned
  <2>3. PICK r \in Endpoints : r = [o EXCEPT !.left = n] /\ r.held = o.held /\ r.owned = o.owned
                               /\ r.on = o.on /\ r.mps = o.mps /\ r.left = n
    BY SetLeft
  <2>4. [e EXCEPT ![d].held = TRUE, ![d].owned = TRUE, ![d].left = n]
          = [e EXCEPT ![d] = [[[e[d] EXCEPT !.held = TRUE] EXCEPT !.owned = TRUE] EXCEPT !.left = n]]
    OBVIOUS
  <2>5. Enqueue(d, e, n) = [e EXCEPT ![d] = r]
    BY <1>1, <2>1, <2>2, <2>3, <2>4 DEF Enqueue
  <2> QED
    BY <1>1, <2>1, <2>2, <2>3, <2>5
<1>2. CASE ~e[d].on
  BY <1>2 DEF Enqueue
<1> QED
  BY <1>1, <1>2

LEMMA DisabledMoves ==
    ASSUME ep \in [Dirs -> Endpoints]
    PROVE  /\ AllDisabled \in [Dirs -> Endpoints]
           /\ \A c \in Dirs : /\ ~AllDisabled[c].on
                              /\ AllDisabled[c].held = ep[c].held
                              /\ AllDisabled[c].owned = ep[c].owned
                              /\ AllDisabled[c].left = ep[c].left
<1>1. \A c \in Dirs : /\ Disabled(ep[c]) \in Endpoints /\ Disabled(ep[c]).on = FALSE
                      /\ Disabled(ep[c]).held = ep[c].held /\ Disabled(ep[c]).owned = ep[c].owned
                      /\ Disabled(ep[c]).left = ep[c].left
  BY SetOn DEF Disabled
<1> QED
  BY <1>1 DEF AllDisabled

LEMMA EnabledMoves ==
    ASSUME NEW e \in Endpoints, ~e.on, NEW mps \in Sizes
    PROVE  /\ Enabled(e, mps) \in Endpoints
           /\ Enabled(e, mps).on <=> mps <= CapsMps
           /\ Enabled(e, mps).held = e.held
           /\ Enabled(e, mps).on => Enabled(e, mps).mps = mps /\ ~Enabled(e, mps).owned
           /\ Enabled(e, mps).owned => e.owned
           /\ Enabled(e, mps).left \in {0, e.left}
<1>1. CASE mps <= CapsMps
  <2>0. 0 \in Slots
    BY TrbNumAssumption DEF Slots
  <2>1. PICK a \in Endpoints : a = [e EXCEPT !.owned = FALSE] /\ a.held = e.held /\ a.owned = FALSE
    BY SetOwned
  <2>2. PICK z \in Endpoints : z = [a EXCEPT !.left = 0] /\ z.held = a.held /\ z.owned = a.owned
                               /\ z.left = 0
    BY SetLeft
  <2>3. PICK b \in Endpoints : b = EpConfig(z, mps) /\ b.held = z.held /\ b.owned = z.owned
                               /\ b.left = z.left /\ b.mps = mps
    BY SetMps DEF EpConfig
  <2>4. PICK c \in Endpoints : c = [b EXCEPT !.hw = 0] /\ c.held = b.held /\ c.owned = b.owned
                               /\ c.left = b.left /\ c.mps = b.mps
    BY <2>0, SetHw
  <2>5. PICK r \in Endpoints : r = [c EXCEPT !.on = TRUE] /\ r.held = c.held /\ r.owned = c.owned
                               /\ r.left = c.left /\ r.mps = c.mps /\ r.on = TRUE
    BY SetOn
  <2>6. Zeroed(e) = z
    <3>1. Zeroed(e) = [[e EXCEPT !.owned = FALSE] EXCEPT !.left = 0]
      BY DEF Zeroed
    <3> QED
      BY <2>1, <2>2, <3>1, Zenon
  <2>7. Enabled(e, mps) = r
    BY <1>1, <2>3, <2>4, <2>5, <2>6 DEF Enabled, StartXfer
  <2>8. r.held = e.held /\ r.owned = FALSE /\ r.left = 0 /\ r.mps = mps /\ r.on = TRUE
    BY <2>1, <2>2, <2>3, <2>4, <2>5, Zenon
  <2> QED
    BY <1>1, <2>7, <2>8
<1>2. CASE ~(mps <= CapsMps)
  BY <1>2 DEF Enabled
<1> QED
  BY <1>1, <1>2

LEMMA TrbIncInSlots == \A n \in Slots : TrbInc(n) \in Slots
BY TrbNumAssumption DEF Slots, TrbInc

LEMMA PopMoves ==
    ASSUME ep \in [Dirs -> Endpoints], NEW d \in Dirs, ep' = [ep EXCEPT ![d] = Pop(ep[d])]
    PROVE  /\ ep' \in [Dirs -> Endpoints]
           /\ ~ep'[d].held /\ ep'[d].owned = ep[d].owned
           /\ ep'[d].on = ep[d].on /\ ep'[d].mps = ep[d].mps /\ ep'[d].left = ep[d].left
           /\ \A c \in Dirs : c # d => ep'[c] = ep[c]
<1>1. PICK e \in Endpoints : e = ep[d]
  OBVIOUS
<1>2. TrbInc(e.at) \in Slots
  BY TrbIncInSlots DEF Endpoints
<1>3. PICK a \in Endpoints : /\ a = [e EXCEPT !.at = TrbInc(e.at)]
                             /\ a.owned = e.owned /\ a.on = e.on /\ a.mps = e.mps /\ a.left = e.left
  BY <1>2, SetAt
<1>4. PICK r \in Endpoints : /\ r = [a EXCEPT !.held = FALSE] /\ r.held = FALSE
                             /\ r.owned = a.owned /\ r.on = a.on /\ r.mps = a.mps
                             /\ r.left = a.left
  BY SetHeld
<1>5. Pop(e) = [[e EXCEPT !.at = TrbInc(e.at)] EXCEPT !.held = FALSE]
  BY DEF Pop
<1>6. ep' = [ep EXCEPT ![d] = r]
  BY <1>1, <1>3, <1>4, <1>5
<1> QED
  BY <1>1, <1>3, <1>4, <1>6

LEMMA CompleteMoves ==
    ASSUME ep \in [Dirs -> Endpoints], NEW d \in Dirs, NEW n \in Nat, HwComplete(d, n)
    PROVE  /\ ep' \in [Dirs -> Endpoints]
           /\ ~ep'[d].owned /\ ep'[d].held = ep[d].held /\ ep'[d].left = n
           /\ ep'[d].on = ep[d].on /\ ep'[d].mps = ep[d].mps
           /\ \A c \in Dirs : c # d => ep'[c] = ep[c]
<1>1. TrbInc(ep[d].hw) \in Slots
  BY TrbIncInSlots DEF Endpoints
<1>2. PICK a \in Endpoints : /\ a = [ep[d] EXCEPT !.owned = FALSE] /\ a.owned = FALSE
                             /\ a.held = ep[d].held /\ a.on = ep[d].on /\ a.mps = ep[d].mps
  BY SetOwned
<1>3. PICK b \in Endpoints : /\ b = [a EXCEPT !.left = n] /\ b.left = n /\ b.owned = a.owned
                             /\ b.held = a.held /\ b.on = a.on /\ b.mps = a.mps
  BY SetLeft
<1>4. PICK r \in Endpoints : /\ r = [b EXCEPT !.hw = TrbInc(ep[d].hw)] /\ r.owned = b.owned
                             /\ r.held = b.held /\ r.on = b.on /\ r.mps = b.mps /\ r.left = b.left
  BY <1>1, SetHw
<1>5. ep' = [ep EXCEPT ![d] = [[[ep[d] EXCEPT !.owned = FALSE] EXCEPT !.left = n]
                               EXCEPT !.hw = TrbInc(ep[d].hw)]]
  BY DEF HwComplete
<1>6. ep' = [ep EXCEPT ![d] = r]
  BY <1>2, <1>3, <1>4, <1>5
<1> QED
  BY <1>2, <1>3, <1>4, <1>6

-----------------------------------------------------------------------------
(* The event ring *)

\* The place in the ring of the i-th event that waits.
LEMMA PlaceInRing ==
    ASSUME evtNext \in 0 .. EventsNum - 1, NEW i \in 1 .. EventsNum
    PROVE  /\ (evtNext + i - 1) % EventsNum \in 0 .. EventsNum - 1
           /\ (evtNext + i - 1) % EventsNum
                = IF evtNext + i - 1 >= EventsNum THEN evtNext + i - 1 - EventsNum ELSE evtNext + i - 1
<1>1. evtNext + i - 1 \in 0 .. 2 * EventsNum - 1 /\ EventsNum \in Nat
  BY EventsNumAssumption
<1> QED
  BY <1>1, ModSmall

LEMMA RoomForOne ==
    ASSUME QueueTypes, RoomInv, Dirs \cap ToSet(raised) = {} \/ Requests \cap ToSet(raised) = {}
    PROVE  Len(raised) < EventsNum
<1> SUFFICES ASSUME ~(Len(raised) < EventsNum) PROVE FALSE
  OBVIOUS
<1>1. Len(raised) \in Nat /\ EventsNum \in Nat /\ EventsNum >= 4
  BY EventsNumAssumption DEF QueueTypes
<1>2. EventsNum - 1 \in 1 .. Len(raised) /\ EventsNum \in 1 .. Len(raised)
  BY <1>1
<1>3. /\ raised[EventsNum - 1] \in EventKinds \ BusEvents /\ raised[EventsNum] \in EventKinds \ BusEvents
      /\ raised[EventsNum - 1] \in ToSet(raised) /\ raised[EventsNum] \in ToSet(raised)
  BY <1>1, <1>2, ToSetIs DEF QueueTypes, RoomInv
<1>4. EventsNum - 1 = EventsNum
  BY <1>2, <1>3, KindsDiffer DEF RoomInv, AtMostOne
<1> QED
  BY <1>1, <1>4

LEMMA RingRaise ==
    ASSUME QueueTypes, RingInv, NEW e \in EventKinds, Raise(e), Len(raised) < EventsNum
    PROVE  RingInv'
<1>1. EventsNum \in Nat /\ EventsNum >= 4 /\ Len(raised) \in Nat
  BY EventsNumAssumption DEF QueueTypes
<1>2. /\ evtBuf' = [evtBuf EXCEPT ![hwNext] = e] /\ hwNext' = (hwNext + 1) % EventsNum
      /\ evtCount' = evtCount + 1 /\ raised' = Append(raised, e) /\ evtNext' = evtNext
  BY DEF Raise
<1>3. /\ Len(raised') = Len(raised) + 1 /\ raised'[Len(raised) + 1] = e
      /\ \A i \in 1 .. Len(raised) : raised'[i] = raised[i]
  BY <1>2, AppendQueue DEF QueueTypes
<1>4. /\ evtNext \in 0 .. EventsNum - 1 /\ hwNext \in 0 .. EventsNum - 1
      /\ hwNext = (evtNext + Len(raised)) % EventsNum
  BY DEF RingInv
<1>5. hwNext = IF evtNext + Len(raised) >= EventsNum THEN evtNext + Len(raised) - EventsNum
                                                     ELSE evtNext + Len(raised)
  <2>1. PICK x \in 0 .. 2 * EventsNum - 1 : x = evtNext + Len(raised)
    BY <1>1, <1>4
  <2>2. PICK p : p = x % EventsNum
    OBVIOUS
  <2>3. p = IF x >= EventsNum THEN x - EventsNum ELSE x
    BY <2>2, ModSmall
  <2>4. hwNext = p
    BY <1>4, <2>1, <2>2, Zenon
  <2>5. evtNext \in 0 .. EventsNum - 1
    BY <1>4
  <2> QED
    BY <1>1, <2>1, <2>3, <2>4, <2>5
<1>6. hwNext' = (evtNext' + Len(raised')) % EventsNum /\ hwNext' \in 0 .. EventsNum - 1
  <2>1. PICK x \in 0 .. 2 * EventsNum - 1 : x = evtNext + Len(raised) + 1
    BY <1>1, <1>4
  <2>2. PICK y \in 0 .. 2 * EventsNum - 1 : y = hwNext + 1
    BY <1>1, <1>4
  <2>3. PICK p, q : p = x % EventsNum /\ q = y % EventsNum
    OBVIOUS
  <2>4. /\ p = IF x >= EventsNum THEN x - EventsNum ELSE x
        /\ q = IF y >= EventsNum THEN y - EventsNum ELSE y
    BY <2>3, ModSmall
  <2>5. evtNext \in 0 .. EventsNum - 1 /\ hwNext \in 0 .. EventsNum - 1
    BY <1>4
  <2>6. evtNext' + Len(raised') = x
    BY <1>1, <1>2, <1>3, <1>4, <2>1
  <2>7. hwNext' = y % EventsNum
    BY <1>2, <2>2, Zenon
  <2>8. q = p /\ q \in 0 .. EventsNum - 1
    BY <1>1, <1>5, <2>1, <2>2, <2>4, <2>5
  <2> QED
    BY <2>3, <2>6, <2>7, <2>8, Zenon
<1>7. EventsInOrder'
  <2>1. evtCount' = Len(raised')
    BY <1>2, <1>3 DEF RingInv, EventsInOrder
  <2>2. ASSUME NEW i \in 1 .. Len(raised) + 1
        PROVE  evtBuf'[(evtNext + i - 1) % EventsNum] = raised'[i]
    <3>1. i \in 1 .. EventsNum
      BY <1>1
    <3>2. CASE i = Len(raised) + 1
      <4>1. (evtNext + i - 1) % EventsNum = hwNext
        BY <1>1, <1>4, <1>5, <3>1, <3>2, PlaceInRing
      <4> QED
        BY <1>2, <1>3, <1>4, <3>2, <4>1 DEF RingInv
    <3>3. CASE i # Len(raised) + 1
      <4>1. i \in 1 .. Len(raised)
        BY <1>1, <3>3
      <4>2. (evtNext + i - 1) % EventsNum # hwNext
        BY <1>1, <1>4, <1>5, <3>1, <4>1, PlaceInRing
      <4>3. (evtNext + i - 1) % EventsNum \in 0 .. EventsNum - 1
        BY <1>4, <3>1, PlaceInRing
      <4>4. evtBuf[(evtNext + i - 1) % EventsNum] = raised[i]
        BY <4>1 DEF RingInv, EventsInOrder
      <4> QED
        BY <1>2, <1>3, <4>1, <4>2, <4>3, <4>4 DEF RingInv
    <3> QED
      BY <3>2, <3>3
  <2> QED
    BY <1>2, <1>3, <2>1, <2>2 DEF EventsInOrder
<1>8. evtBuf' \in [0 .. EventsNum - 1 -> EventKinds \cup {NoEvent}]
  BY <1>2, <1>4 DEF RingInv
<1> QED
  BY <1>1, <1>2, <1>3, <1>4, <1>6, <1>7, <1>8 DEF RingInv

LEMMA RingTake ==
    ASSUME QueueTypes, RingInv, NEW e, Take(e)
    PROVE  RingInv' /\ raised # <<>> /\ e = Head(raised) /\ raised' = Tail(raised)
<1>1. EventsNum \in Nat /\ EventsNum >= 4 /\ Len(raised) \in Nat
  BY EventsNumAssumption DEF QueueTypes
<1>2. /\ evtCount > 0 /\ e = evtBuf[evtNext] /\ evtCount' = evtCount - 1
      /\ evtNext' = EvtInc(evtNext) /\ raised' = Tail(raised) /\ evtBuf' = evtBuf /\ hwNext' = hwNext
  BY DEF Take
<1>3. /\ evtNext \in 0 .. EventsNum - 1 /\ evtCount = Len(raised) /\ Len(raised) <= EventsNum
      /\ hwNext = (evtNext + Len(raised)) % EventsNum
  BY DEF RingInv, EventsInOrder
<1>4. raised # <<>>
  BY <1>2, <1>3, EmptyQueue
<1>5. /\ Len(raised') = Len(raised) - 1 /\ Head(raised) = raised[1]
      /\ \A i \in 1 .. Len(raised) - 1 : raised'[i] = raised[i + 1]
  BY <1>2, <1>4, TailQueue DEF QueueTypes
<1>6. e = Head(raised)
  <2>1. (evtNext + 1 - 1) % EventsNum = evtNext
    BY <1>1, <1>3, PlaceInRing
  <2>2. 1 \in 1 .. evtCount
    BY <1>1, <1>2, <1>3
  <2> QED
    BY <1>2, <1>5, <2>1, <2>2 DEF RingInv, EventsInOrder
<1>7. evtNext' \in 0 .. EventsNum - 1
      /\ evtNext' = IF evtNext + 1 >= EventsNum THEN 0 ELSE evtNext + 1
  BY <1>1, <1>2, <1>3 DEF EvtInc
<1>8. \A i \in 0 .. Len(raised) - 1 : (evtNext' + i) % EventsNum = (evtNext + i + 1) % EventsNum
  <2> TAKE i \in 0 .. Len(raised) - 1
  <2>1. PICK x \in 0 .. 2 * EventsNum - 1 : x = evtNext' + i
    BY <1>1, <1>3, <1>7
  <2>2. PICK y \in 0 .. 2 * EventsNum - 1 : y = evtNext + i + 1
    BY <1>1, <1>3
  <2>3. /\ x % EventsNum = IF x >= EventsNum THEN x - EventsNum ELSE x
        /\ y % EventsNum = IF y >= EventsNum THEN y - EventsNum ELSE y
    BY ModSmall
  <2>4. x % EventsNum = y % EventsNum
    BY <1>1, <1>3, <1>7, <2>1, <2>2, <2>3
  <2> QED
    BY <2>1, <2>2, <2>4
<1>9. hwNext' = (evtNext' + Len(raised')) % EventsNum
  <2>1. /\ Len(raised) - 1 \in 0 .. Len(raised) - 1 /\ evtNext + (Len(raised) - 1) + 1 = evtNext + Len(raised)
        /\ Len(raised') = Len(raised) - 1
    BY <1>1, <1>2, <1>3, <1>5
  <2>2. (evtNext' + (Len(raised) - 1)) % EventsNum = (evtNext + (Len(raised) - 1) + 1) % EventsNum
    BY <1>8, <2>1
  <2> QED
    BY <1>2, <1>3, <2>1, <2>2
<1>10. EventsInOrder'
  <2>1. evtCount' = Len(raised')
    BY <1>2, <1>3, <1>5
  <2>2. ASSUME NEW i \in 1 .. Len(raised) - 1
        PROVE  evtBuf[(evtNext' + i - 1) % EventsNum] = raised'[i]
    <3>1. i - 1 \in 0 .. Len(raised) - 1 /\ i + 1 \in 1 .. evtCount
      BY <1>1, <1>3
    <3>2. /\ evtNext' + i - 1 = evtNext' + (i - 1)
          /\ evtNext + (i - 1) + 1 = evtNext + (i + 1) - 1
      BY <1>1, <1>3, <1>7
    <3>3. (evtNext' + i - 1) % EventsNum = (evtNext + (i + 1) - 1) % EventsNum
      BY <1>8, <3>1, <3>2
    <3>4. evtBuf[(evtNext + (i + 1) - 1) % EventsNum] = raised[i + 1]
      BY <3>1 DEF RingInv, EventsInOrder
    <3> QED
      BY <1>5, <3>3, <3>4
  <2> QED
    BY <1>2, <1>5, <2>1, <2>2 DEF EventsInOrder
<1>11. Len(raised') <= EventsNum
  BY <1>1, <1>3, <1>5
<1> QED
  BY <1>2, <1>4, <1>6, <1>7, <1>9, <1>10, <1>11 DEF RingInv

-----------------------------------------------------------------------------
(* The steps, one by one *)

LEMMA StepCases ==
    ASSUME [Next]_vars
    PROVE  \/ UNCHANGED vars
           \/ AppUsbInit \/ UsbdInit \/ UsbdEnable \/ UsbFails \/ FirstRead \/ Worker
           \/ UsbdReset \/ UsbdConfig \/ (\E r \in Requests : UsbdLineState(r))
           \/ ReadCallback \/ WriteCallback
           \/ (\E r \in Requests : HostRequest(r)) \/ (\E short \in BOOLEAN : HostSends(short))
           \/ HostReads \/ HostResets \/ HostConnects
BY DEF Next, Main, Usbd, Host

LEMMA WorkerCases ==
    ASSUME Worker
    PROVE  /\ \/ OnUsbReset \/ OnConnectDone
              \/ (\E r \in Requests : OnCtrl(r)) \/ (\E d \in Dirs : OnXferDone(d))
           /\ UNCHANGED <<main, speed, early, lineState, mem, size, got, hostVars, dropped, spoiled>>
           /\ len' \in {len, size - ep["out"].left}
BY DEF Worker, LenReceived, ghosts

LEMMA SendCases ==
    ASSUME NEW short \in BOOLEAN, HostSends(short)
    PROVE  /\ Armed("out")
           /\ UNCHANGED <<main, speed, early, lineState, len, size, dropped, spoiled>>
           /\ got' = got + 1
           /\ \/ \E n : n = size - got' /\ HwComplete("out", n)
              \/ UNCHANGED dwcVars /\ got' # size
BY DEF HostSends, ghosts

LEMMA SendCompletes ==
    ASSUME RestTypes, GotInv, NEW short \in BOOLEAN, HostSends(short)
    PROVE  \/ \E n \in 0 .. MaxLen : n = size - got' /\ HwComplete("out", n)
           \/ UNCHANGED dwcVars /\ got' # size
<1>1. got \in 0 .. MaxLen /\ size \in 0 .. MaxLen /\ MaxLen \in Nat
  BY SizesOfBuffer DEF RestTypes, AppTypes
<1>2. got' = got + 1 /\ got < size
  BY SendCases DEF Armed, GotInv
<1>3. size - got' \in 0 .. MaxLen
  BY <1>1, <1>2
<1> QED
  BY <1>3, SendCases

\* What the firmware hands over has a size.
LEMMA ReadIsEnqueue ==
    ASSUME RestTypes, GotInv, CdcRawRead
    PROVE  \E n \in 0 .. MaxLen : n = size' /\ ep' = Enqueue("out", ep, n)
<1>1. CASE ep["out"].on
  <2>1. ep["out"].mps \in Sizes
    BY <1>1, KindsDiffer DEF GotInv
  <2>2. BufPackets[ep["out"].mps] \in 1 .. MaxLen /\ MaxLen \in Nat
    BY <2>1, SizesOfBuffer
  <2>3. size' = BufPackets[ep["out"].mps] /\ ep' = Enqueue("out", ep, size')
    BY <1>1 DEF CdcRawRead
  <2>4. size' \in 0 .. MaxLen
    BY <2>2, <2>3
  <2> QED
    BY <2>3, <2>4
<1>2. CASE ~ep["out"].on
  <2>1. size' = size /\ ep' = Enqueue("out", ep, size')
    BY <1>2 DEF CdcRawRead
  <2>2. size \in 0 .. MaxLen
    BY DEF RestTypes, AppTypes
  <2> QED
    BY <2>1, <2>2
<1> QED
  BY <1>1, <1>2

LEMMA WriteIsEnqueue ==
    ASSUME RestTypes, CdcRawWrite
    PROVE  \E n \in 0 .. MaxLen : ep' = Enqueue("in", ep, n)
BY DEF RestTypes, AppTypes, CdcRawWrite

\* What a step may do to the events that wait.
EventStep ==
    \/ UNCHANGED events
    \/ main = "init" /\ SoftReset
    \/ \E e \in BusEvents : Raise(e) /\ evtCount < EventsNum - 2
    \/ \E r \in Requests : Raise(r) /\ Requests \cap ToSet(raised) = {}
    \/ \E d \in Dirs : Raise(d) /\ Armed(d)
    \/ \E e : Take(e)

LEMMA EventMoves ==
    ASSUME [Next]_vars
    PROVE  EventStep
<1> USE DEF EventStep
<1>1. CASE UNCHANGED vars
  BY <1>1 DEF vars, dwcVars
<1>2. CASE AppUsbInit \/ UsbFails
  BY <1>2 DEF AppUsbInit, UsbFails, dwcVars
<1>3. CASE UsbdInit
  BY <1>3 DEF UsbdInit, ApiInit
<1>4. CASE UsbdEnable
  BY <1>4 DEF UsbdEnable, ApiEnable
<1>5. CASE FirstRead
  BY <1>5 DEF FirstRead
<1>6. CASE Worker
  BY <1>6, WorkerCases DEF OnUsbReset, OnConnectDone, OnCtrl, OnXferDone
<1>7. CASE UsbdReset \/ UsbdConfig \/ (\E r \in Requests : UsbdLineState(r))
           \/ ReadCallback \/ WriteCallback
  BY <1>7 DEF UsbdReset, UsbdConfig, UsbdLineState, ReadCallback, WriteCallback, Message
<1>8. CASE \E r \in Requests : HostRequest(r)
  BY <1>8 DEF HostRequest, HwCtrl, Ep0Free
<1>9. CASE \E short \in BOOLEAN : HostSends(short)
  <2>1. (\E n : HwComplete("out", n)) \/ UNCHANGED dwcVars
    BY <1>9, SendCases
  <2> QED
    BY <2>1, KindsDiffer DEF HwComplete, dwcVars
<1>10. CASE HostReads
  BY <1>10, KindsDiffer DEF HostReads, HwComplete
<1>11. CASE HostResets \/ HostConnects
  BY <1>11, KindsDiffer DEF HostResets, HostConnects, HwReset, HwConnect, BusMoves
<1> QED
  BY <1>1, <1>2, <1>3, <1>4, <1>5, <1>6, <1>7, <1>8, <1>9, <1>10, <1>11, StepCases

LEMMA TakenWaits ==
    ASSUME QueueTypes, RingInv, NEW e, Take(e)
    PROVE  /\ e \in EventKinds /\ e \in ToSet(raised) /\ raised' = Tail(raised)
           /\ ToSet(raised) = ToSet(raised') \cup {e}
           /\ \A S : AtMostOne(raised, S) /\ e \in S => S \cap ToSet(raised') = {}
<1>1. raised # <<>> /\ e = Head(raised) /\ raised' = Tail(raised)
  BY RingTake
<1>2. raised \in Seq(EventKinds)
  BY DEF QueueTypes
<1>3. /\ Head(raised) \in EventKinds /\ Head(raised) \in ToSet(raised)
      /\ ToSet(raised) = ToSet(Tail(raised)) \cup {Head(raised)}
      /\ \A S : AtMostOne(raised, S) /\ Head(raised) \in S => S \cap ToSet(Tail(raised)) = {}
  BY <1>1, <1>2, TailQueue
<1> QED
  BY <1>1, <1>3

LEMMA StartKept ==
    ASSUME StartInv, OneInv, QueueTypes, RingInv, [Next]_vars
    PROVE  StartInv'
<1> USE DEF StartInv
<1>1. CASE UNCHANGED vars
  BY <1>1 DEF vars, dwcVars, events, echoVars
<1>2. CASE AppUsbInit \/ UsbFails
  BY <1>2 DEF AppUsbInit, UsbFails, Goto, dwcVars, events
<1>3. CASE UsbdInit
  BY <1>3 DEF UsbdInit, ApiInit, SoftReset, Goto
<1>4. CASE UsbdEnable
  BY <1>4 DEF UsbdEnable, ApiEnable, Goto
<1>5. CASE FirstRead
  BY <1>5 DEF FirstRead
<1>6. CASE Worker
  <2>1. main' = main
    BY <1>6, WorkerCases
  <2>2. running /\ ~failed'
    <3>1. CASE OnUsbReset \/ OnConnectDone \/ (\E r \in Requests : OnCtrl(r))
      <4>1. failed' = failed /\ \E e : Take(e)
        BY <3>1 DEF OnUsbReset, OnConnectDone, OnCtrl
      <4> QED
        BY <4>1 DEF Take
    <3>2. ASSUME NEW d \in Dirs, OnXferDone(d) PROVE running /\ ~failed'
      <4>0. Take(d)
        BY <3>2 DEF OnXferDone
      <4>1. d \in ToSet(raised)
        BY <4>0, TakenWaits
      <4>2. ep[d].held
        BY <4>1 DEF OneInv
      <4> QED
        BY <3>2, <4>2 DEF OnXferDone, Take
    <3> QED
      BY <1>6, <3>1, <3>2, WorkerCases
  <2> QED
    BY <2>1, <2>2
<1>7. CASE UsbdReset \/ UsbdConfig \/ (\E r \in Requests : UsbdLineState(r))
           \/ ReadCallback \/ WriteCallback
  <2>1. main' = main /\ failed' = failed /\ msgs # <<>>
    BY <1>7 DEF UsbdReset, UsbdConfig, UsbdLineState, ReadCallback, WriteCallback, Message
  <2> QED
    BY <2>1
<1>8. CASE \E r \in Requests : HostRequest(r)
  BY <1>8 DEF HostRequest, HwCtrl, echoVars
<1>9. CASE \E short \in BOOLEAN : HostSends(short)
  BY <1>9, SendCases DEF HwComplete, Armed, dwcVars
<1>10. CASE HostReads
  BY <1>10 DEF HostReads, HwComplete, Armed, echoVars
<1>11. CASE HostResets \/ HostConnects
  BY <1>11 DEF HostResets, HostConnects, HwReset, HwConnect, BusMoves, echoVars
<1> QED
  BY <1>1, <1>2, <1>3, <1>4, <1>5, <1>6, <1>7, <1>8, <1>9, <1>10, <1>11, StepCases

\* The transfer that ends is the only one.
LEMMA AloneInRing ==
    ASSUME OneInv, NEW d \in Dirs, Armed(d)
    PROVE  Dirs \cap ToSet(raised) = {}
BY KindsDiffer DEF OneInv, Armed

LEMMA RoomToRaise ==
    ASSUME QueueTypes, RingInv, RoomInv, OneInv, NEW e,
           \/ e \in BusEvents /\ evtCount < EventsNum - 2
           \/ e \in Requests /\ Requests \cap ToSet(raised) = {}
           \/ e \in Dirs /\ Armed(e)
    PROVE  e \in EventKinds /\ Len(raised) < EventsNum
<1>1. e \in EventKinds
  BY KindsDiffer
<1>2. CASE e \in BusEvents /\ evtCount < EventsNum - 2
  BY <1>1, <1>2, EventsNumAssumption DEF RingInv, EventsInOrder
<1>3. CASE e \in Requests /\ Requests \cap ToSet(raised) = {}
  BY <1>1, <1>3, RoomForOne
<1>4. CASE e \in Dirs /\ Armed(e)
  BY <1>1, <1>4, RoomForOne, AloneInRing
<1> QED
  BY <1>2, <1>3, <1>4

LEMMA RingKept ==
    ASSUME QueueTypes, StartInv, RingInv, RoomInv, OneInv, [Next]_vars
    PROVE  RingInv'
<1>1. CASE UNCHANGED events
  BY <1>1 DEF events, RingInv, EventsInOrder
<1>2. CASE main = "init" /\ SoftReset
  <2>1. /\ raised' = <<>> /\ evtNext' = 0 /\ hwNext' = 0 /\ evtCount' = 0
        /\ evtBuf' = [n \in 0 .. EventsNum - 1 |-> NoEvent]
    BY <1>2 DEF SoftReset, StartInv
  <2>2. Len(raised') = 0 /\ EventsNum \in Nat /\ EventsNum >= 4
    BY <2>1, EmptyQueue, EventsNumAssumption
  <2>3. PICK x \in 0 .. 2 * EventsNum - 1 : x = 0
    BY <2>2
  <2>4. x % EventsNum = 0
    BY <2>2, <2>3, ModSmall
  <2>5. hwNext' = (evtNext' + Len(raised')) % EventsNum
    BY <2>1, <2>2, <2>3, <2>4
  <2> QED
    BY <2>1, <2>2, <2>5 DEF RingInv, EventsInOrder
<1>3. ASSUME NEW e, Raise(e),
             \/ e \in BusEvents /\ evtCount < EventsNum - 2
             \/ e \in Requests /\ Requests \cap ToSet(raised) = {}
             \/ e \in Dirs /\ Armed(e)
      PROVE  RingInv'
  BY <1>3, RoomToRaise, RingRaise
<1>4. ASSUME NEW e, Take(e) PROVE RingInv'
  BY <1>4, RingTake
<1> QED
  BY <1>1, <1>2, <1>3, <1>4, EventMoves DEF EventStep

LEMMA RoomKept ==
    ASSUME QueueTypes, StartInv, RingInv, RoomInv, OneInv, [Next]_vars
    PROVE  RoomInv' /\ raised' \in Seq(EventKinds)
<1>1. CASE UNCHANGED events
  BY <1>1 DEF events, RoomInv, AtMostOne, QueueTypes
<1>2. CASE main = "init" /\ SoftReset
  BY <1>2 DEF SoftReset, RoomInv, AtMostOne, QueueTypes
<1>3. ASSUME NEW e, Raise(e),
             \/ e \in BusEvents /\ evtCount < EventsNum - 2
             \/ e \in Requests /\ Requests \cap ToSet(raised) = {}
             \/ e \in Dirs /\ Armed(e)
      PROVE  RoomInv' /\ raised' \in Seq(EventKinds)
  <2>1. e \in EventKinds /\ raised' = Append(raised, e) /\ raised \in Seq(EventKinds)
    BY <1>3, RoomToRaise DEF Raise, QueueTypes
  <2>2. /\ raised' \in Seq(EventKinds) /\ Len(raised') = Len(raised) + 1 /\ Len(raised) \in Nat
        /\ \A i \in 1 .. Len(raised) : raised'[i] = raised[i]
        /\ raised'[Len(raised) + 1] = e
        /\ \A S : AtMostOne(raised, S) /\ (e \notin S \/ S \cap ToSet(raised) = {})
                  => AtMostOne(raised', S)
    BY <2>1, AppendQueue
  <2>3. e \notin Dirs \/ Dirs \cap ToSet(raised) = {}
    BY <1>3, AloneInRing, KindsDiffer
  <2>4. e \notin Requests \/ Requests \cap ToSet(raised) = {}
    BY <1>3, KindsDiffer
  <2>5. AtMostOne(raised', Dirs) /\ AtMostOne(raised', Requests)
    BY <2>2, <2>3, <2>4 DEF RoomInv
  <2>6. ASSUME NEW i \in 1 .. Len(raised'), raised'[i] \in BusEvents PROVE i <= EventsNum - 2
    <3>1. CASE i = Len(raised) + 1
      <4>1. Len(raised) < EventsNum - 2
        BY <1>3, <2>2, <2>6, <3>1, KindsDiffer DEF RingInv, EventsInOrder
      <4> QED
        BY <2>2, <3>1, <4>1, EventsNumAssumption
    <3>2. CASE i # Len(raised) + 1
      BY <2>2, <2>6, <3>2 DEF RoomInv
    <3> QED
      BY <3>1, <3>2
  <2> QED
    BY <2>2, <2>5, <2>6 DEF RoomInv
<1>4. ASSUME NEW e, Take(e) PROVE RoomInv' /\ raised' \in Seq(EventKinds)
  <2>1. raised # <<>> /\ raised' = Tail(raised) /\ raised \in Seq(EventKinds)
    BY <1>4, RingTake DEF QueueTypes
  <2>2. /\ raised' \in Seq(EventKinds) /\ Len(raised') = Len(raised) - 1 /\ Len(raised) \in Nat \ {0}
        /\ \A i \in 1 .. Len(raised) - 1 : raised'[i] = raised[i + 1]
        /\ \A S : AtMostOne(raised, S) => AtMostOne(raised', S)
    BY <2>1, TailQueue
  <2>3. ASSUME NEW i \in 1 .. Len(raised'), raised'[i] \in BusEvents PROVE i <= EventsNum - 2
    <3>1. i + 1 \in 1 .. Len(raised) /\ raised[i + 1] \in BusEvents /\ i \in Nat
      BY <2>2, <2>3
    <3>2. i + 1 <= EventsNum - 2
      BY <3>1 DEF RoomInv
    <3> QED
      BY <3>1, <3>2, EventsNumAssumption
  <2> QED
    BY <2>2, <2>3 DEF RoomInv
<1> QED
  BY <1>1, <1>2, <1>3, <1>4, EventMoves DEF EventStep

-----------------------------------------------------------------------------
(* Messages and endpoints *)

LEMMA MessageKinds ==
    /\ \A m : m \in Dones <=> m \in Msgs /\ m.kind = "done"
    /\ [kind |-> "reset", arg |-> "none"] \in Msgs \ Dones
    /\ \A r \in Requests : [kind |-> "ctrl", arg |-> r] \in Msgs \ Dones
    /\ \A d \in Dirs : [kind |-> "done", arg |-> d] \in Dones
BY DEF Msgs, Dones

LEMMA SubmitMoves ==
    ASSUME QueueTypes, NEW m \in Msgs, Submit(m)
    PROVE  /\ msgs' \in Seq(Msgs) /\ ToSet(msgs') = ToSet(msgs) \cup {m}
           /\ AtMostOne(msgs, Dones) /\ (m \notin Dones \/ Dones \cap ToSet(msgs) = {})
              => AtMostOne(msgs', Dones)
<1>1. msgs \in Seq(Msgs) /\ msgs' = Append(msgs, m)
  BY DEF QueueTypes, Submit
<1>2. /\ Append(msgs, m) \in Seq(Msgs) /\ ToSet(Append(msgs, m)) = ToSet(msgs) \cup {m}
      /\ \A S : AtMostOne(msgs, S) /\ (m \notin S \/ S \cap ToSet(msgs) = {})
                => AtMostOne(Append(msgs, m), S)
  BY <1>1, AppendQueue
<1> QED
  BY <1>1, <1>2

LEMMA MessageMoves ==
    ASSUME QueueTypes, NEW k, NEW a, Message(k, a)
    PROVE  /\ msgs' \in Seq(Msgs) /\ msgs # <<>>
           /\ [kind |-> k, arg |-> a] \in ToSet(msgs) /\ [kind |-> k, arg |-> a] \in Msgs
           /\ ToSet(msgs) = ToSet(msgs') \cup {[kind |-> k, arg |-> a]}
           /\ AtMostOne(msgs, Dones) => /\ AtMostOne(msgs', Dones)
                                        /\ k = "done" => Dones \cap ToSet(msgs') = {}
<1>1. /\ msgs \in Seq(Msgs) /\ msgs # <<>> /\ msgs' = Tail(msgs)
      /\ Head(msgs) = [kind |-> k, arg |-> a]
  BY DEF QueueTypes, Message
<1>2. PICK m : m = [kind |-> k, arg |-> a]
  OBVIOUS
<1>3. /\ Tail(msgs) \in Seq(Msgs) /\ Head(msgs) \in Msgs /\ Head(msgs) \in ToSet(msgs)
      /\ ToSet(msgs) = ToSet(Tail(msgs)) \cup {Head(msgs)}
      /\ \A S : AtMostOne(msgs, S) => /\ AtMostOne(Tail(msgs), S)
                                      /\ Head(msgs) \in S => S \cap ToSet(Tail(msgs)) = {}
  BY <1>1, TailQueue
<1>4. k = "done" => m \in Dones
  <2>1. m.kind = k /\ m \in Msgs
    BY <1>1, <1>2, <1>3
  <2> QED
    BY <2>1, MessageKinds
<1> QED
  BY <1>1, <1>2, <1>3, <1>4

LEMMA DescMpsIs == \A s \in Speeds : DescMps(s) \in Sizes
BY DEF Speeds, DescMps, Sizes

LEMMA ConfigMoves ==
    ASSUME ep \in [Dirs -> Endpoints], speed \in Speeds,
           ep' = [d \in Dirs |-> Enabled(AllDisabled[d], DescMps(speed))]
    PROVE  /\ ep' \in [Dirs -> Endpoints]
           /\ \A c \in Dirs : /\ ep'[c].held = ep[c].held
                              /\ ep'[c].owned => ep[c].owned
                              /\ ep'[c].left \in {0, ep[c].left}
                              /\ ep'[c].on <=> DescMps(speed) <= CapsMps
                              /\ ep'[c].on => ep'[c].mps = DescMps(speed) /\ ~ep'[c].owned
<1>1. PICK n \in Sizes : n = DescMps(speed)
  BY DescMpsIs
<1>2. ASSUME NEW c \in Dirs
      PROVE  /\ ep'[c] \in Endpoints /\ ep'[c].held = ep[c].held
             /\ ep'[c].left \in {0, ep[c].left}
             /\ ep'[c].owned => ep[c].owned
             /\ ep'[c].on <=> n <= CapsMps
             /\ ep'[c].on => ep'[c].mps = n /\ ~ep'[c].owned
  <2>1. PICK e : e = AllDisabled[c]
    OBVIOUS
  <2>2. e \in Endpoints /\ ~e.on /\ e.held = ep[c].held /\ e.owned = ep[c].owned
        /\ e.left = ep[c].left
    BY <2>1, DisabledMoves
  <2>3. ep'[c] = Enabled(e, n)
    BY <1>1, <2>1
  <2>4. /\ Enabled(e, n) \in Endpoints
        /\ Enabled(e, n).on <=> n <= CapsMps
        /\ Enabled(e, n).held = e.held
        /\ Enabled(e, n).on => Enabled(e, n).mps = n /\ ~Enabled(e, n).owned
        /\ Enabled(e, n).owned => e.owned
        /\ Enabled(e, n).left \in {0, e.left}
    BY <2>2, EnabledMoves
  <2> QED
    BY <2>2, <2>3, <2>4
<1>3. ep' \in [Dirs -> Endpoints]
  BY <1>2
<1> QED
  BY <1>1, <1>2, <1>3

LEMMA RaiseMoves ==
    ASSUME QueueTypes, NEW e \in EventKinds, Raise(e)
    PROVE  ToSet(raised') = ToSet(raised) \cup {e}
<1>1. raised \in Seq(EventKinds) /\ raised' = Append(raised, e)
  BY DEF QueueTypes, Raise
<1> QED
  BY <1>1, AppendQueue

-----------------------------------------------------------------------------
(* Where the buffer is *)

LEMMA OneFrame ==
    ASSUME OneInv, main' # "sleep" => main # "sleep",
           \A d \in Dirs : ep'[d].held = ep[d].held /\ (ep'[d].owned => ep[d].owned),
           Dirs \cap ToSet(raised') \subseteq ToSet(raised),
           AtMostOne(msgs', Dones), Dones \cap ToSet(msgs') \subseteq ToSet(msgs)
    PROVE  OneInv'
<1>1. /\ \A d \in Dirs : ep[d].owned => ep[d].held
      /\ \A d \in Dirs : d \in ToSet(raised) => ep[d].held /\ ~ep[d].owned
      /\ ~(ep["out"].held /\ ep["in"].held)
      /\ Dones \cap ToSet(msgs) # {} => \A d \in Dirs : ~ep[d].held
      /\ main # "sleep" => Dones \cap ToSet(msgs) = {} /\ \A d \in Dirs : ~ep[d].held
  BY DEF OneInv
<1>2. Dones \cap ToSet(msgs') # {} => Dones \cap ToSet(msgs) # {}
  OBVIOUS
<1>3. \A d \in Dirs : d \in ToSet(raised') => ep'[d].held /\ ~ep'[d].owned
  BY <1>1
<1>4. ~(ep'["out"].held /\ ep'["in"].held)
  BY <1>1, KindsDiffer
<1>5. \A d \in Dirs : ep'[d].owned => ep'[d].held
  BY <1>1
<1>6. Dones \cap ToSet(msgs') # {} => \A d \in Dirs : ~ep'[d].held
  BY <1>1, <1>2
<1>7. main' # "sleep" => Dones \cap ToSet(msgs') = {} /\ \A d \in Dirs : ~ep'[d].held
  BY <1>1, <1>2
<1> QED
  BY <1>3, <1>4, <1>5, <1>6, <1>7 DEF OneInv

\* The buffer, which was nobody's, goes to an endpoint.
LEMMA HandedOver ==
    ASSUME OneInv, ep \in [Dirs -> Endpoints], \A c \in Dirs : ~ep[c].held,
           NEW d \in Dirs, NEW n \in 0 .. MaxLen, ep' = Enqueue(d, ep, n), raised' = raised,
           AtMostOne(msgs', Dones), Dones \cap ToSet(msgs') = {},
           main' = "sleep" \/ ~ep[d].on
    PROVE  OneInv'
<1>1. /\ \A c \in Dirs : ~ep[c].owned
      /\ \A c \in Dirs : c \notin ToSet(raised)
  BY DEF OneInv
<1>2. /\ \A c \in Dirs : c # d => ep'[c] = ep[c]
      /\ ep[d].on => ep'[d].held /\ ep'[d].owned
      /\ ~ep[d].on => ep' = ep
  BY EnqueueMoves, LengthsAreNat
<1>3. ~(ep'["out"].held /\ ep'["in"].held)
  BY <1>2, KindsDiffer
<1>4. \A c \in Dirs : ep'[c].owned => ep'[c].held
  BY <1>1, <1>2
<1>5. main' # "sleep" => \A c \in Dirs : ~ep'[c].held
  BY <1>2
<1> QED
  BY <1>1, <1>3, <1>4, <1>5 DEF OneInv

LEMMA CompleteKeeps ==
    ASSUME QueueTypes, OneInv, NEW d \in Dirs, NEW n \in Nat, HwComplete(d, n), main' = main
    PROVE  OneInv'
<1>1. ep \in [Dirs -> Endpoints] /\ msgs' = msgs /\ Raise(d) /\ ep[d].held
  BY DEF HwComplete, Armed, QueueTypes
<1>2. /\ ~ep'[d].owned /\ ep'[d].held = ep[d].held
      /\ \A c \in Dirs : c # d => ep'[c] = ep[c]
  BY <1>1, CompleteMoves
<1>3. ToSet(raised') = ToSet(raised) \cup {d}
  BY <1>1, RaiseMoves, KindsDiffer
<1>4. /\ \A c \in Dirs : ep[c].owned => ep[c].held
      /\ \A c \in Dirs : c \in ToSet(raised) => ep[c].held /\ ~ep[c].owned
      /\ ~(ep["out"].held /\ ep["in"].held)
      /\ AtMostOne(msgs, Dones)
      /\ Dones \cap ToSet(msgs) # {} => \A c \in Dirs : ~ep[c].held
      /\ main # "sleep" => Dones \cap ToSet(msgs) = {} /\ \A c \in Dirs : ~ep[c].held
  BY DEF OneInv
<1>5. \A c \in Dirs : c \in ToSet(raised') => ep'[c].held /\ ~ep'[c].owned
  BY <1>1, <1>2, <1>3, <1>4
<1>6. \A c \in Dirs : ep'[c].held = ep[c].held /\ (ep'[c].owned => ep[c].owned)
  BY <1>2
<1>7. ~(ep'["out"].held /\ ep'["in"].held)
  BY <1>4, <1>6, KindsDiffer
<1> QED
  BY <1>1, <1>4, <1>5, <1>6, <1>7 DEF OneInv

LEMMA DoneKeeps ==
    ASSUME QueueTypes, RingInv, RoomInv, OneInv, NEW d \in Dirs, OnXferDone(d), main' = main
    PROVE  /\ OneInv' /\ main = "sleep" /\ Dones \cap ToSet(msgs') # {}
           /\ msgs' \in Seq(Msgs) /\ ep' \in [Dirs -> Endpoints]
           /\ \A c \in Dirs : ep'[c].on = ep[c].on /\ ep'[c].mps = ep[c].mps
                              /\ ep'[c].left = ep[c].left /\ (ep'[c].owned => ep[c].owned)
<1>1. Take(d) /\ ep' = [ep EXCEPT ![d] = Pop(ep[d])] /\ ep \in [Dirs -> Endpoints]
      /\ (ep[d].held => Submit([kind |-> "done", arg |-> d]))
  BY DEF OnXferDone, QueueTypes
<1>2. d \in ToSet(raised) /\ \A S : AtMostOne(raised, S) /\ d \in S => S \cap ToSet(raised') = {}
  BY <1>1, TakenWaits
<1>3. Dirs \cap ToSet(raised') = {}
  BY <1>2 DEF RoomInv
<1>4. /\ ep[d].held /\ ~ep[d].owned
      /\ \A c \in Dirs : ep[c].owned => ep[c].held
      /\ ~(ep["out"].held /\ ep["in"].held)
      /\ AtMostOne(msgs, Dones)
      /\ Dones \cap ToSet(msgs) # {} => \A c \in Dirs : ~ep[c].held
      /\ main # "sleep" => \A c \in Dirs : ~ep[c].held
  BY <1>2 DEF OneInv
<1>5. main = "sleep" /\ Dones \cap ToSet(msgs) = {} /\ \A c \in Dirs : c # d => ~ep[c].held
  BY <1>4, KindsDiffer
<1>6. /\ ep' \in [Dirs -> Endpoints]
      /\ ~ep'[d].held /\ ep'[d].owned = ep[d].owned
      /\ ep'[d].on = ep[d].on /\ ep'[d].mps = ep[d].mps /\ ep'[d].left = ep[d].left
      /\ \A c \in Dirs : c # d => ep'[c] = ep[c]
  BY <1>1, PopMoves
<1>7. PICK m \in Dones : m = [kind |-> "done", arg |-> d]
  BY MessageKinds
<1>8. m \in Msgs /\ Submit(m)
  BY <1>1, <1>4, <1>7, MessageKinds
<1>9. /\ msgs' \in Seq(Msgs) /\ ToSet(msgs') = ToSet(msgs) \cup {m}
      /\ AtMostOne(msgs', Dones)
  BY <1>4, <1>5, <1>8, SubmitMoves
<1>10. /\ \A c \in Dirs : ~ep'[c].held
       /\ \A c \in Dirs : ep'[c].on = ep[c].on /\ ep'[c].mps = ep[c].mps
                          /\ ep'[c].left = ep[c].left /\ ep'[c].owned = ep[c].owned
  BY <1>5, <1>6
<1>11. \A c \in Dirs : ~ep'[c].owned
  BY <1>4, <1>5, <1>10
<1>12. OneInv'
  BY <1>3, <1>5, <1>9, <1>10, <1>11, KindsDiffer DEF OneInv
<1> QED
  BY <1>5, <1>6, <1>7, <1>9, <1>10, <1>12

LEMMA OneKept ==
    ASSUME QueueTypes, RestTypes, StartInv, RingInv, RoomInv, OneInv, GotInv, [Next]_vars
    PROVE  OneInv'
<1>0. /\ ep \in [Dirs -> Endpoints] /\ speed \in Speeds /\ AtMostOne(msgs, Dones)
      /\ main # "sleep" => Dones \cap ToSet(msgs) = {} /\ \A c \in Dirs : ~ep[c].held
      /\ Dones \cap ToSet(msgs) # {} => main = "sleep" /\ \A c \in Dirs : ~ep[c].held
  BY DEF QueueTypes, RestTypes, AppTypes, OneInv
<1>1. ASSUME UNCHANGED <<ep, raised, msgs>>, main' # "sleep" => main # "sleep" PROVE OneInv'
  BY <1>0, <1>1, OneFrame
<1>2. CASE UNCHANGED vars
  BY <1>1, <1>2 DEF vars, dwcVars, events, echoVars
<1>3. CASE AppUsbInit \/ UsbFails
  BY <1>1, <1>3 DEF AppUsbInit, UsbFails, Goto, dwcVars, events
<1>4. CASE UsbdInit
  BY <1>1, <1>4 DEF UsbdInit, ApiInit, SoftReset, Goto
<1>5. CASE UsbdEnable
  BY <1>1, <1>5 DEF UsbdEnable, ApiEnable, events, Goto
<1>6. CASE FirstRead
  <2>1. /\ CdcRawRead /\ raised' = raised /\ msgs' = msgs /\ main = "wait"
        /\ main' = "sleep" \/ ~ep["out"].on
    BY <1>6 DEF FirstRead, events
  <2>2. PICK n \in 0 .. MaxLen : ep' = Enqueue("out", ep, n)
    BY <2>1, ReadIsEnqueue
  <2> QED
    BY <1>0, <2>1, <2>2, HandedOver, KindsDiffer
<1>7. CASE Worker
  <2>0. main' = main
    BY <1>7, WorkerCases
  <2>1. ASSUME NEW e, e \notin Dirs, Take(e), ep' = ep,
               msgs' = msgs \/ \E m \in Msgs \ Dones : Submit(m)
        PROVE  OneInv'
    <3>1. ToSet(raised') \subseteq ToSet(raised)
      BY <2>1, TakenWaits
    <3>2. AtMostOne(msgs', Dones) /\ Dones \cap ToSet(msgs') \subseteq ToSet(msgs)
      <4>1. ASSUME NEW m \in Msgs \ Dones, Submit(m)
            PROVE  AtMostOne(msgs', Dones) /\ Dones \cap ToSet(msgs') \subseteq ToSet(msgs)
        BY <1>0, <4>1, SubmitMoves
      <4> QED
        BY <1>0, <2>1, <4>1
    <3> QED
      BY <2>0, <2>1, <3>1, <3>2, OneFrame
  <2>2. CASE OnUsbReset
    <3>1. "reset" \notin Dirs /\ [kind |-> "reset", arg |-> "none"] \in Msgs \ Dones
      BY MessageKinds, KindsDiffer
    <3> QED
      BY <2>1, <2>2, <3>1 DEF OnUsbReset
  <2>3. CASE OnConnectDone
    BY <2>1, <2>3, KindsDiffer DEF OnConnectDone
  <2>4. ASSUME NEW r \in Requests, OnCtrl(r) PROVE OneInv'
    <3>1. r \notin Dirs /\ [kind |-> "ctrl", arg |-> r] \in Msgs \ Dones
      BY MessageKinds, KindsDiffer
    <3> QED
      BY <2>1, <2>4, <3>1 DEF OnCtrl
  <2>5. ASSUME NEW d \in Dirs, OnXferDone(d) PROVE OneInv'
    BY <2>0, <2>5, DoneKeeps
  <2> QED
    BY <1>7, <2>2, <2>3, <2>4, <2>5, WorkerCases
<1>8. ASSUME NEW k, NEW a, Message(k, a), main' = main,
             \A c \in Dirs : ep'[c].held = ep[c].held /\ (ep'[c].owned => ep[c].owned)
      PROVE  OneInv'
  <2>1. raised' = raised
    BY <1>8 DEF Message, events
  <2>2. AtMostOne(msgs', Dones) /\ ToSet(msgs') \subseteq ToSet(msgs)
    BY <1>0, <1>8, MessageMoves
  <2> QED
    BY <1>8, <2>1, <2>2, OneFrame
<1>9. CASE UsbdReset
  BY <1>0, <1>8, <1>9, DisabledMoves DEF UsbdReset
<1>10. CASE UsbdConfig
  BY <1>0, <1>8, <1>10, ConfigMoves DEF UsbdConfig
<1>11. ASSUME NEW r \in Requests, UsbdLineState(r) PROVE OneInv'
  BY <1>8, <1>11 DEF UsbdLineState
<1>12. ASSUME NEW a \in Dirs, NEW d \in Dirs, NEW n \in 0 .. MaxLen,
              Message("done", a), ep' = Enqueue(d, ep, n), main' = main
       PROVE  OneInv'
  <2>1. raised' = raised
    BY <1>12 DEF Message, events
  <2>2. /\ AtMostOne(msgs', Dones) /\ Dones \cap ToSet(msgs') = {}
        /\ [kind |-> "done", arg |-> a] \in ToSet(msgs)
    BY <1>0, <1>12, MessageMoves
  <2>3. Dones \cap ToSet(msgs) # {}
    BY <2>2, MessageKinds
  <2> QED
    BY <1>0, <1>12, <2>1, <2>2, <2>3, HandedOver
<1>13. CASE ReadCallback
  BY <1>12, <1>13, WriteIsEnqueue, KindsDiffer DEF ReadCallback
<1>14. CASE WriteCallback
  BY <1>12, <1>14, ReadIsEnqueue, KindsDiffer DEF WriteCallback
<1>15. ASSUME NEW e \in EventKinds, e \notin Dirs, Raise(e), UNCHANGED <<ep, msgs, main>> PROVE OneInv'
  <2>1. Dirs \cap ToSet(raised') \subseteq ToSet(raised)
    BY <1>15, RaiseMoves
  <2> QED
    BY <1>0, <1>15, <2>1, OneFrame
<1>16. ASSUME NEW r \in Requests, HostRequest(r) PROVE OneInv'
  BY <1>15, <1>16, KindsDiffer DEF HostRequest, HwCtrl, echoVars
<1>17. ASSUME NEW short \in BOOLEAN, HostSends(short) PROVE OneInv'
  <2>1. main' = main /\ ((\E n \in 0 .. MaxLen : HwComplete("out", n)) \/ UNCHANGED dwcVars)
    BY <1>17, SendCases, SendCompletes
  <2>2. CASE UNCHANGED dwcVars
    BY <1>1, <2>1, <2>2 DEF dwcVars, events
  <2> QED
    BY <2>1, <2>2, CompleteKeeps, KindsDiffer, LengthsAreNat
<1>18. CASE HostReads
  BY <1>18, CompleteKeeps, KindsDiffer DEF HostReads, echoVars
<1>19. CASE HostResets \/ HostConnects
  <2>1. /\ Raise("reset") \/ Raise("connect")
        /\ UNCHANGED <<ep, msgs, main>>
    BY <1>19 DEF HostResets, HostConnects, HwReset, HwConnect, BusMoves, echoVars
  <2> QED
    BY <1>15, <2>1, KindsDiffer
<1> QED
  BY <1>2, <1>3, <1>4, <1>5, <1>6, <1>7, <1>9, <1>10, <1>11, <1>13, <1>14, <1>16, <1>17, <1>18,
     <1>19, StepCases

LEMMA QueueKept ==
    ASSUME QueueTypes, RestTypes, StartInv, RingInv, RoomInv, OneInv, GotInv, [Next]_vars
    PROVE  QueueTypes'
<1>0. /\ ep \in [Dirs -> Endpoints] /\ speed \in Speeds /\ msgs \in Seq(Msgs)
      /\ raised' \in Seq(EventKinds)
  BY RoomKept DEF QueueTypes, RestTypes, AppTypes
<1>1. ASSUME UNCHANGED <<ep, msgs>> PROVE QueueTypes'
  BY <1>0, <1>1 DEF QueueTypes
<1>2. CASE UNCHANGED vars
  BY <1>1, <1>2 DEF vars, dwcVars
<1>3. CASE AppUsbInit \/ UsbFails \/ UsbdInit \/ UsbdEnable
  BY <1>1, <1>3 DEF AppUsbInit, UsbFails, UsbdInit, ApiInit, UsbdEnable, ApiEnable, dwcVars
<1>4. CASE FirstRead
  BY <1>0, <1>4, ReadIsEnqueue, EnqueueMoves, LengthsAreNat, KindsDiffer DEF FirstRead, QueueTypes
<1>5. CASE Worker
  <2>0. main' = main
    BY <1>5, WorkerCases
  <2>1. ASSUME NEW m \in Msgs, Submit(m), ep' = ep PROVE QueueTypes'
    BY <1>0, <2>1, SubmitMoves DEF QueueTypes
  <2>2. CASE OnUsbReset
    BY <2>1, <2>2, MessageKinds DEF OnUsbReset
  <2>3. CASE OnConnectDone
    BY <1>1, <2>3 DEF OnConnectDone
  <2>4. ASSUME NEW r \in Requests, OnCtrl(r) PROVE QueueTypes'
    <3>1. [kind |-> "ctrl", arg |-> r] \in Msgs
      BY MessageKinds
    <3> QED
      BY <2>1, <2>4, <3>1 DEF OnCtrl
  <2>5. ASSUME NEW d \in Dirs, OnXferDone(d) PROVE QueueTypes'
    BY <1>0, <2>0, <2>5, DoneKeeps DEF QueueTypes
  <2> QED
    BY <1>5, <2>2, <2>3, <2>4, <2>5, WorkerCases
<1>6. ASSUME NEW k, NEW a, Message(k, a), ep' \in [Dirs -> Endpoints] PROVE QueueTypes'
  <2>1. msgs' \in Seq(Msgs)
    BY <1>6, MessageMoves
  <2> QED
    BY <1>0, <1>6, <2>1 DEF QueueTypes
<1>7. CASE UsbdReset
  BY <1>0, <1>6, <1>7, DisabledMoves DEF UsbdReset
<1>8. CASE UsbdConfig
  BY <1>0, <1>6, <1>8, ConfigMoves DEF UsbdConfig
<1>9. ASSUME NEW r \in Requests, UsbdLineState(r) PROVE QueueTypes'
  BY <1>0, <1>6, <1>9 DEF UsbdLineState
<1>10. CASE ReadCallback \/ WriteCallback
  <2>1. \E d \in Dirs, n \in 0 .. MaxLen : ep' = Enqueue(d, ep, n)
    BY <1>10, ReadIsEnqueue, WriteIsEnqueue, KindsDiffer DEF ReadCallback, WriteCallback
  <2>2. ep' \in [Dirs -> Endpoints]
    BY <1>0, <2>1, EnqueueMoves, LengthsAreNat
  <2> QED
    BY <1>6, <1>10, <2>2 DEF ReadCallback, WriteCallback
<1>11. ASSUME NEW r \in Requests, HostRequest(r) PROVE QueueTypes'
  BY <1>1, <1>11 DEF HostRequest, HwCtrl
<1>12. ASSUME NEW d \in Dirs, NEW n \in Nat, HwComplete(d, n) PROVE QueueTypes'
  BY <1>0, <1>12, CompleteMoves DEF HwComplete, QueueTypes
<1>13. ASSUME NEW short \in BOOLEAN, HostSends(short) PROVE QueueTypes'
  <2>1. (\E n \in 0 .. MaxLen : HwComplete("out", n)) \/ UNCHANGED dwcVars
    BY <1>13, SendCompletes
  <2> QED
    BY <1>1, <1>12, <2>1, KindsDiffer, LengthsAreNat DEF dwcVars
<1>14. CASE HostReads
  BY <1>12, <1>14, KindsDiffer DEF HostReads
<1>15. CASE HostResets \/ HostConnects
  BY <1>1, <1>15 DEF HostResets, HostConnects, HwReset, HwConnect
<1> QED
  BY <1>2, <1>3, <1>4, <1>5, <1>7, <1>8, <1>9, <1>10, <1>11, <1>13, <1>14, <1>15, StepCases

-----------------------------------------------------------------------------
(* The buffer is not lost *)

LEMMA KeptFrame ==
    ASSUME KeptInv, UNCHANGED <<lineState, main, running, dropped>>,
           \A d \in Dirs : ep'[d].on = ep[d].on /\ ep'[d].held = ep[d].held,
           Dones \cap ToSet(msgs) \subseteq ToSet(msgs')
    PROVE  KeptInv'
<1>1. /\ ep["out"].on <=> ep["in"].on
      /\ lineState \/ main = "sleep" => dropped \/ ep["out"].on
      /\ main = "sleep" => dropped \/ Dones \cap ToSet(msgs) # {} \/ \E d \in Dirs : ep[d].held
      /\ main = "error" => dropped \/ ~running
  BY DEF KeptInv
<1>2. ep'["out"].on = ep["out"].on /\ ep'["in"].on = ep["in"].on
  BY KindsDiffer
<1>3. Dones \cap ToSet(msgs) # {} => Dones \cap ToSet(msgs') # {}
  OBVIOUS
<1>4. (\E d \in Dirs : ep[d].held) => \E d \in Dirs : ep'[d].held
  OBVIOUS
<1> QED
  BY <1>1, <1>2, <1>3, <1>4 DEF KeptInv

\* A configuration that ends takes the buffer along.
LEMMA DropKeeps ==
    ASSUME KeptInv, UNCHANGED <<lineState, main, running>>, Drops, ep'["out"].on <=> ep'["in"].on
    PROVE  KeptInv'
BY KindsDiffer DEF KeptInv, Drops

LEMMA KeptKept ==
    ASSUME QueueTypes, RestTypes, StartInv, RingInv, RoomInv, OneInv, KeptInv, GotInv,
           [Next]_vars
    PROVE  KeptInv'
<1>0. /\ ep \in [Dirs -> Endpoints] /\ speed \in Speeds
      /\ ep["out"].on <=> ep["in"].on
      /\ lineState \/ main = "sleep" => dropped \/ ep["out"].on
      /\ main = "error" => dropped \/ ~running
      /\ Dones \cap ToSet(msgs) # {} => main = "sleep" /\ \A c \in Dirs : ~ep[c].held
  BY DEF QueueTypes, RestTypes, AppTypes, OneInv, KeptInv
<1>1. ASSUME UNCHANGED <<lineState, main, running, dropped, ep, msgs>> PROVE KeptInv'
  BY <1>1, KeptFrame
<1>2. CASE UNCHANGED vars
  BY <1>1, <1>2 DEF vars, dwcVars, echoVars, ghosts
<1>3. CASE AppUsbInit \/ UsbFails
  BY <1>0, <1>3 DEF AppUsbInit, UsbFails, Goto, dwcVars, ghosts, StartInv, KeptInv
<1>4. CASE UsbdInit \/ UsbdEnable
  BY <1>0, <1>4 DEF UsbdInit, ApiInit, UsbdEnable, ApiEnable, Goto, ghosts, KeptInv
<1>5. CASE FirstRead
  <2>1. /\ CdcRawRead /\ lineState /\ UNCHANGED <<lineState, running, dropped>>
        /\ main' = IF ep["out"].on THEN "sleep" ELSE "error"
    BY <1>5 DEF FirstRead, IsReady, ghosts
  <2>2. /\ ep'["out"].on = ep["out"].on /\ ep'["in"].on = ep["in"].on
        /\ ep["out"].on => ep'["out"].held
    BY <1>0, <2>1, ReadIsEnqueue, EnqueueMoves, LengthsAreNat, KindsDiffer
  <2> QED
    BY <1>0, <2>1, <2>2, KindsDiffer DEF KeptInv
<1>6. CASE Worker
  <2>0. UNCHANGED <<main, lineState, dropped>>
    BY <1>6, WorkerCases
  <2>1. ASSUME NEW m \in Msgs, Submit(m), UNCHANGED <<ep, running>> PROVE KeptInv'
    <3>1. ToSet(msgs) \subseteq ToSet(msgs')
      BY <2>1, SubmitMoves
    <3> QED
      BY <2>0, <2>1, <3>1, KeptFrame
  <2>2. CASE OnUsbReset
    BY <2>1, <2>2, MessageKinds DEF OnUsbReset
  <2>3. CASE OnConnectDone
    BY <1>1, <2>0, <2>3 DEF OnConnectDone
  <2>4. ASSUME NEW r \in Requests, OnCtrl(r) PROVE KeptInv'
    <3>1. [kind |-> "ctrl", arg |-> r] \in Msgs
      BY MessageKinds
    <3> QED
      BY <2>1, <2>4, <3>1 DEF OnCtrl
  <2>5. ASSUME NEW d \in Dirs, OnXferDone(d) PROVE KeptInv'
    <3>1. /\ main = "sleep" /\ Dones \cap ToSet(msgs') # {}
          /\ ep'["out"].on = ep["out"].on /\ ep'["in"].on = ep["in"].on
      BY <2>0, <2>5, DoneKeeps, KindsDiffer
    <3> QED
      BY <1>0, <2>0, <3>1 DEF KeptInv
  <2> QED
    BY <1>6, <2>2, <2>3, <2>4, <2>5, WorkerCases
<1>7. CASE UsbdReset
  <2>1. ep' = AllDisabled /\ Drops /\ UNCHANGED <<lineState, main, running>>
    BY <1>7 DEF UsbdReset, Message
  <2>2. ep'["out"].on <=> ep'["in"].on
    BY <1>0, <2>1, DisabledMoves, KindsDiffer
  <2> QED
    BY <2>1, <2>2, DropKeeps
<1>8. CASE UsbdConfig
  <2>1. /\ ep' = [d \in Dirs |-> Enabled(AllDisabled[d], DescMps(speed))]
        /\ Drops /\ UNCHANGED <<lineState, main, running>>
    BY <1>8 DEF UsbdConfig, Message
  <2>2. ep'["out"].on <=> ep'["in"].on
    BY <1>0, <2>1, ConfigMoves, KindsDiffer
  <2> QED
    BY <2>1, <2>2, DropKeeps
<1>9. ASSUME NEW r \in Requests, UsbdLineState(r) PROVE KeptInv'
  <2>1. /\ Message("ctrl", r) /\ UNCHANGED <<ep, main, running, dropped>>
        /\ lineState' = lineState \/ ep["out"].on
    BY <1>9 DEF UsbdLineState, Message, ghosts
  <2>2. PICK m : m = [kind |-> "ctrl", arg |-> r] /\ m \in Msgs \ Dones
    BY MessageKinds
  <2>3. ToSet(msgs) = ToSet(msgs') \cup {m}
    BY <2>1, <2>2, MessageMoves
  <2>4. Dones \cap ToSet(msgs) # {} => Dones \cap ToSet(msgs') # {}
    BY <2>2, <2>3
  <2> QED
    BY <2>1, <2>4 DEF KeptInv
<1>10. ASSUME NEW a \in Dirs, NEW d \in Dirs, NEW n \in 0 .. MaxLen,
              Message("done", a), ep' = Enqueue(d, ep, n), UNCHANGED <<main, lineState, dropped>>
       PROVE  KeptInv'
  <2>1. [kind |-> "done", arg |-> a] \in ToSet(msgs)
    BY <1>10, MessageMoves
  <2>2. main = "sleep" /\ running' = running
    BY <1>0, <1>10, <2>1, MessageKinds DEF Message
  <2>3. \A c \in Dirs : ep'[c].on = ep[c].on /\ (ep[d].on => ep'[d].held)
    BY <1>0, <1>10, EnqueueMoves, LengthsAreNat
  <2>4. dropped \/ ep[d].on
    BY <1>0, <2>2, KindsDiffer
  <2>5. ep'["out"].on = ep["out"].on /\ ep'["in"].on = ep["in"].on
    BY <2>3, KindsDiffer
  <2> QED
    BY <1>0, <1>10, <2>2, <2>3, <2>4, <2>5 DEF KeptInv
<1>11. CASE ReadCallback
  BY <1>10, <1>11, WriteIsEnqueue, KindsDiffer DEF ReadCallback, ghosts
<1>12. CASE WriteCallback
  BY <1>10, <1>12, ReadIsEnqueue, KindsDiffer DEF WriteCallback, ghosts
<1>13. ASSUME NEW r \in Requests, HostRequest(r) PROVE KeptInv'
  BY <1>1, <1>13 DEF HostRequest, HwCtrl, echoVars, ghosts
<1>14. ASSUME NEW d \in Dirs, NEW n \in Nat, HwComplete(d, n), UNCHANGED <<main, lineState, dropped>>
       PROVE  KeptInv'
  <2>1. UNCHANGED <<msgs, running>>
    BY <1>14 DEF HwComplete
  <2>2. \A c \in Dirs : ep'[c].on = ep[c].on /\ ep'[c].held = ep[c].held
    BY <1>0, <1>14, CompleteMoves
  <2> QED
    BY <1>14, <2>1, <2>2, KeptFrame
<1>15. ASSUME NEW short \in BOOLEAN, HostSends(short) PROVE KeptInv'
  <2>1. /\ (\E n \in 0 .. MaxLen : HwComplete("out", n)) \/ UNCHANGED dwcVars
        /\ UNCHANGED <<main, lineState, dropped>>
    BY <1>15, SendCases, SendCompletes
  <2> QED
    BY <1>1, <1>14, <2>1, KindsDiffer, LengthsAreNat DEF dwcVars
<1>16. CASE HostReads
  BY <1>14, <1>16, KindsDiffer DEF HostReads, echoVars, ghosts
<1>17. CASE HostResets \/ HostConnects
  BY <1>1, <1>17 DEF HostResets, HostConnects, HwReset, HwConnect, BusMoves, echoVars, ghosts
<1> QED
  BY <1>2, <1>3, <1>4, <1>5, <1>6, <1>7, <1>8, <1>9, <1>11, <1>12, <1>13, <1>15, <1>16, <1>17,
     StepCases

-----------------------------------------------------------------------------
(* The buffer has room *)

LEMMA GotFrame ==
    ASSUME GotInv, UNCHANGED <<got, size>>, ep \in [Dirs -> Endpoints], size \in Nat,
           \A d \in Dirs : /\ ep'[d].on => ep[d].on /\ ep'[d].mps = ep[d].mps
                           /\ ep'[d].owned => ep[d].owned
                           /\ ep'[d].left \in {0, ep[d].left}
    PROVE  GotInv'
<1>1. /\ \A d \in Dirs : ep[d].on => ep[d].mps \in Sizes
      /\ ep["out"].owned => got < size
      /\ ep["out"].left <= size
  BY DEF GotInv
<1>2. /\ ep'["out"].owned => ep["out"].owned
      /\ ep'["out"].left \in {0, ep["out"].left}
  BY KindsDiffer
<1>3. ep'["out"].left <= size'
  BY <1>1, <1>2
<1> QED
  BY <1>1, <1>2, <1>3 DEF GotInv

\* A read starts with an empty buffer.
LEMMA ReadKeepsGot ==
    ASSUME RestTypes, GotInv, ep \in [Dirs -> Endpoints], CdcRawRead
    PROVE  GotInv'
<1>0. PICK n \in 0 .. MaxLen : n = size' /\ ep' = Enqueue("out", ep, n)
  BY ReadIsEnqueue
<1>1. CASE ep["out"].on
  <2>1. /\ \A c \in Dirs : ep'[c].on = ep[c].on /\ ep'[c].mps = ep[c].mps
        /\ got' = 0 /\ ep'["out"].left = n /\ size' = BufPackets[ep["out"].mps]
    BY <1>0, <1>1, EnqueueMoves, LengthsAreNat, KindsDiffer DEF CdcRawRead
  <2>2. ep["out"].mps \in Sizes /\ \A c \in Dirs : ep'[c].on => ep'[c].mps \in Sizes
    BY <1>1, <2>1, KindsDiffer DEF GotInv
  <2>3. BufPackets[ep["out"].mps] \in 1 .. MaxLen
    BY <2>2, SizesOfBuffer
  <2>4. got' < size' /\ ep'["out"].left <= size'
    BY <1>0, <2>1, <2>3, SizesOfBuffer
  <2> QED
    BY <2>2, <2>4 DEF GotInv
<1>2. CASE ~ep["out"].on
  <2>1. ep' = ep /\ got' = got /\ size' = size
    BY <1>0, <1>2, EnqueueMoves, LengthsAreNat, KindsDiffer DEF CdcRawRead
  <2> QED
    BY <2>1 DEF GotInv
<1> QED
  BY <1>1, <1>2

LEMMA GotKept ==
    ASSUME QueueTypes, RestTypes, StartInv, RingInv, RoomInv, OneInv, GotInv, [Next]_vars
    PROVE  GotInv'
<1>0. /\ ep \in [Dirs -> Endpoints] /\ speed \in Speeds
      /\ got \in Nat /\ size \in Nat /\ MaxLen \in Nat
  BY SizesOfBuffer DEF QueueTypes, RestTypes, AppTypes
<1>1. ASSUME UNCHANGED <<got, size, ep>> PROVE GotInv'
  BY <1>1 DEF GotInv
<1>2. CASE UNCHANGED vars
  BY <1>1, <1>2 DEF vars, dwcVars, echoVars
<1>3. CASE AppUsbInit \/ UsbFails \/ UsbdInit \/ UsbdEnable
  BY <1>1, <1>3 DEF AppUsbInit, UsbFails, UsbdInit, ApiInit, UsbdEnable, ApiEnable, Goto, dwcVars
<1>4. CASE FirstRead
  BY <1>0, <1>4, ReadKeepsGot DEF FirstRead
<1>5. CASE Worker
  <2>0. UNCHANGED <<main, got, size>>
    BY <1>5, WorkerCases
  <2>1. CASE OnUsbReset \/ OnConnectDone \/ (\E r \in Requests : OnCtrl(r))
    BY <1>1, <2>0, <2>1 DEF OnUsbReset, OnConnectDone, OnCtrl
  <2>2. ASSUME NEW d \in Dirs, OnXferDone(d) PROVE GotInv'
    <3>1. \A c \in Dirs : /\ ep'[c].on = ep[c].on /\ ep'[c].mps = ep[c].mps
                          /\ ep'[c].left = ep[c].left /\ (ep'[c].owned => ep[c].owned)
      BY <2>0, <2>2, DoneKeeps
    <3> QED
      BY <1>0, <2>0, <3>1, GotFrame
  <2> QED
    BY <1>5, <2>1, <2>2, WorkerCases
<1>6. CASE UsbdReset
  BY <1>0, <1>6, GotFrame, DisabledMoves DEF UsbdReset
<1>7. CASE UsbdConfig
  <2>1. /\ \A c \in Dirs : ep'[c].on => ep'[c].mps = DescMps(speed)
        /\ ep'["out"].owned => ep["out"].owned
        /\ ep'["out"].left \in {0, ep["out"].left}
        /\ UNCHANGED <<got, size>>
    BY <1>0, <1>7, ConfigMoves, KindsDiffer DEF UsbdConfig
  <2>2. DescMps(speed) \in Sizes
    BY <1>0, DescMpsIs
  <2>3. ep'["out"].left <= size'
    BY <1>0, <2>1 DEF GotInv
  <2> QED
    BY <2>1, <2>2, <2>3 DEF GotInv
<1>8. ASSUME NEW r \in Requests, UsbdLineState(r) PROVE GotInv'
  BY <1>1, <1>8 DEF UsbdLineState
<1>9. CASE ReadCallback
  <2>1. PICK n \in 0 .. MaxLen : ep' = Enqueue("in", ep, n) /\ got' = got /\ size' = size
    BY <1>9, WriteIsEnqueue DEF ReadCallback, CdcRawWrite
  <2>2. PICK m \in Nat : m = n
    BY LengthsAreNat
  <2>3. \A c \in Dirs : /\ Enqueue("in", ep, m)[c].on = ep[c].on
                        /\ Enqueue("in", ep, m)[c].mps = ep[c].mps
                        /\ c # "in" => Enqueue("in", ep, m)[c] = ep[c]
    BY <1>0, EnqueueMoves, KindsDiffer
  <2>4. /\ \A c \in Dirs : ep'[c].on = ep[c].on /\ ep'[c].mps = ep[c].mps
        /\ ep'["out"] = ep["out"]
    BY <2>1, <2>2, <2>3, KindsDiffer
  <2> QED
    BY <2>1, <2>4 DEF GotInv
<1>10. CASE WriteCallback
  BY <1>0, <1>10, ReadKeepsGot DEF WriteCallback
<1>11. ASSUME NEW r \in Requests, HostRequest(r) PROVE GotInv'
  BY <1>1, <1>11 DEF HostRequest, HwCtrl, echoVars
<1>12. ASSUME NEW short \in BOOLEAN, HostSends(short) PROVE GotInv'
  <2>0. got' = got + 1 /\ size' = size /\ ep["out"].owned
    BY <1>12, SendCases DEF Armed
  <2>1. ASSUME NEW n \in 0 .. MaxLen, n = size - got', HwComplete("out", n) PROVE GotInv'
    <3>1. /\ ~ep'["out"].owned /\ ep'["out"].left = n
          /\ \A c \in Dirs : ep'[c].on = ep[c].on /\ ep'[c].mps = ep[c].mps
      BY <1>0, <2>1, CompleteMoves, LengthsAreNat, KindsDiffer
    <3>2. n <= size
      BY <1>0, <2>0, <2>1
    <3> QED
      BY <2>0, <3>1, <3>2 DEF GotInv
  <2>2. CASE UNCHANGED dwcVars /\ got' # size
    <3>1. ep' = ep
      BY <2>2 DEF dwcVars
    <3>2. got' < size'
      BY <1>0, <2>0, <2>2 DEF GotInv
    <3> QED
      BY <2>0, <3>1, <3>2 DEF GotInv
  <2> QED
    BY <1>12, <2>1, <2>2, SendCompletes
<1>13. CASE HostReads
  <2>1. HwComplete("in", 0) /\ UNCHANGED <<got, size>>
    BY <1>13 DEF HostReads, echoVars
  <2>2. /\ \A c \in Dirs : ep'[c].on = ep[c].on /\ ep'[c].mps = ep[c].mps
        /\ ep'["out"] = ep["out"]
    BY <1>0, <2>1, CompleteMoves, KindsDiffer
  <2> QED
    BY <2>1, <2>2 DEF GotInv
<1>14. CASE HostResets \/ HostConnects
  BY <1>1, <1>14 DEF HostResets, HostConnects, HwReset, HwConnect, BusMoves, echoVars
<1> QED
  BY <1>2, <1>3, <1>4, <1>5, <1>6, <1>7, <1>8, <1>9, <1>10, <1>11, <1>12, <1>13, <1>14, StepCases

-----------------------------------------------------------------------------
(* The other types *)

LEMMA PartOfMem ==
    ASSUME RestTypes
    PROVE  /\ SubSeq(mem, 1, len) \in Seq(Packets) /\ Len(SubSeq(mem, 1, len)) = len
           /\ \A i \in 1 .. len : SubSeq(mem, 1, len)[i] = mem[i]
<1>1. MaxLen \in Nat /\ len \in 0 .. MaxLen /\ mem \in [1 .. MaxLen -> Packets]
  BY SizesOfBuffer DEF RestTypes, AppTypes
<1>2. mem \in Seq(Packets) /\ Len(mem) = MaxLen
  <2>1. mem \in Seq(Packets)
    BY <1>1, IsASeq
  <2>2. DOMAIN mem = 1 .. MaxLen /\ DOMAIN mem = 1 .. Len(mem) /\ Len(mem) \in Nat
    BY <1>1, <2>1, LenProperties
  <2> QED
    BY <1>1, <2>1, <2>2
<1> QED
  BY <1>1, <1>2, SubSeqProperties

LEMMA DriverKept ==
    ASSUME DriverTypes, [Next]_vars
    PROVE  DriverTypes'
<1>1. ASSUME UNCHANGED <<initialized, running, failed, link, dsts, mps0>> PROVE DriverTypes'
  BY <1>1 DEF DriverTypes
<1>2. CASE UNCHANGED vars
  BY <1>1, <1>2 DEF vars, dwcVars
<1>3. CASE AppUsbInit \/ UsbFails \/ FirstRead
  BY <1>1, <1>3 DEF AppUsbInit, UsbFails, FirstRead, dwcVars
<1>4. CASE UsbdInit
  BY <1>4 DEF UsbdInit, ApiInit, DriverTypes
<1>5. CASE UsbdEnable
  BY <1>5 DEF UsbdEnable, ApiEnable, DriverTypes
<1>6. CASE Worker
  <2>1. CASE OnConnectDone
    BY <2>1 DEF OnConnectDone, Mps0, DriverTypes
  <2>2. CASE OnUsbReset \/ (\E r \in Requests : OnCtrl(r))
    BY <1>1, <2>2 DEF OnUsbReset, OnCtrl
  <2>3. ASSUME NEW d \in Dirs, OnXferDone(d) PROVE DriverTypes'
    <3>1. UNCHANGED <<initialized, running, link, dsts, mps0>>
      BY <2>3 DEF OnXferDone
    <3>2. CASE ep[d].held
      BY <1>1, <2>3, <3>1, <3>2 DEF OnXferDone
    <3>3. CASE ~ep[d].held
      <4>1. failed' = TRUE
        BY <2>3, <3>3 DEF OnXferDone
      <4>2. failed' \in BOOLEAN
        BY <4>1
      <4> QED
        BY <3>1, <4>2 DEF DriverTypes
    <3> QED
      BY <3>2, <3>3
  <2> QED
    BY <1>6, <2>1, <2>2, <2>3, WorkerCases
<1>7. CASE UsbdReset \/ UsbdConfig \/ (\E r \in Requests : UsbdLineState(r))
           \/ ReadCallback \/ WriteCallback
  BY <1>1, <1>7 DEF UsbdReset, UsbdConfig, UsbdLineState, ReadCallback, WriteCallback, Message
<1>8. CASE (\E r \in Requests : HostRequest(r)) \/ HostReads
  BY <1>1, <1>8 DEF HostRequest, HwCtrl, HostReads, HwComplete
<1>9. CASE \E short \in BOOLEAN : HostSends(short)
  <2>1. (\E n : HwComplete("out", n)) \/ UNCHANGED dwcVars
    BY <1>9, SendCases
  <2> QED
    BY <1>1, <2>1 DEF HwComplete, dwcVars
<1>10. CASE HostResets \/ HostConnects
  BY <1>10 DEF HostResets, HostConnects, HwReset, HwConnect, DriverTypes
<1> QED
  BY <1>2, <1>3, <1>4, <1>5, <1>6, <1>7, <1>8, <1>9, <1>10, StepCases

LEMMA AppKept ==
    ASSUME QueueTypes, RestTypes, GotInv, [Next]_vars
    PROVE  AppTypes'
<1>0. /\ MaxLen \in Nat /\ MaxPackets \in Nat /\ dsts \in Speeds /\ sent \in 0 .. MaxPackets
      /\ got \in 0 .. MaxLen /\ size \in 0 .. MaxLen /\ len \in 0 .. MaxLen
      /\ mem \in [1 .. MaxLen -> Packets]
      /\ AppTypes
  BY BoundAssumption, SizesOfBuffer DEF RestTypes, DriverTypes, AppTypes, HostTypes
<1>1. ASSUME main' \in Mains, UNCHANGED <<speed, early, lineState, mem, len, size, got, ghosts>>
      PROVE  AppTypes'
  BY <1>0, <1>1 DEF AppTypes, ghosts
<1>2. CASE UNCHANGED vars
  BY <1>0, <1>1, <1>2 DEF vars, echoVars, AppTypes
<1>3. CASE AppUsbInit \/ UsbFails \/ UsbdInit \/ UsbdEnable
  BY <1>1, <1>3 DEF AppUsbInit, UsbFails, UsbdInit, UsbdEnable, Goto, Mains
<1>4. ASSUME CdcRawRead, main' \in Mains, UNCHANGED <<speed, early, lineState, mem, len, ghosts>>
      PROVE  AppTypes'
  <2>1. size' \in 0 .. MaxLen
    BY <1>4, ReadIsEnqueue
  <2>2. got' \in 0 .. MaxLen
    BY <1>0, <1>4 DEF CdcRawRead
  <2> QED
    BY <1>0, <1>4, <2>1, <2>2 DEF AppTypes, ghosts
<1>5. CASE FirstRead
  <2>1. main' \in Mains
    BY <1>5 DEF FirstRead, Mains
  <2> QED
    BY <1>4, <1>5, <2>1 DEF FirstRead
<1>6. CASE Worker
  <2>1. /\ len' \in {len, size - ep["out"].left}
        /\ UNCHANGED <<main, speed, early, lineState, mem, size, got, dropped, spoiled>>
    BY <1>6, WorkerCases
  <2>2. ep["out"].left \in Nat /\ ep["out"].left <= size
    BY KindsDiffer DEF QueueTypes, Endpoints, GotInv
  <2>3. size - ep["out"].left \in 0 .. MaxLen
    BY <1>0, <2>2
  <2> QED
    BY <1>0, <2>1, <2>3 DEF AppTypes
<1>7. CASE UsbdReset \/ UsbdConfig
  <2>1. /\ speed' \in {speed, dsts} /\ early' \in BOOLEAN \cup {early} /\ dropped' \in BOOLEAN
        /\ UNCHANGED <<main, lineState, mem, len, size, got>>
    BY <1>7 DEF UsbdReset, UsbdConfig, Drops, DeviceSpeed
  <2>2. spoiled' \in BOOLEAN \cup {spoiled}
    BY <1>7 DEF UsbdReset, UsbdConfig
  <2> QED
    BY <1>0, <2>1, <2>2 DEF AppTypes
<1>8. ASSUME NEW r \in Requests, UsbdLineState(r) PROVE AppTypes'
  <2>1. /\ lineState' = (IF ep["out"].on THEN r = "open" ELSE lineState)
        /\ UNCHANGED <<main, speed, early, mem, len, size, got, ghosts>>
    BY <1>8 DEF UsbdLineState
  <2>2. lineState' \in BOOLEAN
    <3>1. lineState \in BOOLEAN
      BY <1>0 DEF AppTypes
    <3>2. lineState' = (r = "open") \/ lineState' = lineState
      BY <2>1, Zenon
    <3> QED
      BY <3>1, <3>2
  <2> QED
    BY <1>0, <2>1, <2>2 DEF AppTypes, ghosts
<1>9. CASE ReadCallback
  <2>1. mem' = Uppercase /\ UNCHANGED <<main, speed, early, lineState, len, size, got, ghosts>>
    BY <1>9 DEF ReadCallback, CdcRawWrite
  <2>2. \A p \in Packets : [p EXCEPT !.upper = TRUE] \in Packets
    BY DEF Packets
  <2>3. Uppercase \in [1 .. MaxLen -> Packets]
    BY <1>0, <2>2 DEF Uppercase
  <2> QED
    BY <1>0, <2>1, <2>3 DEF AppTypes, ghosts
<1>10. CASE WriteCallback
  <2>1. main' \in Mains
    BY <1>0, <1>10 DEF WriteCallback, AppTypes
  <2> QED
    BY <1>4, <1>10, <2>1 DEF WriteCallback
<1>11. ASSUME NEW short \in BOOLEAN, HostSends(short) PROVE AppTypes'
  <2>1. ep["out"].owned /\ got' = got + 1
    BY <1>11, SendCases DEF Armed
  <2>2. got < size
    BY <2>1 DEF GotInv
  <2>3. got' \in 1 .. MaxLen /\ got' \in 0 .. MaxLen
    BY <1>0, <2>1, <2>2
  <2>4. /\ sent < MaxPackets /\ sent' = sent + 1
        /\ mem' = [mem EXCEPT ![got'] = [n |-> sent', upper |-> FALSE]]
        /\ UNCHANGED <<main, speed, early, lineState, len, size, ghosts>>
    BY <1>11 DEF HostSends
  <2>5. [n |-> sent', upper |-> FALSE] \in Packets
    BY <1>0, <2>4 DEF Packets
  <2>6. mem' \in [1 .. MaxLen -> Packets]
    BY <1>0, <2>3, <2>4, <2>5
  <2> QED
    BY <1>0, <2>3, <2>4, <2>6 DEF AppTypes, ghosts
<1>12. CASE (\E r \in Requests : HostRequest(r)) \/ HostReads \/ HostResets \/ HostConnects
  <2>1. UNCHANGED <<echoVars, ghosts>>
    BY <1>12 DEF HostRequest, HostReads, HostResets, HostConnects, BusMoves
  <2> QED
    BY <1>0, <2>1 DEF echoVars, AppTypes, ghosts
<1> QED
  BY <1>2, <1>3, <1>5, <1>6, <1>7, <1>8, <1>9, <1>10, <1>11, <1>12, StepCases

LEMMA HostKept ==
    ASSUME RestTypes, [Next]_vars
    PROVE  HostTypes'
<1>0. /\ MaxPackets \in Nat /\ MaxRequests \in Nat /\ MaxBus \in Nat
      /\ HostTypes /\ sent \in 0 .. MaxPackets /\ received \in Seq(Packets)
  BY BoundAssumption DEF RestTypes, HostTypes
<1>1. ASSUME UNCHANGED hostVars PROVE HostTypes'
  BY <1>0, <1>1 DEF HostTypes, hostVars
<1>2. CASE UNCHANGED vars
  BY <1>1, <1>2 DEF vars
<1>3. CASE AppUsbInit \/ UsbFails \/ UsbdInit \/ UsbdEnable \/ FirstRead
  BY <1>1, <1>3 DEF AppUsbInit, UsbFails, UsbdInit, UsbdEnable, FirstRead, Goto
<1>4. CASE Worker
  BY <1>1, <1>4, WorkerCases
<1>5. CASE UsbdReset \/ ReadCallback \/ WriteCallback
  BY <1>1, <1>5 DEF UsbdReset, ReadCallback, WriteCallback
<1>6. CASE UsbdConfig \/ (\E r \in Requests : UsbdLineState(r))
  <2>1. \E r : Answer(r)
    BY <1>6 DEF UsbdConfig, UsbdLineState
  <2>2. /\ hostReq' = NoReq /\ hostConf' \in BOOLEAN
        /\ UNCHANGED <<requests, sent, received, bus>>
    BY <2>1 DEF Answer
  <2> QED
    BY <1>0, <2>2 DEF HostTypes
<1>7. ASSUME NEW r \in Requests, HostRequest(r) PROVE HostTypes'
  <2>1. /\ requests < MaxRequests /\ hostReq' = r /\ requests' = requests + 1
        /\ UNCHANGED <<hostConf, sent, received, bus>>
    BY <1>7 DEF HostRequest
  <2> QED
    BY <1>0, <2>1 DEF HostTypes
<1>8. ASSUME NEW short \in BOOLEAN, HostSends(short) PROVE HostTypes'
  <2>1. /\ sent < MaxPackets /\ sent' = sent + 1
        /\ UNCHANGED <<hostConf, hostReq, requests, received, bus>>
    BY <1>8 DEF HostSends
  <2> QED
    BY <1>0, <2>1 DEF HostTypes
<1>9. CASE HostReads
  <2>1. received' = received \o SubSeq(mem, 1, len)
        /\ UNCHANGED <<hostConf, hostReq, requests, sent, bus>>
    BY <1>9 DEF HostReads
  <2>2. received' \in Seq(Packets)
    <3>1. \A q, r \in Seq(Packets) : q \o r \in Seq(Packets)
      BY ConcatProperties
    <3> QED
      BY <1>0, <2>1, <3>1, PartOfMem
  <2> QED
    BY <1>0, <2>1, <2>2 DEF HostTypes
<1>10. CASE HostResets \/ HostConnects
  <2>1. /\ bus < MaxBus /\ bus' = bus + 1 /\ UNCHANGED <<requests, sent, received>>
        /\ hostConf' \in {FALSE, hostConf} /\ hostReq' \in {NoReq, hostReq}
    BY <1>10 DEF HostResets, HostConnects, BusMoves
  <2>2. bus' \in 0 .. MaxBus
    BY <1>0, <2>1 DEF HostTypes
  <2>3. hostConf' \in BOOLEAN /\ hostReq' \in Requests \cup {NoReq}
    BY <1>0, <2>1 DEF HostTypes
  <2> QED
    BY <1>0, <2>1, <2>2, <2>3 DEF HostTypes
<1> QED
  BY <1>2, <1>3, <1>4, <1>5, <1>6, <1>7, <1>8, <1>9, <1>10, StepCases

LEMMA RestKept ==
    ASSUME QueueTypes, RestTypes, GotInv, [Next]_vars
    PROVE  RestTypes'
BY DriverKept, AppKept, HostKept DEF RestTypes

-----------------------------------------------------------------------------
(* Theorems *)

EchoInv == QueueTypes /\ RestTypes /\ StartInv /\ RingInv /\ RoomInv /\ OneInv /\ KeptInv /\ GotInv

LEMMA InitQueues == Init => QueueTypes /\ RoomInv /\ RingInv /\ StartInv
<1> SUFFICES ASSUME Init PROVE QueueTypes /\ RoomInv /\ RingInv /\ StartInv
  OBVIOUS
<1>1. /\ raised = <<>> /\ msgs = <<>> /\ evtNext = 0 /\ evtCount = 0 /\ hwNext = 0
      /\ evtBuf = [n \in 0 .. EventsNum - 1 |-> NoEvent]
      /\ ~running /\ ~failed /\ ~initialized /\ main = "setup"
      /\ ep = [d \in Dirs |-> [on |-> FALSE, at |-> 0, held |-> FALSE, owned |-> FALSE,
                               left |-> 0, hw |-> 0, mps |-> NoSize]]
  BY DEF Init, DwcInit
<1>2. Len(raised) = 0 /\ EventsNum \in Nat /\ EventsNum >= 4
  BY <1>1, EmptyQueue, EventsNumAssumption
<1>3. QueueTypes
  <2>1. 0 \in Slots
    BY TrbNumAssumption DEF Slots
  <2>2. ep \in [Dirs -> Endpoints]
    BY <1>1, <2>1 DEF Endpoints, NoSize
  <2>3. <<>> \in Seq(EventKinds) /\ <<>> \in Seq(Msgs)
    OBVIOUS
  <2> QED
    BY <1>1, <2>2, <2>3 DEF QueueTypes
<1>4. RoomInv
  BY <1>1, <1>2 DEF RoomInv, AtMostOne
<1>5. RingInv
  <2>1. PICK x \in 0 .. 2 * EventsNum - 1 : x = 0
    BY <1>2
  <2>2. x % EventsNum = 0
    BY <1>2, <2>1, ModSmall
  <2>3. hwNext = (evtNext + Len(raised)) % EventsNum
    BY <1>1, <1>2, <2>1, <2>2
  <2> QED
    BY <1>1, <1>2, <2>3 DEF RingInv, EventsInOrder
<1>6. StartInv
  BY <1>1 DEF StartInv
<1> QED
  BY <1>3, <1>4, <1>5, <1>6

LEMMA InitBuffer == Init => RestTypes /\ OneInv /\ KeptInv /\ GotInv
<1> SUFFICES ASSUME Init PROVE RestTypes /\ OneInv /\ KeptInv /\ GotInv
  OBVIOUS
<1>1. /\ raised = <<>> /\ msgs = <<>> /\ main = "setup" /\ ~running
      /\ \A d \in Dirs : ~ep[d].on /\ ~ep[d].held /\ ~ep[d].owned /\ ep[d].left = 0
      /\ ~lineState /\ size = MaxLen
  BY DEF Init, DwcInit
<1>2. /\ ToSet(raised) = {} /\ ToSet(msgs) = {} /\ AtMostOne(msgs, Dones)
  BY <1>1, EmptyQueue
<1>3. /\ ~ep["out"].on /\ ~ep["in"].on /\ ~ep["out"].held /\ ~ep["out"].owned
      /\ ep["out"].left <= size
  BY <1>1, KindsDiffer, SizesOfBuffer
<1>4. OneInv
  BY <1>1, <1>2, <1>3 DEF OneInv
<1>5. KeptInv /\ GotInv
  BY <1>1, <1>3 DEF KeptInv, GotInv
<1>6. DriverTypes
  BY DEF Init, DwcInit, DriverTypes, Speeds
<1>7. AppTypes
  <2>1. MaxLen \in Nat /\ Blank \in Packets
    BY SizesOfBuffer, BoundAssumption DEF Blank, Packets
  <2>2. mem \in [1 .. MaxLen -> Packets]
    BY <2>1 DEF Init
  <2>3. /\ main = "setup" /\ speed = "fs" /\ early = FALSE /\ lineState = FALSE
        /\ len = MaxLen /\ size = MaxLen /\ got = 0 /\ dropped = FALSE /\ spoiled = FALSE
    BY DEF Init
  <2>4. len \in 0 .. MaxLen /\ size \in 0 .. MaxLen /\ got \in 0 .. MaxLen
    BY <2>1, <2>3
  <2> QED
    BY <2>2, <2>3, <2>4 DEF AppTypes, Speeds, Mains
<1>8. HostTypes
  <2>1. /\ hostConf = FALSE /\ hostReq = NoReq /\ requests = 0
        /\ sent = 0 /\ received = <<>> /\ bus = 0
    BY DEF Init
  <2>2. received \in Seq(Packets)
    BY <2>1
  <2>3. requests \in 0 .. MaxRequests /\ sent \in 0 .. MaxPackets /\ bus \in 0 .. MaxBus
    BY <2>1, BoundAssumption
  <2> QED
    BY <2>1, <2>2, <2>3 DEF HostTypes
<1> QED
  BY <1>4, <1>5, <1>6, <1>7, <1>8 DEF RestTypes

LEMMA EchoAlways == Spec => []EchoInv
<1>1. Init => EchoInv
  BY InitQueues, InitBuffer DEF EchoInv
<1>2. EchoInv /\ [Next]_vars => EchoInv'
  BY StartKept, RingKept, RoomKept, QueueKept, OneKept, KeptKept, GotKept, RestKept DEF EchoInv
<1> QED
  BY <1>1, <1>2, PTL DEF Spec

\* Every variable of the driver, the class, the firmware and the host keeps its type.
THEOREM EchoTypeCorrect == Spec => []TypeOK
<1>1. EchoInv => TypeOK
  <2> SUFFICES ASSUME EchoInv PROVE TypeOK
    OBVIOUS
  <2>1. evtCount = Len(raised) /\ Len(raised) <= EventsNum /\ Len(raised) \in Nat
    BY DEF EchoInv, RingInv, EventsInOrder, QueueTypes
  <2>2. evtCount \in 0 .. EventsNum
    BY <2>1, EventsNumAssumption
  <2>3. ep \in [Dirs -> Endpoints]
    BY DEF EchoInv, QueueTypes
  <2>4. /\ evtNext \in 0 .. EventsNum - 1 /\ hwNext \in 0 .. EventsNum - 1
        /\ evtBuf \in [0 .. EventsNum - 1 -> EventKinds \cup {NoEvent}]
    BY DEF EchoInv, RingInv
  <2> QED
    BY <2>2, <2>3, <2>4 DEF EchoInv, RestTypes, DriverTypes, AppTypes, HostTypes, TypeOK
<1> QED
  BY <1>1, EchoAlways, PTL

\* dwc3_process_all_events() meets each event that the controller raised once, in
\* order: neither the driver nor the controller overtakes the other in the ring.
THEOREM EventsReadInOrder == Spec => []EventsInOrder
<1>1. EchoInv => EventsInOrder
  BY DEF EchoInv, RingInv
<1> QED
  BY <1>1, EchoAlways, PTL

\* No assertion on the way of an event fails, through resets and configurations.
THEOREM NoEchoAssertionFails == Spec => []AssertionsHold
<1>1. EchoInv => AssertionsHold
  BY DEF EchoInv, StartInv, AssertionsHold
<1> QED
  BY <1>1, EchoAlways, PTL

\* The firmware's buffer is in one place, or lost with a configuration that ended
\* or by a start that failed.
THEOREM OneBufferAlways == Spec => []BufferInOnePlace
<1>1. EchoInv => BufferInOnePlace
  <2> SUFFICES ASSUME EchoInv PROVE BufferInOnePlace
    OBVIOUS
  <2> DEFINE Used == \E m \in ToSet(msgs) : m.kind = "done"
  <2>1. Used <=> Dones \cap ToSet(msgs) # {}
    <3>1. ToSet(msgs) \subseteq Msgs
      BY ToSetIs DEF EchoInv, QueueTypes
    <3> QED
      BY <3>1, MessageKinds
  <2>2. /\ Used => main = "sleep" /\ \A d \in Dirs : ~ep[d].held
        /\ main # "sleep" => \A d \in Dirs : ~ep[d].held
        /\ ~(ep["out"].held /\ ep["in"].held)
    BY <2>1 DEF EchoInv, OneInv
  <2>3. \A x : x \in Places <=> \/ (x = "main" /\ main \in {"setup", "init", "enable", "wait"})
                                \/ (x \in Dirs /\ ep[x].held)
                                \/ (x = "usbd" /\ Used)
    BY DEF Places
  <2>4. \E x : Places \subseteq {x}
    <3>1. CASE Used
      BY <2>2, <2>3, <3>1
    <3>2. CASE ~Used /\ main # "sleep"
      BY <2>2, <2>3, <3>2
    <3>3. CASE ~Used /\ main = "sleep"
      <4>1. CASE ep["out"].held
        BY <2>2, <2>3, <3>3, <4>1, KindsDiffer
      <4>2. CASE ~ep["out"].held
        BY <2>3, <3>3, <4>2, KindsDiffer
      <4> QED
        BY <4>1, <4>2
    <3> QED
      BY <3>1, <3>2, <3>3
  <2>5. Cardinality(Places) <= 1
    <3>1. PICK x : Places \subseteq {x}
      BY <2>4
    <3>2. CASE Places = {}
      BY <3>2, FS_EmptySet
    <3>3. CASE Places # {}
      <4>1. Places = {x}
        BY <3>1, <3>3
      <4>2. Cardinality(Places) = 1
        BY <4>1, FS_Singleton, Zenon
      <4> QED
        BY <4>2
    <3> QED
      BY <3>2, <3>3
  <2>6. ASSUME Places = {} PROVE dropped \/ (main = "error" /\ ~running)
    <3>1. main \in {"sleep", "error"}
      <4>1. main \in Mains
        BY DEF EchoInv, RestTypes, AppTypes
      <4> QED
        BY <2>3, <2>6, <4>1 DEF Mains
    <3>2. ~Used /\ \A d \in Dirs : ~ep[d].held
      BY <2>3, <2>6
    <3>3. main = "sleep" => dropped \/ Dones \cap ToSet(msgs) # {} \/ \E d \in Dirs : ep[d].held
      BY DEF EchoInv, KeptInv
    <3>4. main = "error" => dropped \/ ~running
      BY DEF EchoInv, KeptInv
    <3> QED
      BY <2>1, <3>1, <3>2, <3>3, <3>4
  <2> QED
    BY <2>5, <2>6 DEF BufferInOnePlace
<1> QED
  BY <1>1, EchoAlways, PTL
=============================================================================
