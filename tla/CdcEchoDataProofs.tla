-------------------------- MODULE CdcEchoDataProofs --------------------------
(***************************************************************************)
(* CdcEcho for every size, continued: the packet sizes that the            *)
(* controller, the class and the host have, and the data that comes back.  *)
(***************************************************************************)
EXTENDS CdcEchoProofs

-----------------------------------------------------------------------------
(* Sizes *)

\* A bus reset that usbd has not heard of.
Resets  == {m \in Msgs : m.kind = "reset"}
Pending == "reset" \in ToSet(raised) \/ Resets \cap ToSet(msgs) # {}

\* Once the bus is up, a connection comes behind each reset, and EP0 has the
\* size of the bus when both are processed.
OrderInv ==
    link = "up" => \A i \in 1 .. Len(raised) :
        raised[i] = "reset" => \E j \in 1 .. Len(raised) : i < j /\ raised[j] = "connect"

Ep0Inv ==
    /\ ~running => link = "down"
    /\ link = "up" /\ BusEvents \cap ToSet(raised) = {} => mps0 = Ep0Size[dsts]

\* usbd has the speed of the bus unless a reset is on its way to it, or it
\* asked too early, and so have the endpoints that it enabled.
SpeedInv ==
    /\ link = "reset" => Pending \/ early
    /\ link = "up" /\ ~Pending /\ ~early
       => speed = dsts /\ \A d \in Dirs : ep[d].on => ep[d].mps = BulkSize[dsts]

SizeInv == OrderInv /\ Ep0Inv /\ SpeedInv

\* What a step may do to the bus.
LinkStep ==
    \/ UNCHANGED <<link, dsts, raised>>
    \/ \E e \in Dirs \cup Requests : Raise(e) /\ UNCHANGED <<link, dsts>>
    \/ \E e : Take(e) /\ UNCHANGED <<link, dsts>>
    \/ Raise("reset") /\ link' = "reset" /\ running /\ UNCHANGED dsts
    \/ Raise("connect") /\ link = "reset" /\ link' = "up" /\ running

LEMMA LinkMoves ==
    ASSUME [Next]_vars
    PROVE  LinkStep
<1> USE DEF LinkStep
<1>1. CASE UNCHANGED vars
  BY <1>1 DEF vars, dwcVars, events
<1>2. CASE AppUsbInit \/ UsbFails
  BY <1>2 DEF AppUsbInit, UsbFails, dwcVars, events
<1>3. CASE UsbdInit \/ UsbdEnable \/ FirstRead
  BY <1>3 DEF UsbdInit, ApiInit, SoftReset, UsbdEnable, ApiEnable, FirstRead, events
<1>4. CASE Worker
  BY <1>4, WorkerCases DEF OnUsbReset, OnConnectDone, OnCtrl, OnXferDone
<1>5. CASE UsbdReset \/ UsbdConfig \/ (\E r \in Requests : UsbdLineState(r))
           \/ ReadCallback \/ WriteCallback
  BY <1>5 DEF UsbdReset, UsbdConfig, UsbdLineState, ReadCallback, WriteCallback, Message, events
<1>6. CASE \E r \in Requests : HostRequest(r)
  BY <1>6 DEF HostRequest, HwCtrl
<1>7. CASE \E short \in BOOLEAN : HostSends(short)
  <2>1. (\E n : HwComplete("out", n)) \/ UNCHANGED dwcVars
    BY <1>7, SendCases
  <2> QED
    BY <2>1, KindsDiffer DEF HwComplete, dwcVars, events
<1>8. CASE HostReads
  BY <1>8, KindsDiffer DEF HostReads, HwComplete
<1>9. CASE HostResets \/ HostConnects
  BY <1>9 DEF HostResets, HostConnects, HwReset, HwConnect
<1> QED
  BY <1>1, <1>2, <1>3, <1>4, <1>5, <1>6, <1>7, <1>8, <1>9, StepCases

LEMMA OrderKept ==
    ASSUME QueueTypes, RingInv, OrderInv, [Next]_vars
    PROVE  OrderInv'
<1>1. CASE UNCHANGED <<link, dsts, raised>>
  BY <1>1 DEF OrderInv
<1>2. ASSUME NEW e \in EventKinds, Raise(e)
      PROVE  /\ Len(raised') = Len(raised) + 1 /\ Len(raised) \in Nat
             /\ \A i \in 1 .. Len(raised) : raised'[i] = raised[i]
             /\ raised'[Len(raised) + 1] = e
  <2>1. raised \in Seq(EventKinds) /\ raised' = Append(raised, e)
    BY <1>2 DEF QueueTypes, Raise
  <2> QED
    BY <2>1, AppendQueue
<1>3. ASSUME NEW e \in Dirs \cup Requests, Raise(e), link' = link PROVE OrderInv'
  <2>1. e \in EventKinds /\ e # "reset"
    BY KindsDiffer
  <2> SUFFICES ASSUME link = "up", NEW i \in 1 .. Len(raised'), raised'[i] = "reset"
               PROVE  \E j \in 1 .. Len(raised') : i < j /\ raised'[j] = "connect"
    BY <1>3 DEF OrderInv
  <2>2. i \in 1 .. Len(raised) /\ raised[i] = "reset"
    BY <1>2, <1>3, <2>1
  <2>3. PICK j \in 1 .. Len(raised) : i < j /\ raised[j] = "connect"
    BY <2>2 DEF OrderInv
  <2> QED
    BY <1>2, <1>3, <2>1, <2>3
<1>4. CASE Raise("connect")
  <2> SUFFICES ASSUME NEW i \in 1 .. Len(raised'), raised'[i] = "reset"
               PROVE  \E j \in 1 .. Len(raised') : i < j /\ raised'[j] = "connect"
    BY DEF OrderInv
  <2>1. /\ Len(raised') = Len(raised) + 1 /\ Len(raised) \in Nat
        /\ raised'[Len(raised) + 1] = "connect"
    BY <1>2, <1>4, KindsDiffer
  <2>2. i < Len(raised) + 1
    BY <2>1
  <2> QED
    BY <2>1, <2>2
<1>5. ASSUME NEW e, Take(e), link' = link PROVE OrderInv'
  <2> SUFFICES ASSUME link = "up", NEW i \in 1 .. Len(raised'), raised'[i] = "reset"
               PROVE  \E j \in 1 .. Len(raised') : i < j /\ raised'[j] = "connect"
    BY <1>5 DEF OrderInv
  <2>1. raised # <<>> /\ raised' = Tail(raised) /\ raised \in Seq(EventKinds)
    BY <1>5, RingTake DEF QueueTypes
  <2>2. /\ Len(raised') = Len(raised) - 1 /\ Len(raised) \in Nat \ {0}
        /\ \A k \in 1 .. Len(raised) - 1 : raised'[k] = raised[k + 1]
    BY <2>1, TailQueue
  <2>3. i + 1 \in 1 .. Len(raised) /\ raised[i + 1] = "reset"
    BY <2>2
  <2>4. PICK j \in 1 .. Len(raised) : i + 1 < j /\ raised[j] = "connect"
    BY <2>3 DEF OrderInv
  <2>5. j - 1 \in 1 .. Len(raised) - 1 /\ (j - 1) + 1 = j /\ i < j - 1
    BY <2>2, <2>4
  <2>6. raised'[j - 1] = "connect"
    BY <2>2, <2>4, <2>5
  <2> QED
    BY <2>2, <2>5, <2>6
<1>6. CASE link' = "reset"
  BY <1>6 DEF OrderInv
<1> QED
  BY <1>1, <1>3, <1>4, <1>5, <1>6, LinkMoves DEF LinkStep

\* A bus event that is not the last one of a bus that is up leaves another.
LEMMA ResetBeforeConnect ==
    ASSUME QueueTypes, RingInv, OrderInv, link = "up", Take("reset")
    PROVE  "connect" \in ToSet(raised')
<1>1. raised # <<>> /\ "reset" = Head(raised) /\ raised' = Tail(raised) /\ raised \in Seq(EventKinds)
  BY RingTake DEF QueueTypes
<1>2. /\ raised' \in Seq(EventKinds) /\ Len(raised') = Len(raised) - 1 /\ Len(raised) \in Nat \ {0}
      /\ raised[1] = "reset"
      /\ \A k \in 1 .. Len(raised) - 1 : raised'[k] = raised[k + 1]
  BY <1>1, TailQueue
<1>3. PICK j \in 1 .. Len(raised) : 1 < j /\ raised[j] = "connect"
  BY <1>2 DEF OrderInv
<1>4. j - 1 \in 1 .. Len(raised') /\ j - 1 \in 1 .. Len(raised) - 1 /\ (j - 1) + 1 = j
  BY <1>2, <1>3
<1>5. raised'[j - 1] = "connect"
  BY <1>2, <1>3, <1>4
<1> QED
  BY <1>2, <1>4, <1>5, ToSetIs

LEMMA Mps0Is == \A s \in Speeds : Mps0(s) = Ep0Size[s]
BY DEF Speeds, Mps0, Ep0Size

LEMMA Ep0Frame ==
    ASSUME Ep0Inv, UNCHANGED <<link, dsts, mps0>>, running => running',
           BusEvents \cap ToSet(raised) \subseteq ToSet(raised')
    PROVE  Ep0Inv'
<1>1. BusEvents \cap ToSet(raised') = {} => BusEvents \cap ToSet(raised) = {}
  OBVIOUS
<1> QED
  BY <1>1 DEF Ep0Inv

LEMMA Ep0Kept ==
    ASSUME QueueTypes, RestTypes, StartInv, RingInv, OrderInv, Ep0Inv, [Next]_vars
    PROVE  Ep0Inv'
<1>0. dsts \in Speeds /\ "reset" \in BusEvents /\ "connect" \in BusEvents
  BY KindsDiffer DEF RestTypes, DriverTypes
<1>1. ASSUME UNCHANGED <<link, dsts, mps0, running, raised>> PROVE Ep0Inv'
  BY <1>1, Ep0Frame
<1>2. CASE UNCHANGED vars
  BY <1>1, <1>2 DEF vars, dwcVars, events
<1>3. CASE AppUsbInit \/ UsbFails \/ FirstRead
  BY <1>1, <1>3 DEF AppUsbInit, UsbFails, FirstRead, dwcVars, events
<1>4. CASE UsbdInit \/ UsbdEnable
  <2>1. link = "down"
    BY <1>4 DEF UsbdInit, UsbdEnable, StartInv, Ep0Inv
  <2>2. link' = link
    BY <1>4 DEF UsbdInit, UsbdEnable, ApiInit, ApiEnable
  <2> QED
    BY <2>1, <2>2 DEF Ep0Inv
<1>5. CASE OnUsbReset
  <2>1. Take("reset") /\ UNCHANGED <<link, running>>
    BY <1>5 DEF OnUsbReset
  <2>2. link = "up" => "connect" \in ToSet(raised')
    BY <2>1, ResetBeforeConnect
  <2> QED
    BY <1>0, <2>1, <2>2 DEF Ep0Inv
<1>6. CASE OnConnectDone
  <2>1. mps0' = Mps0(dsts) /\ UNCHANGED <<link, running, dsts>>
    BY <1>6 DEF OnConnectDone
  <2>2. Mps0(dsts) = Ep0Size[dsts]
    BY <1>0, Mps0Is
  <2> QED
    BY <2>1, <2>2 DEF Ep0Inv
<1>7. ASSUME NEW e \in Dirs \cup Requests, Take(e), UNCHANGED <<link, dsts, mps0, running>>
      PROVE  Ep0Inv'
  <2>1. ToSet(raised) = ToSet(raised') \cup {e}
    BY <1>7, TakenWaits
  <2>2. BusEvents \cap ToSet(raised) \subseteq ToSet(raised')
    BY <2>1, KindsDiffer
  <2> QED
    BY <1>7, <2>2, Ep0Frame
<1>8. CASE Worker
  <2>1. CASE \E r \in Requests : OnCtrl(r)
    BY <1>7, <2>1 DEF OnCtrl
  <2>2. CASE \E d \in Dirs : OnXferDone(d)
    BY <1>7, <2>2 DEF OnXferDone
  <2> QED
    BY <1>5, <1>6, <1>8, <2>1, <2>2, WorkerCases
<1>9. CASE UsbdReset \/ UsbdConfig \/ (\E r \in Requests : UsbdLineState(r))
           \/ ReadCallback \/ WriteCallback
  BY <1>1, <1>9 DEF UsbdReset, UsbdConfig, UsbdLineState, ReadCallback, WriteCallback, Message, events
<1>10. ASSUME NEW e \in EventKinds, Raise(e), UNCHANGED <<link, dsts, mps0, running>> PROVE Ep0Inv'
  <2>1. ToSet(raised) \subseteq ToSet(raised')
    BY <1>10, RaiseMoves
  <2> QED
    BY <1>10, <2>1, Ep0Frame
<1>11. CASE \E r \in Requests : HostRequest(r)
  BY <1>10, <1>11, KindsDiffer DEF HostRequest, HwCtrl
<1>12. CASE \E d \in Dirs : \E n : HwComplete(d, n)
  BY <1>10, <1>12, KindsDiffer DEF HwComplete
<1>13. CASE \E short \in BOOLEAN : HostSends(short)
  <2>1. (\E n : HwComplete("out", n)) \/ UNCHANGED dwcVars
    BY <1>13, SendCases
  <2> QED
    BY <1>1, <1>12, <2>1, KindsDiffer DEF dwcVars, events
<1>14. CASE HostReads
  BY <1>12, <1>14, KindsDiffer DEF HostReads
<1>15. CASE HostResets
  BY <1>15 DEF HostResets, HwReset, Ep0Inv
<1>16. CASE HostConnects
  <2>1. running /\ running' = running /\ Raise("connect")
    BY <1>16 DEF HostConnects, HwConnect
  <2>2. "connect" \in ToSet(raised')
    BY <1>0, <2>1, RaiseMoves, KindsDiffer
  <2> QED
    BY <1>0, <2>1, <2>2 DEF Ep0Inv
<1> QED
  BY <1>2, <1>3, <1>4, <1>8, <1>9, <1>11, <1>13, <1>14, <1>15, <1>16, StepCases

LEMMA ResetKinds ==
    /\ \A m : m \in Resets <=> m \in Msgs /\ m.kind = "reset"
    /\ [kind |-> "reset", arg |-> "none"] \in Resets
    /\ \A k, a : k # "reset" => [kind |-> k, arg |-> a] \notin Resets
BY DEF Msgs, Resets

LEMMA DescMpsOfSpeed == \A s \in Speeds : DescMps(s) = BulkSize[s]
BY DEF Speeds, DescMps, BulkSize

LEMMA SpeedFrame ==
    ASSUME SpeedInv, UNCHANGED <<link, dsts, speed, early>>, Pending => Pending',
           \A d \in Dirs : ep'[d].on => ep[d].on /\ ep'[d].mps = ep[d].mps
    PROVE  SpeedInv'
<1>1. link = "up" /\ ~Pending /\ ~early => speed = dsts /\ \A d \in Dirs : ep[d].on => ep[d].mps = BulkSize[dsts]
  BY DEF SpeedInv
<1>2. link = "up" /\ ~Pending' /\ ~early => speed = dsts /\ \A d \in Dirs : ep'[d].on => ep'[d].mps = BulkSize[dsts]
  BY <1>1
<1> QED
  BY <1>2 DEF SpeedInv

LEMMA SpeedKept ==
    ASSUME QueueTypes, RestTypes, StartInv, RingInv, RoomInv, OneInv, GotInv, SpeedInv,
           [Next]_vars
    PROVE  SpeedInv'
<1>0. /\ ep \in [Dirs -> Endpoints] /\ speed \in Speeds /\ dsts \in Speeds
      /\ link \in {"down", "reset", "up"}
  BY DEF QueueTypes, RestTypes, DriverTypes, AppTypes
<1>1. ASSUME UNCHANGED <<link, dsts, speed, early, raised, msgs>>,
             \A d \in Dirs : ep'[d].on = ep[d].on /\ ep'[d].mps = ep[d].mps
      PROVE  SpeedInv'
  <2>1. Pending => Pending'
    BY <1>1 DEF Pending
  <2> QED
    BY <1>1, <2>1, SpeedFrame
<1>2. CASE UNCHANGED vars
  BY <1>1, <1>2 DEF vars, dwcVars, events, echoVars
<1>3. CASE AppUsbInit \/ UsbFails
  BY <1>1, <1>3 DEF AppUsbInit, UsbFails, Goto, dwcVars, events
<1>4. CASE UsbdInit \/ UsbdEnable
  BY <1>1, <1>4 DEF UsbdInit, ApiInit, SoftReset, UsbdEnable, ApiEnable, Goto, events
<1>5. ASSUME NEW d \in Dirs, NEW n \in 0 .. MaxLen, ep' = Enqueue(d, ep, n)
      PROVE  \A c \in Dirs : ep'[c].on = ep[c].on /\ ep'[c].mps = ep[c].mps
  BY <1>0, <1>5, EnqueueMoves, LengthsAreNat
<1>6. CASE FirstRead
  <2>1. CdcRawRead /\ UNCHANGED <<link, dsts, speed, early, raised, msgs>>
    BY <1>6 DEF FirstRead, events
  <2>2. \A c \in Dirs : ep'[c].on = ep[c].on /\ ep'[c].mps = ep[c].mps
    BY <1>5, <2>1, ReadIsEnqueue, KindsDiffer
  <2> QED
    BY <1>1, <2>1, <2>2
<1>7. ASSUME NEW e, Take(e), e # "reset", UNCHANGED <<link, dsts, speed, early>>,
             ToSet(msgs) \subseteq ToSet(msgs'),
             \A d \in Dirs : ep'[d].on = ep[d].on /\ ep'[d].mps = ep[d].mps
      PROVE  SpeedInv'
  <2>1. ToSet(raised) = ToSet(raised') \cup {e}
    BY <1>7, TakenWaits
  <2>2. Pending => Pending'
    BY <1>7, <2>1 DEF Pending
  <2> QED
    BY <1>7, <2>2, SpeedFrame
<1>8. CASE Worker
  <2>0. UNCHANGED <<main, speed, early>>
    BY <1>8, WorkerCases
  <2>1. CASE OnUsbReset
    <3>1. PICK m \in Resets : m = [kind |-> "reset", arg |-> "none"]
      BY ResetKinds
    <3>2. Submit(m) /\ m \in Msgs /\ UNCHANGED <<link, dsts, ep>>
      BY <2>1, <3>1, ResetKinds DEF OnUsbReset
    <3>3. Pending'
      BY <3>2, SubmitMoves DEF Pending
    <3> QED
      BY <3>3 DEF SpeedInv
  <2>2. CASE OnConnectDone
    BY <1>7, <2>0, <2>2 DEF OnConnectDone
  <2>3. ASSUME NEW r \in Requests, OnCtrl(r) PROVE SpeedInv'
    <3>1. PICK m \in Msgs : m = [kind |-> "ctrl", arg |-> r]
      BY MessageKinds
    <3>2. Take(r) /\ Submit(m) /\ UNCHANGED <<link, dsts, ep>>
      BY <2>3, <3>1 DEF OnCtrl
    <3>3. ToSet(msgs) \subseteq ToSet(msgs')
      BY <3>2, SubmitMoves
    <3> QED
      BY <1>7, <2>0, <3>2, <3>3, KindsDiffer
  <2>4. ASSUME NEW d \in Dirs, OnXferDone(d) PROVE SpeedInv'
    <3>1. Take(d) /\ UNCHANGED <<link, dsts>>
          /\ (ep[d].held => Submit([kind |-> "done", arg |-> d]))
          /\ (~ep[d].held => msgs' = msgs)
      BY <2>4 DEF OnXferDone
    <3>2. \A c \in Dirs : ep'[c].on = ep[c].on /\ ep'[c].mps = ep[c].mps
      BY <2>0, <2>4, DoneKeeps
    <3>3. PICK m \in Msgs : m = [kind |-> "done", arg |-> d]
      BY MessageKinds
    <3>4. ToSet(msgs) \subseteq ToSet(msgs')
      BY <3>1, <3>3, SubmitMoves
    <3> QED
      BY <1>7, <2>0, <3>1, <3>2, <3>4, KindsDiffer
  <2> QED
    BY <1>8, <2>1, <2>2, <2>3, <2>4, WorkerCases
<1>9. CASE UsbdReset
  <2>1. /\ ep' = AllDisabled /\ speed' = dsts /\ early' = (link # "up")
        /\ UNCHANGED <<link, dsts>>
    BY <1>9 DEF UsbdReset, DeviceSpeed, Message
  <2>2. \A c \in Dirs : ~ep'[c].on
    BY <1>0, <2>1, DisabledMoves
  <2>3. link = "reset" => early'
    BY <2>1
  <2> QED
    BY <2>1, <2>2, <2>3 DEF SpeedInv
<1>10. ASSUME NEW k, NEW a, Message(k, a), k # "reset"
       PROVE  /\ Pending => Pending'
              /\ UNCHANGED <<link, dsts>>
  <2>1. raised' = raised /\ UNCHANGED <<link, dsts>>
    BY <1>10 DEF Message, events
  <2>2. PICK m : m = [kind |-> k, arg |-> a]
    OBVIOUS
  <2>3. ToSet(msgs) = ToSet(msgs') \cup {m}
    BY <1>10, <2>2, MessageMoves
  <2>4. m \notin Resets
    BY <1>10, <2>2, ResetKinds
  <2>5. Resets \cap ToSet(msgs) \subseteq ToSet(msgs')
    BY <2>3, <2>4
  <2> QED
    BY <2>1, <2>5 DEF Pending
<1>11. CASE UsbdConfig
  <2>1. /\ Message("ctrl", "config") /\ UNCHANGED <<speed, early>>
        /\ ep' = [d \in Dirs |-> Enabled(AllDisabled[d], DescMps(speed))]
    BY <1>11 DEF UsbdConfig
  <2>2. (Pending => Pending') /\ UNCHANGED <<link, dsts>>
    BY <1>10, <2>1
  <2>3. \A c \in Dirs : ep'[c].on => ep'[c].mps = DescMps(speed)
    BY <1>0, <2>1, ConfigMoves
  <2>4. DescMps(speed) = BulkSize[speed]
    BY <1>0, DescMpsOfSpeed
  <2>5. \A c \in Dirs : ep'[c].on => ep'[c].mps = BulkSize[speed]
    BY <2>3, <2>4
  <2> QED
    BY <2>1, <2>2, <2>5 DEF SpeedInv
<1>12. CASE (\E r \in Requests : UsbdLineState(r)) \/ ReadCallback \/ WriteCallback
  <2>1. /\ \E k, a : Message(k, a) /\ k # "reset"
        /\ UNCHANGED <<speed, early>>
        /\ ep' = ep \/ CdcRawWrite \/ CdcRawRead
    BY <1>12 DEF UsbdLineState, ReadCallback, WriteCallback
  <2>2. (Pending => Pending') /\ UNCHANGED <<link, dsts>>
    BY <1>10, <2>1
  <2>3. \A c \in Dirs : ep'[c].on = ep[c].on /\ ep'[c].mps = ep[c].mps
    BY <1>5, <2>1, ReadIsEnqueue, WriteIsEnqueue, KindsDiffer
  <2> QED
    BY <2>1, <2>2, <2>3, SpeedFrame
<1>13. ASSUME NEW e \in EventKinds, Raise(e), msgs' = msgs PROVE Pending => Pending'
  BY <1>13, RaiseMoves DEF Pending
<1>14. ASSUME NEW r \in Requests, HostRequest(r) PROVE SpeedInv'
  <2>1. Raise(r) /\ UNCHANGED <<link, dsts, speed, early, msgs, ep>>
    BY <1>14 DEF HostRequest, HwCtrl, echoVars
  <2> QED
    BY <1>13, <2>1, SpeedFrame, KindsDiffer
<1>15. ASSUME NEW d \in Dirs, NEW n \in Nat, HwComplete(d, n), UNCHANGED <<speed, early>>
       PROVE  SpeedInv'
  <2>1. Raise(d) /\ UNCHANGED <<link, dsts, msgs>>
    BY <1>15 DEF HwComplete
  <2>2. \A c \in Dirs : ep'[c].on = ep[c].on /\ ep'[c].mps = ep[c].mps
    BY <1>0, <1>15, CompleteMoves
  <2>3. Pending => Pending'
    BY <1>13, <2>1, KindsDiffer
  <2> QED
    BY <1>15, <2>1, <2>2, <2>3, SpeedFrame
<1>16. ASSUME NEW short \in BOOLEAN, HostSends(short) PROVE SpeedInv'
  <2>1. /\ (\E n \in 0 .. MaxLen : HwComplete("out", n)) \/ UNCHANGED dwcVars
        /\ UNCHANGED <<speed, early>>
    BY <1>16, SendCases, SendCompletes
  <2> QED
    BY <1>1, <1>15, <2>1, KindsDiffer, LengthsAreNat DEF dwcVars, events
<1>17. CASE HostReads
  BY <1>15, <1>17, KindsDiffer DEF HostReads, echoVars
<1>18. CASE HostResets
  <2>1. Raise("reset") /\ link' = "reset"
    BY <1>18 DEF HostResets, HwReset
  <2>2. Pending'
    BY <2>1, RaiseMoves, KindsDiffer DEF Pending
  <2> QED
    BY <2>1, <2>2 DEF SpeedInv
<1>19. CASE HostConnects
  <2>1. /\ Raise("connect") /\ link = "reset" /\ link' = "up"
        /\ UNCHANGED <<msgs, early>>
    BY <1>19 DEF HostConnects, HwConnect, BusMoves, echoVars
  <2>2. Pending \/ early
    BY <2>1 DEF SpeedInv
  <2>3. Pending => Pending'
    BY <1>13, <2>1, KindsDiffer
  <2> QED
    BY <2>1, <2>2, <2>3 DEF SpeedInv
<1> QED
  BY <1>2, <1>3, <1>4, <1>6, <1>8, <1>9, <1>11, <1>12, <1>14, <1>16, <1>17, <1>18, <1>19, StepCases

LEMMA SizeAlways == Spec => []SizeInv
<1>1. Init => SizeInv
  <2> SUFFICES ASSUME Init PROVE SizeInv
    OBVIOUS
  <2>1. link = "down"
    BY DEF Init, DwcInit
  <2> QED
    BY <2>1 DEF SizeInv, OrderInv, Ep0Inv, SpeedInv
<1>2. EchoInv /\ SizeInv /\ [Next]_vars => SizeInv'
  BY OrderKept, Ep0Kept, SpeedKept DEF EchoInv, SizeInv
<1> QED
  BY <1>1, <1>2, EchoAlways, PTL DEF Spec

\* Once the events of a connection are processed, dwc3_on_connect_done() and the class
\* have given EP0 and the bulk endpoints the packet sizes of the bus, whatever the
\* order of resets, connections and configurations, unless usbd read the speed too early.
THEOREM SizesAgreeAlways == Spec => []SizesAgree
<1>1. SizeInv => SizesAgree
  <2> SUFFICES ASSUME SizeInv, link = "up", {"reset", "connect"} \cap ToSet(raised) = {},
                      \A m \in ToSet(msgs) : m.kind # "reset"
               PROVE  /\ mps0 = Ep0Size[dsts]
                      /\ early \/ \A d \in Dirs : ep[d].on => ep[d].mps = BulkSize[dsts]
    BY DEF SizesAgree
  <2>1. ~Pending
    BY ResetKinds DEF Pending
  <2>2. BusEvents \cap ToSet(raised) = {}
    BY DEF BusEvents
  <2> QED
    BY <2>1, <2>2 DEF SizeInv, Ep0Inv, SpeedInv
<1> QED
  BY <1>1, SizeAlways, PTL

-----------------------------------------------------------------------------
(* Data *)

DoneWith(d) == [kind |-> "done", arg |-> d] \in ToSet(msgs)

\* The first k packets of the buffer are the next ones of the stream.
Filled(k, up) == \A i \in 1 .. k : mem[i] = [n |-> Len(received) + i, upper |-> up]

\* What the buffer holds depends on where it is: what the host sent since the
\* last echo, as it came or in uppercase, or nothing that was not echoed.  While the
\* event of a read waits, its TRB tells how much that is.
InOrder == /\ Len(received) <= sent
           /\ \A i \in 1 .. Len(received) : received[i] = [n |-> i, upper |-> TRUE]

DataInv ==
    /\ InOrder
    /\ "out" \in ToSet(raised) => size - ep["out"].left = got
    /\ ep["out"].owned \/ "out" \in ToSet(raised)
       => sent = Len(received) + got /\ Filled(got, FALSE)
    /\ DoneWith("out") => sent = Len(received) + len /\ Filled(len, FALSE)
    /\ ep["in"].owned => sent = Len(received) + len /\ Filled(len, TRUE)
    /\ "in" \in ToSet(raised) \/ DoneWith("in") \/ main # "sleep" => sent = Len(received)

LEMMA DoneKinds ==
    ASSUME NEW d \in Dirs, DoneWith(d)
    PROVE  Dones \cap ToSet(msgs) # {}
BY MessageKinds DEF DoneWith

\* Where an endpoint has the buffer, nobody else has it.
LEMMA HeldAlone ==
    ASSUME OneInv, NEW d \in Dirs, ep[d].held
    PROVE  /\ main = "sleep" /\ Dones \cap ToSet(msgs) = {}
           /\ \A c \in Dirs : c # d => ~ep[c].owned /\ c \notin ToSet(raised)
<1>1. main = "sleep" /\ Dones \cap ToSet(msgs) = {}
  BY DEF OneInv
<1>2. ~(ep["out"].held /\ ep["in"].held)
  BY DEF OneInv
<1>3. \A c \in Dirs : c # d => ~ep[c].held
  BY <1>2, KindsDiffer
<1>4. \A c \in Dirs : c # d => ~ep[c].owned /\ c \notin ToSet(raised)
  BY <1>3 DEF OneInv
<1> QED
  BY <1>1, <1>4

\* Where usbd has it, no endpoint has.
LEMMA UsbdAlone ==
    ASSUME OneInv, \A c \in Dirs : ~ep[c].held
    PROVE  \A c \in Dirs : ~ep[c].owned /\ c \notin ToSet(raised)
BY DEF OneInv

LEMMA DataTypes ==
    ASSUME RestTypes
    PROVE  /\ Len(received) \in Nat /\ received \in Seq(Packets) /\ sent \in Nat
           /\ got \in Nat /\ len \in Nat /\ size \in Nat /\ MaxLen \in Nat /\ len <= MaxLen /\ got <= MaxLen
           /\ mem \in [1 .. MaxLen -> Packets]
<1>1. /\ received \in Seq(Packets) /\ sent \in 0 .. MaxPackets
      /\ got \in 0 .. MaxLen /\ len \in 0 .. MaxLen /\ size \in 0 .. MaxLen
      /\ mem \in [1 .. MaxLen -> Packets]
  BY DEF RestTypes, HostTypes, AppTypes
<1> QED
  BY <1>1, SizesOfBuffer, BoundAssumption

\* Steps that leave the data where it is.
LEMMA DataFrame ==
    ASSUME DataInv, UNCHANGED <<received, sent, mem, size, got, len>>,
           main' # "sleep" => main # "sleep",
           \A d \in Dirs : ep'[d].owned => ep[d].owned,
           "out" \in ToSet(raised') => ep'["out"].left = ep["out"].left,
           Dirs \cap ToSet(raised') \subseteq ToSet(raised),
           Dones \cap ToSet(msgs') \subseteq ToSet(msgs)
    PROVE  DataInv'
<1>1. ep'["out"].owned => ep["out"].owned
  BY KindsDiffer
<1>2. ep'["in"].owned => ep["in"].owned
  BY KindsDiffer
<1>3. /\ "out" \in ToSet(raised') => "out" \in ToSet(raised)
      /\ "in" \in ToSet(raised') => "in" \in ToSet(raised)
  BY KindsDiffer
<1>4. /\ DoneWith("out")' => DoneWith("out")
      /\ DoneWith("in")' => DoneWith("in")
  BY MessageKinds, KindsDiffer DEF DoneWith
<1>5. InOrder'
  BY DEF DataInv, InOrder
<1>6. \A k, up : Filled(k, up) => \A i \in 1 .. k : mem'[i] = [n |-> Len(received') + i, upper |-> up]
  BY DEF Filled
<1>7. (ep["out"].owned \/ "out" \in ToSet(raised) => sent = Len(received) + got /\ Filled(got, FALSE))
      => (ep'["out"].owned \/ "out" \in ToSet(raised') => sent' = Len(received') + got' /\ Filled(got, FALSE)')
  BY <1>1, <1>3, <1>6 DEF Filled
<1>8. (DoneWith("out") => sent = Len(received) + len /\ Filled(len, FALSE))
      => (DoneWith("out")' => sent' = Len(received') + len' /\ Filled(len, FALSE)')
  BY <1>4, <1>6 DEF Filled
<1>9. (ep["in"].owned => sent = Len(received) + len /\ Filled(len, TRUE))
      => (ep'["in"].owned => sent' = Len(received') + len' /\ Filled(len, TRUE)')
  BY <1>2, <1>6 DEF Filled
<1>10. ("in" \in ToSet(raised) \/ DoneWith("in") \/ main # "sleep" => sent = Len(received))
       => ("in" \in ToSet(raised') \/ DoneWith("in")' \/ main' # "sleep" => sent' = Len(received'))
  BY <1>3, <1>4
<1>11. ("out" \in ToSet(raised) => size - ep["out"].left = got)
       => ("out" \in ToSet(raised') => size' - ep'["out"].left = got')
  BY <1>3
<1> QED
  BY <1>5, <1>7, <1>8, <1>9, <1>10, <1>11 DEF DataInv

\* The buffer, of which all was echoed, is read into.
LEMMA ReadAgain ==
    ASSUME RestTypes, OneInv, GotInv, DataInv, ep \in [Dirs -> Endpoints], CdcRawRead,
           \A c \in Dirs : ~ep[c].held, sent = Len(received),
           UNCHANGED <<received, sent, raised>>, Dones \cap ToSet(msgs') = {}
    PROVE  DataInv'
<1>1. \A c \in Dirs : ~ep[c].owned /\ c \notin ToSet(raised)
  BY UsbdAlone
<1>2. ep["out"].on => got' = 0
  BY DEF CdcRawRead
<1>3. ep'["in"] = ep["in"] /\ (~ep["out"].on => ep' = ep)
  <2>1. PICK n \in Nat : ep' = Enqueue("out", ep, n)
    BY ReadIsEnqueue, LengthsAreNat
  <2>2. /\ \A c \in Dirs : c # "out" => Enqueue("out", ep, n)[c] = ep[c]
        /\ ~ep["out"].on => Enqueue("out", ep, n) = ep
    BY EnqueueMoves, KindsDiffer
  <2> QED
    BY <2>1, <2>2, KindsDiffer
<1>4. ~ep'["in"].owned
  BY <1>1, <1>3, KindsDiffer
<1>5. ep'["out"].owned => got' = 0
  BY <1>1, <1>2, <1>3, KindsDiffer
<1>6. ~DoneWith("out")' /\ ~DoneWith("in")'
  BY MessageKinds, KindsDiffer DEF DoneWith
<1>7. "out" \notin ToSet(raised') /\ "in" \notin ToSet(raised')
  BY <1>1, KindsDiffer
<1>8. InOrder'
  BY DEF DataInv, InOrder
<1>9. got' = 0 => sent' = Len(received') + got' /\ Filled(got, FALSE)'
  BY DataTypes DEF Filled
<1> QED
  BY <1>4, <1>5, <1>6, <1>7, <1>8, <1>9 DEF DataInv

\* A transfer from the host is over: what its TRB says was received is the
\* buffer's length.
LEMMA OutDone ==
    ASSUME QueueTypes, RestTypes, RingInv, RoomInv, OneInv, DataInv,
           OnXferDone("out"), len' = size - ep["out"].left,
           UNCHANGED <<main, mem, got, received, sent>>
    PROVE  DataInv'
<1>1. "out" \in ToSet(raised) /\ ep["out"].held /\ ~ep["out"].owned /\ Dirs \cap ToSet(raised') = {}
  <2>1. Take("out")
    BY DEF OnXferDone
  <2>2. "out" \in ToSet(raised) /\ \A S : AtMostOne(raised, S) /\ "out" \in S => S \cap ToSet(raised') = {}
    BY <2>1, TakenWaits
  <2> QED
    BY <2>2, KindsDiffer DEF RoomInv, OneInv
<1>2. main = "sleep" /\ Dones \cap ToSet(msgs) = {} /\ ~ep["in"].owned
  BY <1>1, HeldAlone, KindsDiffer
<1>3. ~ep'["out"].owned /\ ~ep'["in"].owned
  BY <1>1, <1>2, DoneKeeps, KindsDiffer
<1>4. PICK m \in Dones : m = [kind |-> "done", arg |-> "out"]
  BY MessageKinds, KindsDiffer
<1>5. ToSet(msgs') = ToSet(msgs) \cup {m}
  <2>1. Submit(m) /\ m \in Msgs
    BY <1>1, <1>4, MessageKinds DEF OnXferDone
  <2> QED
    BY <2>1, SubmitMoves
<1>6. ~DoneWith("in")'
  <2>1. [kind |-> "done", arg |-> "in"] \in Dones /\ [kind |-> "done", arg |-> "in"] # m
    BY <1>4, MessageKinds, KindsDiffer
  <2> QED
    BY <1>2, <1>5, <2>1 DEF DoneWith
<1>7. sent = Len(received) + got /\ Filled(got, FALSE) /\ len' = got
  BY <1>1 DEF DataInv
<1>8. sent' = Len(received') + len' /\ Filled(len, FALSE)'
  BY <1>7 DEF Filled
<1>9. InOrder'
  BY DEF DataInv, InOrder
<1>10. "out" \notin ToSet(raised') /\ "in" \notin ToSet(raised')
  BY <1>1, KindsDiffer
<1> QED
  BY <1>2, <1>3, <1>6, <1>8, <1>9, <1>10 DEF DataInv

\* A transfer to the host is over.
LEMMA InDone ==
    ASSUME QueueTypes, RestTypes, RingInv, RoomInv, OneInv, DataInv,
           OnXferDone("in"), UNCHANGED <<main, mem, received, sent>>
    PROVE  DataInv'
<1>1. "in" \in ToSet(raised) /\ ep["in"].held /\ ~ep["in"].owned /\ Dirs \cap ToSet(raised') = {}
  <2>1. Take("in")
    BY DEF OnXferDone
  <2>2. "in" \in ToSet(raised) /\ \A S : AtMostOne(raised, S) /\ "in" \in S => S \cap ToSet(raised') = {}
    BY <2>1, TakenWaits
  <2> QED
    BY <2>2, KindsDiffer DEF RoomInv, OneInv
<1>2. main = "sleep" /\ Dones \cap ToSet(msgs) = {} /\ ~ep["out"].owned
  BY <1>1, HeldAlone, KindsDiffer
<1>3. ~ep'["out"].owned /\ ~ep'["in"].owned
  BY <1>1, <1>2, DoneKeeps, KindsDiffer
<1>4. PICK m \in Dones : m = [kind |-> "done", arg |-> "in"]
  BY MessageKinds, KindsDiffer
<1>5. ToSet(msgs') = ToSet(msgs) \cup {m}
  <2>1. Submit(m) /\ m \in Msgs
    BY <1>1, <1>4, MessageKinds DEF OnXferDone
  <2> QED
    BY <2>1, SubmitMoves
<1>6. ~DoneWith("out")'
  <2>1. [kind |-> "done", arg |-> "out"] \in Dones /\ [kind |-> "done", arg |-> "out"] # m
    BY <1>4, MessageKinds, KindsDiffer
  <2> QED
    BY <1>2, <1>5, <2>1 DEF DoneWith
<1>7. sent' = Len(received')
  BY <1>1 DEF DataInv
<1>8. InOrder'
  BY DEF DataInv, InOrder
<1>9. "out" \notin ToSet(raised')
  BY <1>1, KindsDiffer
<1> QED
  BY <1>3, <1>6, <1>7, <1>8, <1>9 DEF DataInv

\* The host reads the next packets of the stream.
LEMMA ReadsKeep ==
    ASSUME QueueTypes, RestTypes, OneInv, DataInv, HostReads
    PROVE  DataInv'
<1>1. /\ HwComplete("in", 0) /\ ep["in"].owned /\ ep["in"].held /\ Raise("in") /\ msgs' = msgs
      /\ received' = received \o SubSeq(mem, 1, len)
      /\ ep \in [Dirs -> Endpoints]
      /\ UNCHANGED <<main, mem, got, len, sent>>
  BY DEF HostReads, HwComplete, Armed, echoVars, QueueTypes
<1>2. main = "sleep" /\ Dones \cap ToSet(msgs) = {} /\ ~ep["out"].owned /\ "out" \notin ToSet(raised)
  BY <1>1, HeldAlone, KindsDiffer
<1>3. ~ep'["in"].owned /\ ~ep'["out"].owned
  BY <1>1, <1>2, CompleteMoves, KindsDiffer
<1>4. "out" \notin ToSet(raised')
  BY <1>1, <1>2, RaiseMoves, KindsDiffer
<1>5. ~DoneWith("out")'
  BY <1>1, <1>2, MessageKinds, KindsDiffer DEF DoneWith
<1>6. sent = Len(received) + len /\ Filled(len, TRUE)
  BY <1>1 DEF DataInv
<1>7. PICK q \in Seq(Packets) : /\ q = SubSeq(mem, 1, len) /\ Len(q) = len
                                 /\ \A i \in 1 .. len : q[i] = mem[i]
  BY PartOfMem
<1>8. /\ Len(received') = Len(received) + len
      /\ \A i \in 1 .. Len(received) + len :
            received'[i] = IF i <= Len(received) THEN received[i] ELSE q[i - Len(received)]
  <2>1. received \in Seq(Packets)
    BY DataTypes
  <2> QED
    BY <1>1, <1>7, <2>1, ConcatProperties
<1>9. ASSUME NEW i \in 1 .. Len(received') PROVE received'[i] = [n |-> i, upper |-> TRUE]
  <2>0. Len(received) \in Nat /\ len \in Nat
    BY DataTypes
  <2>1. CASE i <= Len(received)
    <3>1. i \in 1 .. Len(received) /\ received'[i] = received[i]
      BY <1>8, <2>0, <2>1
    <3> QED
      BY <3>1 DEF DataInv, InOrder
  <2>2. CASE ~(i <= Len(received))
    <3>1. PICK k \in 1 .. len : k = i - Len(received)
      <4>1. i \in Nat /\ i <= Len(received) + len
        BY <1>8, <2>0
      <4>2. i - Len(received) \in 1 .. len
        BY <2>0, <2>2, <4>1
      <4> QED
        BY <4>2
    <3>2. received'[i] = mem[k] /\ Len(received) + k = i
      BY <1>7, <1>8, <2>0, <2>2, <3>1
    <3> QED
      BY <1>6, <3>1, <3>2 DEF Filled
  <2> QED
    BY <2>1, <2>2
<1>10. sent' = Len(received')
  BY <1>1, <1>6, <1>8
<1>11. InOrder'
  <2>1. Len(received') <= sent'
    BY <1>1, <1>10, DataTypes
  <2> QED
    BY <1>9, <2>1 DEF InOrder
<1> QED
  BY <1>3, <1>4, <1>5, <1>10, <1>11 DEF DataInv

\* The host sends the next packet of the stream, behind those in the buffer.
LEMMA SendsKeep ==
    ASSUME QueueTypes, RestTypes, OneInv, GotInv, DataInv, NEW short \in BOOLEAN, HostSends(short)
    PROVE  DataInv'
<1>0. /\ Len(received) \in Nat /\ sent \in Nat /\ got \in Nat /\ MaxLen \in Nat
      /\ size \in 0 .. MaxLen /\ mem \in [1 .. MaxLen -> Packets] /\ ep \in [Dirs -> Endpoints]
  BY DataTypes DEF QueueTypes, RestTypes, AppTypes
<1>1. /\ ep["out"].on /\ ep["out"].owned /\ ep["out"].held
      /\ sent' = sent + 1 /\ got' = got + 1 /\ received' = received /\ main' = main /\ size' = size
      /\ mem' = [mem EXCEPT ![got'] = [n |-> sent', upper |-> FALSE]]
      /\ (\E n \in 0 .. MaxLen : n = size - got' /\ HwComplete("out", n)) \/ UNCHANGED dwcVars
  BY SendCases, SendCompletes DEF HostSends, Armed
<1>2. /\ main = "sleep" /\ Dones \cap ToSet(msgs) = {}
      /\ ~ep["in"].owned /\ "in" \notin ToSet(raised) /\ "out" \notin ToSet(raised)
  BY <1>1, HeldAlone, KindsDiffer DEF OneInv
<1>3. /\ msgs' = msgs /\ ~ep'["in"].owned /\ "in" \notin ToSet(raised')
      /\ "out" \in ToSet(raised') => size' - ep'["out"].left = got'
  <2>1. ASSUME NEW n \in 0 .. MaxLen, n = size - got', HwComplete("out", n)
        PROVE  /\ msgs' = msgs /\ ~ep'["in"].owned /\ "in" \notin ToSet(raised')
               /\ size' - ep'["out"].left = got'
    <3>1. Raise("out") /\ msgs' = msgs
      BY <2>1 DEF HwComplete
    <3>2. ep'["in"] = ep["in"] /\ ep'["out"].left = n
      BY <1>0, <2>1, CompleteMoves, LengthsAreNat, KindsDiffer
    <3>3. size' - n = got'
      BY <1>0, <1>1, <2>1
    <3> QED
      BY <1>2, <3>1, <3>2, <3>3, RaiseMoves, KindsDiffer
  <2>2. CASE UNCHANGED dwcVars
    BY <1>2, <2>2 DEF dwcVars, events
  <2> QED
    BY <1>1, <2>1, <2>2
<1>4. ~DoneWith("out")' /\ ~DoneWith("in")'
  BY <1>2, <1>3, MessageKinds, KindsDiffer DEF DoneWith
<1>5. sent = Len(received) + got /\ Filled(got, FALSE)
  BY <1>1 DEF DataInv
<1>6. got + 1 \in 1 .. MaxLen
  <2>1. got < size
    BY <1>1 DEF GotInv
  <2> QED
    BY <1>0, <2>1
<1>7. ASSUME NEW i \in 1 .. got' PROVE mem'[i] = [n |-> Len(received') + i, upper |-> FALSE]
  <2>1. CASE i = got + 1
    <3>1. mem'[i] = [n |-> sent + 1, upper |-> FALSE]
      BY <1>0, <1>1, <1>6, <2>1
    <3>2. Len(received') + i = sent + 1
      BY <1>0, <1>1, <1>5, <2>1
    <3> QED
      BY <3>1, <3>2
  <2>2. CASE i # got + 1
    <3>1. i \in 1 .. got /\ i \in 1 .. MaxLen
      BY <1>0, <1>1, <1>6, <2>2
    <3>2. mem'[i] = mem[i]
      BY <1>0, <1>1, <2>2, <3>1
    <3> QED
      BY <1>1, <1>5, <3>1, <3>2 DEF Filled
  <2> QED
    BY <2>1, <2>2
<1>8. sent' = Len(received') + got' /\ Filled(got, FALSE)'
  <2>1. sent' = Len(received') + got'
    <3>1. sent' = sent + 1 /\ got' = got + 1 /\ received' = received
      BY <1>1
    <3> QED
      BY <1>0, <1>5, <3>1
  <2>2. Filled(got, FALSE)'
    BY <1>7 DEF Filled
  <2> QED
    BY <2>1, <2>2
<1>9. InOrder'
  BY <1>0, <1>1 DEF DataInv, InOrder
<1> QED
  BY <1>1, <1>2, <1>3, <1>4, <1>8, <1>9 DEF DataInv

LEMMA UpperPacket == \A p \in Packets : [p EXCEPT !.upper = TRUE] = [n |-> p.n, upper |-> TRUE]
<1> SUFFICES ASSUME NEW p \in Packets PROVE [p EXCEPT !.upper = TRUE] = [n |-> p.n, upper |-> TRUE]
  OBVIOUS
<1>0. \A r \in Packets : /\ [r EXCEPT !.upper = TRUE] \in Packets
                         /\ [r EXCEPT !.upper = TRUE].n = r.n
                         /\ [r EXCEPT !.upper = TRUE].upper = TRUE
  BY DEF Packets
<1>1. PICK q \in Packets : /\ q = [p EXCEPT !.upper = TRUE]
                          /\ q.n = p.n /\ q.upper = TRUE
  BY <1>0
<1>2. q = [n |-> q.n, upper |-> q.upper]
  BY DEF Packets
<1> QED
  BY <1>1, <1>2

\* my_read_callback() makes uppercase of as much as was received.
LEMMA UppercaseKeeps ==
    ASSUME QueueTypes, RestTypes, OneInv, DataInv, ReadCallback
    PROVE  DataInv'
<1>0. /\ Len(received) \in Nat /\ len \in Nat /\ MaxLen \in Nat /\ len <= MaxLen
      /\ mem \in [1 .. MaxLen -> Packets] /\ ep \in [Dirs -> Endpoints]
  BY DataTypes DEF QueueTypes
<1>1. /\ Message("done", "out") /\ mem' = Uppercase /\ CdcRawWrite /\ raised' = raised
      /\ UNCHANGED <<main, len, got, received, sent>>
  BY DEF ReadCallback, CdcRawWrite, Message, events, hostVars
<1>2. DoneWith("out") /\ Dones \cap ToSet(msgs') = {}
  <2>1. /\ [kind |-> "done", arg |-> "out"] \in ToSet(msgs)
        /\ AtMostOne(msgs, Dones) => Dones \cap ToSet(msgs') = {}
    BY <1>1, MessageMoves
  <2> QED
    BY <2>1 DEF DoneWith, OneInv
<1>3. main = "sleep" /\ \A c \in Dirs : ~ep[c].held
  BY <1>2, DoneKinds, KindsDiffer DEF OneInv
<1>4. \A c \in Dirs : ~ep[c].owned /\ c \notin ToSet(raised)
  BY <1>3, UsbdAlone
<1>5. ep'["out"] = ep["out"]
  <2>1. PICK n \in Nat : ep' = Enqueue("in", ep, n)
    BY <1>1, WriteIsEnqueue, LengthsAreNat
  <2>2. \A c \in Dirs : c # "in" => Enqueue("in", ep, n)[c] = ep[c]
    BY <1>0, EnqueueMoves, KindsDiffer
  <2> QED
    BY <2>1, <2>2, KindsDiffer
<1>6. ~DoneWith("out")' /\ ~DoneWith("in")'
  BY <1>2, MessageKinds, KindsDiffer DEF DoneWith
<1>7. sent = Len(received) + len /\ Filled(len, FALSE)
  BY <1>2 DEF DataInv
<1>8. Filled(len, TRUE)'
  <2> SUFFICES ASSUME NEW i \in 1 .. len
               PROVE  mem'[i] = [n |-> Len(received) + i, upper |-> TRUE]
    BY <1>1 DEF Filled
  <2>1. mem[i] = [n |-> Len(received) + i, upper |-> FALSE]
    BY <1>7 DEF Filled
  <2>2. i \in 1 .. MaxLen /\ i <= len
    BY <1>0
  <2>3. mem'[i] = [mem[i] EXCEPT !.upper = TRUE]
    BY <1>1, <2>2 DEF Uppercase
  <2>4. PICK k : k = Len(received) + i
    OBVIOUS
  <2>5. mem[i] = [n |-> k, upper |-> FALSE] /\ mem[i] \in Packets
    BY <1>0, <2>1, <2>2, <2>4
  <2>6. PICK p \in Packets : p = mem[i]
    BY <2>5
  <2>7. p.n = k
    BY <2>5, <2>6
  <2>8. [p EXCEPT !.upper = TRUE] = [n |-> k, upper |-> TRUE]
    BY <2>7, UpperPacket
  <2>9. mem'[i] = [n |-> k, upper |-> TRUE]
    BY <2>3, <2>6, <2>8, Zenon
  <2> QED
    BY <2>4, <2>9
<1>9. InOrder'
  BY <1>1 DEF DataInv, InOrder
<1>10. /\ ~ep'["out"].owned /\ "out" \notin ToSet(raised') /\ "in" \notin ToSet(raised')
       /\ main' = "sleep" /\ sent' = Len(received') + len'
  BY <1>1, <1>3, <1>4, <1>5, <1>7, KindsDiffer
<1> QED
  BY <1>6, <1>8, <1>9, <1>10 DEF DataInv

LEMMA DataKept ==
    ASSUME QueueTypes, RestTypes, StartInv, RingInv, RoomInv, OneInv, GotInv, DataInv,
           [Next]_vars, ~spoiled'
    PROVE  DataInv'
<1>0. ep \in [Dirs -> Endpoints] /\ speed \in Speeds
  BY DEF QueueTypes, RestTypes, AppTypes
<1>1. ASSUME UNCHANGED <<received, sent, mem, size, got, len, ep, raised, msgs>>,
             main' # "sleep" => main # "sleep"
      PROVE  DataInv'
  BY <1>1, DataFrame
<1>2. CASE UNCHANGED vars
  BY <1>1, <1>2 DEF vars, dwcVars, events, echoVars, hostVars
<1>3. CASE AppUsbInit \/ UsbFails
  BY <1>1, <1>3 DEF AppUsbInit, UsbFails, Goto, dwcVars, events, hostVars
<1>4. CASE UsbdInit \/ UsbdEnable
  BY <1>1, <1>4 DEF UsbdInit, ApiInit, SoftReset, UsbdEnable, ApiEnable, Goto, events, hostVars
<1>5. CASE FirstRead
  <2>1. /\ CdcRawRead /\ main = "wait" /\ UNCHANGED <<received, sent, raised, msgs>>
    BY <1>5 DEF FirstRead, events, hostVars
  <2>2. /\ \A c \in Dirs : ~ep[c].held
        /\ Dones \cap ToSet(msgs') = {}
    BY <2>1 DEF OneInv
  <2>3. sent = Len(received)
    BY <2>1 DEF DataInv
  <2> QED
    BY <1>0, <2>1, <2>2, <2>3, ReadAgain
<1>6. CASE Worker
  <2>0. UNCHANGED <<main, mem, size, got, received, sent>>
    BY <1>6, WorkerCases DEF hostVars
  <2>1. ASSUME NEW e, e \notin Dirs, Take(e), UNCHANGED <<ep, len>>,
               msgs' = msgs \/ \E m \in Msgs \ Dones : Submit(m)
        PROVE  DataInv'
    <3>1. ToSet(raised') \subseteq ToSet(raised)
      BY <2>1, TakenWaits
    <3>2. Dones \cap ToSet(msgs') \subseteq ToSet(msgs)
      <4>1. ASSUME NEW m \in Msgs \ Dones, Submit(m)
            PROVE  Dones \cap ToSet(msgs') \subseteq ToSet(msgs)
        BY <4>1, SubmitMoves
      <4> QED
        BY <2>1, <4>1
    <3> QED
      BY <2>0, <2>1, <3>1, <3>2, DataFrame
  <2>2. CASE (OnUsbReset \/ OnConnectDone) /\ len' = len
    <3>1. "reset" \notin Dirs /\ "connect" \notin Dirs /\ [kind |-> "reset", arg |-> "none"] \in Msgs \ Dones
      BY MessageKinds, KindsDiffer
    <3> QED
      BY <2>1, <2>2, <3>1 DEF OnUsbReset, OnConnectDone
  <2>3. ASSUME NEW r \in Requests, OnCtrl(r), len' = len PROVE DataInv'
    <3>1. r \notin Dirs /\ [kind |-> "ctrl", arg |-> r] \in Msgs \ Dones
      BY MessageKinds, KindsDiffer
    <3> QED
      BY <2>1, <2>3, <3>1 DEF OnCtrl
  <2>4. ASSUME NEW d \in Dirs, OnXferDone(d), len' = LenReceived(d) PROVE DataInv'
    <3>1. CASE d = "out"
      BY <2>0, <2>4, <3>1, OutDone DEF LenReceived
    <3>2. CASE d = "in"
      BY <2>0, <2>4, <3>2, InDone
    <3> QED
      BY <3>1, <3>2, KindsDiffer
  <2>5. \/ (OnUsbReset \/ OnConnectDone) /\ len' = len
        \/ \E r \in Requests : OnCtrl(r) /\ len' = len
        \/ \E d \in Dirs : OnXferDone(d) /\ len' = LenReceived(d)
    BY <1>6 DEF Worker
  <2> QED
    BY <2>2, <2>3, <2>4, <2>5
<1>7. ASSUME NEW k, NEW a, Message(k, a), UNCHANGED <<main, received, sent, mem, size, got, len>>,
             \A c \in Dirs : ep'[c].owned => ep[c].owned,
             "out" \in ToSet(raised) => ep'["out"].left = ep["out"].left
      PROVE  DataInv'
  <2>1. raised' = raised
    BY <1>7 DEF Message, events
  <2>2. ToSet(msgs') \subseteq ToSet(msgs)
    BY <1>7, MessageMoves
  <2> QED
    BY <1>7, <2>1, <2>2, DataFrame
<1>8. CASE UsbdReset
  <2>1. ep' = AllDisabled /\ Message("reset", "none") /\ UNCHANGED <<main, received, sent, mem, size, got, len>>
    BY <1>8 DEF UsbdReset, hostVars
  <2> QED
    BY <1>0, <1>7, <2>1, DisabledMoves, KindsDiffer
<1>9. CASE UsbdConfig
  <2>1. /\ ep' = [d \in Dirs |-> Enabled(AllDisabled[d], DescMps(speed))]
        /\ Message("ctrl", "config") /\ UNCHANGED <<main, received, sent, mem, size, got, len>>
    BY <1>9 DEF UsbdConfig, Answer
  <2>2. \A c \in Dirs : ep'[c].owned => ep[c].owned
    BY <1>0, <2>1, ConfigMoves
  <2>3. "out" \in ToSet(raised) => ep'["out"].left = ep["out"].left
    BY <1>9 DEF UsbdConfig
  <2> QED
    BY <1>7, <2>1, <2>2, <2>3
<1>10. ASSUME NEW r \in Requests, UsbdLineState(r) PROVE DataInv'
  <2>1. Message("ctrl", r) /\ UNCHANGED <<ep, main, received, sent, mem, size, got, len>>
    BY <1>10 DEF UsbdLineState, Answer
  <2> QED
    BY <1>7, <2>1
<1>11. CASE ReadCallback
  BY <1>11, UppercaseKeeps
<1>12. CASE WriteCallback
  <2>1. Message("done", "in") /\ CdcRawRead /\ UNCHANGED <<received, sent, raised>>
    BY <1>12 DEF WriteCallback, Message, events, hostVars
  <2>2. DoneWith("in") /\ Dones \cap ToSet(msgs') = {}
    <3>1. /\ [kind |-> "done", arg |-> "in"] \in ToSet(msgs)
          /\ AtMostOne(msgs, Dones) => Dones \cap ToSet(msgs') = {}
      BY <2>1, MessageMoves
    <3> QED
      BY <3>1 DEF DoneWith, OneInv
  <2>3. \A c \in Dirs : ~ep[c].held
    BY <2>2, DoneKinds, KindsDiffer DEF OneInv
  <2>4. sent = Len(received)
    BY <2>2 DEF DataInv
  <2> QED
    BY <1>0, <2>1, <2>2, <2>3, <2>4, ReadAgain
<1>13. ASSUME NEW e \in EventKinds, e \notin Dirs, Raise(e),
              UNCHANGED <<ep, msgs, main, received, sent, mem, size, got, len>>
       PROVE  DataInv'
  <2>1. Dirs \cap ToSet(raised') \subseteq ToSet(raised)
    BY <1>13, RaiseMoves
  <2> QED
    BY <1>13, <2>1, DataFrame
<1>14. ASSUME NEW r \in Requests, HostRequest(r) PROVE DataInv'
  BY <1>13, <1>14, KindsDiffer DEF HostRequest, HwCtrl, echoVars
<1>15. CASE \E short \in BOOLEAN : HostSends(short)
  BY <1>15, SendsKeep
<1>16. CASE HostReads
  BY <1>16, ReadsKeep
<1>17. CASE HostResets \/ HostConnects
  <2>1. /\ Raise("reset") \/ Raise("connect")
        /\ UNCHANGED <<ep, msgs, main, received, sent, mem, size, got, len>>
    BY <1>17 DEF HostResets, HostConnects, HwReset, HwConnect, BusMoves, echoVars
  <2> QED
    BY <1>13, <2>1, KindsDiffer
<1> QED
  BY <1>2, <1>3, <1>4, <1>5, <1>6, <1>8, <1>9, <1>10, <1>11, <1>12, <1>14, <1>15, <1>16, <1>17, StepCases

LEMMA SpoiledStays ==
    ASSUME [Next]_vars, spoiled
    PROVE  spoiled'
<1>1. CASE UsbdConfig
  BY <1>1 DEF UsbdConfig
<1>2. CASE UNCHANGED ghosts \/ UNCHANGED spoiled
  BY <1>2 DEF ghosts
<1>3. CASE UNCHANGED vars
  BY <1>2, <1>3 DEF vars
<1>4. CASE AppUsbInit \/ UsbdInit \/ UsbdEnable \/ UsbFails \/ FirstRead
  BY <1>2, <1>4 DEF AppUsbInit, UsbdInit, UsbdEnable, UsbFails, FirstRead, Goto
<1>5. CASE Worker
  BY <1>2, <1>5, WorkerCases
<1>6. CASE UsbdReset \/ (\E r \in Requests : UsbdLineState(r)) \/ ReadCallback \/ WriteCallback
  BY <1>2, <1>6 DEF UsbdReset, UsbdLineState, ReadCallback, WriteCallback
<1>7. CASE \E short \in BOOLEAN : HostSends(short)
  BY <1>2, <1>7, SendCases
<1>8. CASE (\E r \in Requests : HostRequest(r)) \/ HostReads \/ HostResets \/ HostConnects
  BY <1>2, <1>8 DEF HostRequest, HostReads, HostResets, HostConnects, BusMoves
<1> QED
  BY <1>1, <1>3, <1>4, <1>5, <1>6, <1>7, <1>8, StepCases

\* The host gets back what it sent, in order and in uppercase, and never old contents
\* of the firmware's buffer, whatever is reset or configured meanwhile - unless
\* dwc3_api_ep_enable() erased the length of a read that was over, before
\* dwc3_on_xfer_done_norm() computed buf->len from it.
THEOREM EchoAlwaysInOrder == Spec => []EchoInOrder
<1> DEFINE EitherInv == spoiled \/ DataInv
<1>1. Init => DataInv
  <2> SUFFICES ASSUME Init PROVE DataInv
    OBVIOUS
  <2>1. /\ raised = <<>> /\ msgs = <<>> /\ sent = 0 /\ received = <<>>
        /\ \A d \in Dirs : ~ep[d].owned
    BY DEF Init, DwcInit
  <2>2. ToSet(raised) = {} /\ ToSet(msgs) = {} /\ Len(received) = 0
    BY <2>1, EmptyQueue
  <2>3. ~ep["out"].owned /\ ~ep["in"].owned
    BY <2>1, KindsDiffer
  <2>4. InOrder
    BY <2>1, <2>2 DEF InOrder
  <2> QED
    BY <2>1, <2>2, <2>3, <2>4 DEF DataInv, DoneWith
<1>2. EchoInv /\ EitherInv /\ [Next]_vars => EitherInv'
  BY DataKept, SpoiledStays DEF EchoInv
<1>3. EitherInv => EchoInOrder
  BY DEF DataInv, InOrder, EchoInOrder
<1>4. Init => EitherInv
  BY <1>1
<1> QED
  BY <1>2, <1>3, <1>4, EchoAlways, PTL DEF Spec
=============================================================================
