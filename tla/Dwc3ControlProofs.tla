-------------------------- MODULE Dwc3ControlProofs --------------------------
(***************************************************************************)
(* Dwc3Control for every set of addresses and every bound: EP0 has one     *)
(* owner, asserts nothing, and answers at the address of the host.         *)
(***************************************************************************)
EXTENDS Dwc3Control, FiniteSetTheorems, SequenceTheorems, TLAPS

-----------------------------------------------------------------------------
(* Queues of events and of messages *)

EventKinds == {"out", "in", "reset"}

Raised(e) == \E i \in 1 .. Len(evts) : evts[i] = e
Newest(e) == evts # <<>> /\ evts[Len(evts)] = e

\* One event of EP0 at most waits to be processed.
EvtOnce ==
    \A i, j \in 1 .. Len(evts) : evts[i] # "reset" /\ evts[j] # "reset" => i = j

Asked == \E i \in 1 .. Len(msgs) : msgs[i].kind = "setup"
Latest == msgs[Len(msgs)]

\* One request at most waits for usbd.
MsgOnce ==
    \A i, j \in 1 .. Len(msgs) : msgs[i].kind = "setup" /\ msgs[j].kind = "setup" => i = j

LEMMA Appended ==
    ASSUME NEW S, NEW s \in Seq(S), NEW e \in S
    PROVE  /\ Append(s, e) \in Seq(S) /\ Append(s, e) # <<>>
           /\ Len(Append(s, e)) = Len(s) + 1 /\ Len(s) \in Nat
           /\ \A i \in 1 .. Len(s) : Append(s, e)[i] = s[i]
           /\ Append(s, e)[Len(s) + 1] = e
OBVIOUS

LEMMA Removed ==
    ASSUME NEW S, NEW s \in Seq(S), s # <<>>
    PROVE  /\ Tail(s) \in Seq(S) /\ Head(s) = s[1] /\ Head(s) \in S
           /\ Len(s) \in Nat /\ Len(s) >= 1 /\ Len(Tail(s)) = Len(s) - 1
           /\ \A i \in 1 .. Len(s) - 1 : Tail(s)[i] = s[i + 1]
OBVIOUS

LEMMA EventRaised ==
    ASSUME evts \in Seq(EventKinds), NEW e \in EventKinds, evts' = Append(evts, e)
    PROVE  /\ evts' \in Seq(EventKinds)
           /\ \A x : Raised(x)' <=> Raised(x) \/ x = e
           /\ \A x : Newest(x)' <=> x = e
           /\ EvtOnce /\ (e = "reset" \/ (~Raised("out") /\ ~Raised("in"))) => EvtOnce'
<1>1. /\ evts' \in Seq(EventKinds) /\ evts' # <<>>
      /\ Len(evts') = Len(evts) + 1 /\ Len(evts) \in Nat
      /\ \A i \in 1 .. Len(evts) : evts'[i] = evts[i]
      /\ evts'[Len(evts) + 1] = e
  BY Appended
<1>2. \A i : i \in 1 .. Len(evts') <=> i \in 1 .. Len(evts) \/ i = Len(evts) + 1
  BY <1>1
<1>3. \A x : Raised(x)' <=> Raised(x) \/ x = e
  BY <1>1, <1>2 DEF Raised
<1>4. \A x : Newest(x)' <=> x = e
  BY <1>1 DEF Newest
<1>5. ASSUME EvtOnce, e = "reset" \/ (~Raised("out") /\ ~Raised("in")) PROVE EvtOnce'
  <2>1. e = "reset" \/ \A i \in 1 .. Len(evts) : evts[i] = "reset"
    BY <1>5 DEF Raised, EventKinds
  <2> QED
    BY <1>1, <1>2, <1>5, <2>1 DEF EvtOnce
<1> QED
  BY <1>1, <1>3, <1>4, <1>5

LEMMA EventTaken ==
    ASSUME evts \in Seq(EventKinds), EvtOnce, NEW e \in EventKinds, Event(e)
    PROVE  /\ evts' \in Seq(EventKinds) /\ EvtOnce' /\ Raised(e)
           /\ e # "reset" => ~Raised("out")' /\ ~Raised("in")'
           /\ \A x : Raised(x)' => Raised(x)
           /\ \A x : x # e /\ Raised(x) => Raised(x)'
           /\ \A x : Newest(x)' => Newest(x)
           /\ \A x : x # e /\ Newest(x) => Newest(x)'
           /\ e # "reset" /\ Newest(e) => \A x : ~Raised(x)'
           /\ e # "reset" => Newest(e) \/ Newest("reset")
<1>1. evts # <<>> /\ Head(evts) = e /\ evts' = Tail(evts)
  BY DEF Event
<1>2. /\ evts' \in Seq(EventKinds) /\ evts[1] = e
      /\ Len(evts) \in Nat /\ Len(evts) >= 1 /\ Len(evts') = Len(evts) - 1
      /\ \A i \in 1 .. Len(evts) - 1 : evts'[i] = evts[i + 1]
  BY <1>1, Removed
<1>3. evts' # <<>> => Len(evts') >= 1
  BY <1>2, EmptySeq
<1>4. \A i \in 1 .. Len(evts') : evts'[i] = evts[i + 1] /\ i + 1 \in 1 .. Len(evts)
  BY <1>2
<1>5. \A i \in 1 .. Len(evts) : i = 1 \/ (i - 1 \in 1 .. Len(evts') /\ evts'[i - 1] = evts[i])
  BY <1>2
<1>6. EvtOnce'
  BY <1>4 DEF EvtOnce
<1>7. Raised(e)
  BY <1>2 DEF Raised
<1>8. ASSUME e # "reset" PROVE \A i \in 1 .. Len(evts') : evts'[i] = "reset"
  BY <1>2, <1>4, <1>8 DEF EvtOnce
<1>9. \A x : Raised(x)' => Raised(x)
  BY <1>4 DEF Raised
<1>10. \A x : x # e /\ Raised(x) => Raised(x)'
  BY <1>2, <1>5 DEF Raised
<1>11. \A x : Newest(x)' => Newest(x)
  BY <1>1, <1>2, <1>3 DEF Newest
<1>12. \A x : x # e /\ Newest(x) => Newest(x)'
  <2> SUFFICES ASSUME NEW x, x # e, Newest(x) PROVE Newest(x)'
    OBVIOUS
  <2>1. Len(evts) # 1
    BY <1>2 DEF Newest
  <2>2. Len(evts') \in 1 .. Len(evts) - 1 /\ evts' # <<>>
    BY <1>2, <2>1
  <2> QED
    BY <1>2, <2>2 DEF Newest
<1>13. e # "reset" /\ Newest(e) => \A x : ~Raised(x)'
  BY <1>2 DEF Newest, Raised, EvtOnce
<1>14. e # "reset" => Newest(e) \/ Newest("reset")
  BY <1>1, <1>2 DEF Newest, EvtOnce
<1> QED
  BY <1>2, <1>6, <1>7, <1>8, <1>9, <1>10, <1>11, <1>12, <1>13, <1>14 DEF Raised

LEMMA MessageSent ==
    ASSUME msgs \in Seq(Messages), NEW m \in Messages, msgs' = Append(msgs, m)
    PROVE  /\ msgs' \in Seq(Messages) /\ msgs' # <<>> /\ Latest' = m
           /\ Asked' <=> Asked \/ m.kind = "setup"
           /\ MsgOnce /\ ~(Asked /\ m.kind = "setup") => MsgOnce'
           /\ \A i \in 1 .. Len(msgs') :
                 msgs'[i] = m \/ (i \in 1 .. Len(msgs) /\ msgs'[i] = msgs[i])
<1>1. /\ msgs' \in Seq(Messages) /\ msgs' # <<>>
      /\ Len(msgs') = Len(msgs) + 1 /\ Len(msgs) \in Nat
      /\ \A i \in 1 .. Len(msgs) : msgs'[i] = msgs[i]
      /\ msgs'[Len(msgs) + 1] = m
  BY Appended
<1>2. \A i : i \in 1 .. Len(msgs') <=> i \in 1 .. Len(msgs) \/ i = Len(msgs) + 1
  BY <1>1
<1>3. Asked' <=> Asked \/ m.kind = "setup"
  BY <1>1, <1>2 DEF Asked
<1>4. MsgOnce /\ ~(Asked /\ m.kind = "setup") => MsgOnce'
  BY <1>1, <1>2 DEF MsgOnce, Asked
<1> QED
  BY <1>1, <1>2, <1>3, <1>4 DEF Latest

LEMMA MessageTaken ==
    ASSUME msgs \in Seq(Messages), MsgOnce, NEW k, Message(k)
    PROVE  /\ msgs' \in Seq(Messages) /\ MsgOnce'
           /\ msgs # <<>> /\ Head(msgs) \in Messages /\ Head(msgs).kind = k
           /\ k = "setup" => Asked /\ ~Asked' /\ Head(msgs) = msgs[1] /\ 1 \in 1 .. Len(msgs)
           /\ k # "setup" => (Asked' <=> Asked)
           /\ \A i \in 1 .. Len(msgs') : i + 1 \in 1 .. Len(msgs) /\ msgs'[i] = msgs[i + 1]
           /\ msgs' # <<>> => Latest' = Latest
           /\ Tail(msgs) = <<>> => Head(msgs) = Latest
<1>1. msgs # <<>> /\ Head(msgs).kind = k /\ msgs' = Tail(msgs)
  BY DEF Message
<1>2. /\ msgs' \in Seq(Messages) /\ Head(msgs) = msgs[1] /\ Head(msgs) \in Messages
      /\ Len(msgs) \in Nat /\ Len(msgs) >= 1 /\ Len(msgs') = Len(msgs) - 1
      /\ \A i \in 1 .. Len(msgs) - 1 : msgs'[i] = msgs[i + 1]
  BY <1>1, Removed
<1>3. msgs' # <<>> => Len(msgs') >= 1
  BY <1>2, EmptySeq
<1>4. \A i \in 1 .. Len(msgs') : msgs'[i] = msgs[i + 1] /\ i + 1 \in 1 .. Len(msgs)
  BY <1>2
<1>5. \A i \in 1 .. Len(msgs) : i = 1 \/ (i - 1 \in 1 .. Len(msgs') /\ msgs'[i - 1] = msgs[i])
  BY <1>2
<1>6. MsgOnce'
  BY <1>4 DEF MsgOnce
<1>7. k = "setup" => Asked /\ ~Asked'
  <2>1. ASSUME k = "setup" PROVE Asked
    BY <1>1, <1>2, <2>1 DEF Asked
  <2>2. ASSUME k = "setup", NEW i \in 1 .. Len(msgs') PROVE msgs'[i].kind # "setup"
    <3>1. i + 1 \in 1 .. Len(msgs) /\ 1 \in 1 .. Len(msgs) /\ i + 1 # 1
      BY <1>2, <1>4
    <3>2. ~(msgs[i + 1].kind = "setup" /\ msgs[1].kind = "setup")
      BY <3>1 DEF MsgOnce
    <3>3. msgs'[i] = msgs[i + 1] /\ msgs[1].kind = "setup"
      BY <1>1, <1>2, <1>4, <2>2
    <3> QED
      BY <3>2, <3>3
  <2>3. k = "setup" => ~Asked'
    BY <2>2 DEF Asked
  <2> QED
    BY <2>1, <2>3
<1>8. k # "setup" => (Asked' <=> Asked)
  <2>1. ASSUME NEW i \in 1 .. Len(msgs'), msgs'[i].kind = "setup" PROVE Asked
    BY <1>4, <2>1, Zenon DEF Asked
  <2>2. ASSUME k # "setup", NEW i \in 1 .. Len(msgs), msgs[i].kind = "setup" PROVE Asked'
    <3>1. i # 1
      BY <1>1, <1>2, <2>2
    <3>2. i - 1 \in 1 .. Len(msgs') /\ msgs'[i - 1] = msgs[i]
      BY <1>5, <3>1, Zenon
    <3> QED
      BY <2>2, <3>2, Zenon DEF Asked
  <2> QED
    BY <2>1, <2>2 DEF Asked
<1>9. msgs' # <<>> => Latest' = Latest
  BY <1>2, <1>3 DEF Latest
<1>10. Tail(msgs) = <<>> => Head(msgs) = Latest
  <2>1. Tail(msgs) = <<>> => Len(msgs) = 1
    BY <1>1, <1>2
  <2> QED
    BY <1>2, <2>1 DEF Latest
<1> QED
  BY <1>1, <1>2, <1>4, <1>6, <1>7, <1>8, <1>9, <1>10

-----------------------------------------------------------------------------
(* Types *)

LEMMA RequestTypes ==
    /\ Empty \in Requests /\ Empty.setup = None /\ Empty.data = None
    /\ \A r \in Requests : r.setup \in Addresses \cup {None} /\ r.data \in Lookalikes \cup {None}
    /\ \A r \in Requests : r.data # None => r.setup = None
    /\ \A r \in Requests : r.setup # None => r.dir = "none"
BY AddressAssumption DEF Requests, Empty

LEMMA MessageTypes ==
    /\ \A r \in Requests : Msg("setup", r) \in Messages /\ Msg("status", r) \in Messages
    /\ Msg("reset", Empty) \in Messages
    /\ \A k, r : Msg(k, r).kind = k /\ Msg(k, r).req = r
    /\ \A m \in Messages : m.req \in Requests
BY RequestTypes DEF Messages, Msg

LEMMA TypeMessages == TypeOK => msgs \in Seq(Messages) /\ evts \in Seq(EventKinds)
BY DEF TypeOK, EventKinds

LEMMA EventTypes ==
    ASSUME TypeOK, NEW e, Event(e) PROVE evts' \in Seq(EventKinds)
BY TypeMessages, Removed DEF Event

LEMMA RaisedTypes ==
    ASSUME TypeOK, NEW e \in EventKinds, evts' = Append(evts, e) PROVE evts' \in Seq(EventKinds)
BY TypeMessages, Appended

LEMMA TakenTypes ==
    ASSUME TypeOK, NEW k, Message(k)
    PROVE  msgs' \in Seq(Messages) /\ Head(msgs) \in Messages /\ Head(msgs).req \in Requests
BY TypeMessages, MessageTypes, Removed DEF Message

LEMMA SentTypes ==
    ASSUME TypeOK, NEW m \in Messages, msgs' = Append(msgs, m) PROVE msgs' \in Seq(Messages)
BY TypeMessages, Appended

LEMMA StageTypes ==
    /\ \A r : StageAfterSetup(r) \in Stages
    /\ StageAfterOut \in Stages /\ StageAfterIn \in Stages
BY DEF StageAfterSetup, StageAfterOut, StageAfterIn, Stages

LEMMA AddressTypes ==
    TypeOK => AddressSetEarly \in Addresses \cup {Default} /\ Spelt \in Addresses \cup {None}
BY RequestTypes, AddressAssumption DEF TypeOK, AddressSetEarly, Spelt

\* What the worker does with the OUT buffer leaves every variable in its type.
LEMMA OutTypesKept ==
    ASSUME TypeOK, OnSetup \/ OnWriteData \/ OnReadStatus
    PROVE  /\ outBuf' \in BOOLEAN /\ outOwned' \in BOOLEAN /\ outTrb' \in OutTypes
           /\ setup' \in Requests /\ stage' \in Stages /\ msgs' \in Seq(Messages)
<1>0. outReq \in Requests /\ setup \in Requests /\ outBuf \in BOOLEAN
      /\ outOwned \in BOOLEAN /\ outTrb \in OutTypes
  BY DEF TypeOK
<1>1. CASE OnSetup
  <2>1. setup' \in Requests /\ stage' \in Stages
    BY <1>0, <1>1, StageTypes DEF OnSetup
  <2>2. CASE OnWriteSetup
    BY <1>0, <2>1, <2>2, TypeMessages DEF OnWriteSetup, TrbCtrlOut, OutTypes
  <2>3. CASE HandSetupOver
    BY <1>0, <2>1, <2>3, SentTypes, MessageTypes DEF HandSetupOver
  <2> QED
    BY <1>1, <2>2, <2>3 DEF OnSetup, OnReadSetup, OnNodataSetup
<1>2. CASE OnWriteData
  BY <1>0, <1>2, SentTypes, MessageTypes, StageTypes DEF OnWriteData
<1>3. CASE OnReadStatus
  BY <1>0, <1>3, SentTypes, MessageTypes, StageTypes DEF OnReadStatus, TrbCtrlOut, OutTypes
<1> QED
  BY <1>1, <1>2, <1>3

\* The same of the IN buffer.
LEMMA InTypesKept ==
    ASSUME TypeOK, OnReadData \/ OnWriteStatus \/ OnNodataStatus
    PROVE  /\ outBuf' \in BOOLEAN /\ outOwned' \in BOOLEAN /\ outTrb' \in OutTypes
           /\ msgs' \in Seq(Messages)
<1>1. setup \in Requests
  BY DEF TypeOK
<1>2. CASE OnReadData
  BY <1>2, TypeMessages DEF OnReadData, TrbCtrlOut, OutTypes
<1>3. CASE OnWriteStatus \/ OnNodataStatus
  BY <1>1, <1>3, SentTypes, MessageTypes DEF OnWriteStatus, OnNodataStatus, OnStatusIn, TrbCtrlOut, OutTypes
<1> QED
  BY <1>2, <1>3

LEMMA TypesKept == TypeOK /\ [Next]_vars => TypeOK'
<1> SUFFICES ASSUME TypeOK, [Next]_vars PROVE TypeOK'
  OBVIOUS
<1> USE DEF EventKinds
<1>1. CASE OnCtrlOut
  <2>1. /\ outBuf' \in BOOLEAN /\ outOwned' \in BOOLEAN /\ outTrb' \in OutTypes
        /\ inBuf' \in BOOLEAN /\ inOwned' \in BOOLEAN /\ inTrb' \in InTypes
    BY <1>1, EventTypes, OutTypesKept, AddressTypes DEF OnCtrlOut, TypeOK, in, out, host
  <2>2. eproto' \in BOOLEAN /\ failed' \in BOOLEAN /\ stalled' \in BOOLEAN
    BY <1>1, EventTypes, OutTypesKept, AddressTypes DEF OnCtrlOut, TypeOK, in, out, host
  <2>3. /\ outReq' \in Requests /\ setup' \in Requests /\ stage' \in Stages
        /\ devAddr' \in Addresses \cup {Default}
        /\ hostReq' \in Requests /\ hostStage' \in {"idle", "setup", "data", "status"}
        /\ hostAddr' \in Addresses \cup {Default, None}
    BY <1>1, EventTypes, OutTypesKept, AddressTypes DEF OnCtrlOut, TypeOK, in, out, host
  <2>4. evts' \in Seq(EventKinds) /\ msgs' \in Seq(Messages)
    BY <1>1, EventTypes, OutTypesKept, AddressTypes DEF OnCtrlOut, TypeOK, in, out, host
  <2> QED
    BY <2>1, <2>2, <2>3, <2>4 DEF TypeOK
<1>2. CASE OnCtrlIn
  <2>1. /\ outBuf' \in BOOLEAN /\ outOwned' \in BOOLEAN /\ outTrb' \in OutTypes
        /\ inBuf' \in BOOLEAN /\ inOwned' \in BOOLEAN /\ inTrb' \in InTypes
    BY <1>2, EventTypes, InTypesKept, StageTypes DEF OnCtrlIn, TypeOK, out, host
  <2>2. eproto' \in BOOLEAN /\ failed' \in BOOLEAN /\ stalled' \in BOOLEAN
    BY <1>2, EventTypes, InTypesKept, StageTypes DEF OnCtrlIn, TypeOK, out, host
  <2>3. /\ outReq' \in Requests /\ setup' \in Requests /\ stage' \in Stages
        /\ devAddr' \in Addresses \cup {Default}
        /\ hostReq' \in Requests /\ hostStage' \in {"idle", "setup", "data", "status"}
        /\ hostAddr' \in Addresses \cup {Default, None}
    BY <1>2, EventTypes, InTypesKept, StageTypes DEF OnCtrlIn, TypeOK, out, host
  <2>4. evts' \in Seq(EventKinds) /\ msgs' \in Seq(Messages)
    BY <1>2, EventTypes, InTypesKept, StageTypes DEF OnCtrlIn, TypeOK, out, host
  <2> QED
    BY <2>1, <2>2, <2>3, <2>4 DEF TypeOK
<1>3. CASE OnUsbReset
  <2>1. /\ outBuf' \in BOOLEAN /\ outOwned' \in BOOLEAN /\ outTrb' \in OutTypes
        /\ inBuf' \in BOOLEAN /\ inOwned' \in BOOLEAN /\ inTrb' \in InTypes
    BY <1>3, EventTypes, SentTypes, MessageTypes DEF OnUsbReset, ResetAddress, TypeOK, out, in, host
  <2>2. eproto' \in BOOLEAN /\ failed' \in BOOLEAN /\ stalled' \in BOOLEAN
    BY <1>3, EventTypes, SentTypes, MessageTypes DEF OnUsbReset, ResetAddress, TypeOK, out, in, host
  <2>3. /\ outReq' \in Requests /\ setup' \in Requests /\ stage' \in Stages
        /\ devAddr' \in Addresses \cup {Default}
        /\ hostReq' \in Requests /\ hostStage' \in {"idle", "setup", "data", "status"}
        /\ hostAddr' \in Addresses \cup {Default, None}
    BY <1>3, EventTypes, SentTypes, MessageTypes DEF OnUsbReset, ResetAddress, TypeOK, out, in, host
  <2>4. evts' \in Seq(EventKinds) /\ msgs' \in Seq(Messages)
    BY <1>3, EventTypes, SentTypes, MessageTypes DEF OnUsbReset, ResetAddress, TypeOK, out, in, host
  <2> QED
    BY <2>1, <2>2, <2>3, <2>4 DEF TypeOK
<1>4. CASE UsbdAccepts
  <2>1. /\ outBuf' \in BOOLEAN /\ outOwned' \in BOOLEAN /\ outTrb' \in OutTypes
        /\ inBuf' \in BOOLEAN /\ inOwned' \in BOOLEAN /\ inTrb' \in InTypes
    BY <1>4, TakenTypes DEF UsbdAccepts, TrbCtrlIn, InTypes, TypeOK, out, host
  <2>2. eproto' \in BOOLEAN /\ failed' \in BOOLEAN /\ stalled' \in BOOLEAN
    BY <1>4, TakenTypes DEF UsbdAccepts, TrbCtrlIn, InTypes, TypeOK, out, host
  <2>3. /\ outReq' \in Requests /\ setup' \in Requests /\ stage' \in Stages
        /\ devAddr' \in Addresses \cup {Default}
        /\ hostReq' \in Requests /\ hostStage' \in {"idle", "setup", "data", "status"}
        /\ hostAddr' \in Addresses \cup {Default, None}
    BY <1>4, TakenTypes DEF UsbdAccepts, TrbCtrlIn, InTypes, TypeOK, out, host
  <2>4. evts' \in Seq(EventKinds) /\ msgs' \in Seq(Messages)
    BY <1>4, TakenTypes DEF UsbdAccepts, TrbCtrlIn, InTypes, TypeOK, out, host
  <2> QED
    BY <2>1, <2>2, <2>3, <2>4 DEF TypeOK
<1>5. CASE UsbdRefuses
  <2>1. /\ outBuf' \in BOOLEAN /\ outOwned' \in BOOLEAN /\ outTrb' \in OutTypes
        /\ inBuf' \in BOOLEAN /\ inOwned' \in BOOLEAN /\ inTrb' \in InTypes
    BY <1>5, TakenTypes DEF UsbdRefuses, SetHaltOut, TrbCtrlOut, OutTypes, TypeOK, host
  <2>2. eproto' \in BOOLEAN /\ failed' \in BOOLEAN /\ stalled' \in BOOLEAN
    BY <1>5, TakenTypes DEF UsbdRefuses, SetHaltOut, TrbCtrlOut, OutTypes, TypeOK, host
  <2>3. /\ outReq' \in Requests /\ setup' \in Requests /\ stage' \in Stages
        /\ devAddr' \in Addresses \cup {Default}
        /\ hostReq' \in Requests /\ hostStage' \in {"idle", "setup", "data", "status"}
        /\ hostAddr' \in Addresses \cup {Default, None}
    BY <1>5, TakenTypes DEF UsbdRefuses, SetHaltOut, TrbCtrlOut, OutTypes, TypeOK, host
  <2>4. evts' \in Seq(EventKinds) /\ msgs' \in Seq(Messages)
    BY <1>5, TakenTypes DEF UsbdRefuses, SetHaltOut, TrbCtrlOut, OutTypes, TypeOK, host
  <2> QED
    BY <2>1, <2>2, <2>3, <2>4 DEF TypeOK
<1>6. CASE UsbdStatus
  <2>1. /\ outBuf' \in BOOLEAN /\ outOwned' \in BOOLEAN /\ outTrb' \in OutTypes
        /\ inBuf' \in BOOLEAN /\ inOwned' \in BOOLEAN /\ inTrb' \in InTypes
    BY <1>6, TakenTypes DEF UsbdStatus, SetAddress, TypeOK, in, out, host
  <2>2. eproto' \in BOOLEAN /\ failed' \in BOOLEAN /\ stalled' \in BOOLEAN
    BY <1>6, TakenTypes DEF UsbdStatus, SetAddress, TypeOK, in, out, host
  <2>3. /\ outReq' \in Requests /\ setup' \in Requests /\ stage' \in Stages
        /\ devAddr' \in Addresses \cup {Default}
        /\ hostReq' \in Requests /\ hostStage' \in {"idle", "setup", "data", "status"}
        /\ hostAddr' \in Addresses \cup {Default, None}
    BY <1>6, TakenTypes DEF UsbdStatus, SetAddress, TypeOK, in, out, host
  <2>4. evts' \in Seq(EventKinds) /\ msgs' \in Seq(Messages)
    BY <1>6, TakenTypes DEF UsbdStatus, SetAddress, TypeOK, in, out, host
  <2> QED
    BY <2>1, <2>2, <2>3, <2>4 DEF TypeOK
<1>7. CASE UsbdReset
  <2>1. /\ outBuf' \in BOOLEAN /\ outOwned' \in BOOLEAN /\ outTrb' \in OutTypes
        /\ inBuf' \in BOOLEAN /\ inOwned' \in BOOLEAN /\ inTrb' \in InTypes
    BY <1>7, TakenTypes DEF UsbdReset, SetAddress, TypeOK, in, out, host
  <2>2. eproto' \in BOOLEAN /\ failed' \in BOOLEAN /\ stalled' \in BOOLEAN
    BY <1>7, TakenTypes DEF UsbdReset, SetAddress, TypeOK, in, out, host
  <2>3. /\ outReq' \in Requests /\ setup' \in Requests /\ stage' \in Stages
        /\ devAddr' \in Addresses \cup {Default}
        /\ hostReq' \in Requests /\ hostStage' \in {"idle", "setup", "data", "status"}
        /\ hostAddr' \in Addresses \cup {Default, None}
    BY <1>7, TakenTypes DEF UsbdReset, SetAddress, TypeOK, in, out, host
  <2>4. evts' \in Seq(EventKinds) /\ msgs' \in Seq(Messages)
    BY <1>7, TakenTypes DEF UsbdReset, SetAddress, TypeOK, in, out, host
  <2> QED
    BY <2>1, <2>2, <2>3, <2>4 DEF TypeOK
<1>8. CASE Hw
  <2>1. Empty \in Requests /\ hostReq \in Requests /\ hostReq.setup \in Addresses \cup {None}
    BY RequestTypes DEF TypeOK
  <2>2. evts' = Append(evts, "out") \/ evts' = Append(evts, "in") => evts' \in Seq(EventKinds)
    BY RaisedTypes
  <2>3. CASE HwSetup
    BY <2>1, <2>2, <2>3 DEF HwSetup, HwOut, TypeOK, in
  <2>4. CASE HwDataOut
    BY <2>1, <2>2, <2>4 DEF HwDataOut, HwOut, TypeOK, in
  <2>5. CASE HwDataIn
    BY <2>1, <2>2, <2>5 DEF HwDataIn, HwIn, TypeOK, out
  <2>6. CASE HwStatusOut
    BY <2>1, <2>2, <2>6 DEF HwStatusOut, HostDone, HwOut, TypeOK, in
  <2>7. CASE HwStatusIn
    BY <2>1, <2>2, <2>7 DEF HwStatusIn, HostDone, HwIn, TypeOK, out
  <2>8. CASE HwSetupPending
    <3>1. CASE HwOut /\ outReq' = Empty /\ UNCHANGED stalled
      BY <2>1, <2>2, <2>8, <3>1 DEF HwSetupPending, HwOut, TypeOK, in, host
    <3>2. CASE HwIn
      BY <2>1, <2>2, <2>8, <3>2 DEF HwSetupPending, HwIn, TypeOK, out, host
    <3> QED
      BY <2>8, <3>1, <3>2 DEF HwSetupPending
  <2>9. CASE HwStall
    BY <2>9 DEF HwStall, TypeOK, in, out
  <2> QED
    BY <1>8, <2>3, <2>4, <2>5, <2>6, <2>7, <2>8, <2>9 DEF Hw
<1>9. CASE Host
  <2>1. CASE \E r \in Requests : HostSetup(r)
    BY <2>1 DEF HostSetup, TypeOK, in, out
  <2>2. CASE HostGivesUp
    BY <2>2 DEF HostGivesUp, TypeOK, in, out
  <2>3. CASE HostReset
    BY <2>3, RaisedTypes DEF HostReset, TypeOK, in, out
  <2> QED
    BY <1>9, <2>1, <2>2, <2>3 DEF Host
<1>10. CASE UNCHANGED vars
  BY <1>10 DEF TypeOK, vars, in, out, host
<1> QED
  BY <1>1, <1>2, <1>3, <1>4, <1>5, <1>6, <1>7, <1>8, <1>9, <1>10 DEF Next, Worker, Usbd

LEMMA InitialTypes == Init => TypeOK
<1> SUFFICES ASSUME Init PROVE TypeOK
  OBVIOUS
<1>1. evts \in Seq({"out", "in", "reset"}) /\ msgs \in Seq(Messages)
  BY EmptySeq DEF Init
<1>2. Empty \in Requests
  BY RequestTypes
<1> QED
  BY <1>1, <1>2 DEF Init, TypeOK, OutTypes, InTypes, Stages

\* Every variable keeps its type, whatever the host sends and whenever it
\* resets the bus: the stages of udc_dwc3.c and its TRB types never leave
\* their enumerations.
THEOREM ControlTypeCorrect == Spec => []TypeOK
<1>1. Init => TypeOK
  BY InitialTypes
<1> QED
  BY <1>1, TypesKept, PTL DEF Spec

-----------------------------------------------------------------------------
(* One owner *)

\* OneOwner in the terms of the queues, and no assertion has failed: the
\* controller owns a TRB, or its event waits, or usbd has a request, and each
\* of these excludes the others.  A buffer is there exactly when its TRB is at
\* work.  The stage plays no part in it.
OwnerInv ==
    /\ EvtOnce /\ MsgOnce
    /\ outBuf <=> outOwned \/ Raised("out")
    /\ inBuf <=> inOwned \/ Raised("in")
    /\ outOwned \/ inOwned \/ Raised("out") \/ Raised("in") \/ Asked
    /\ outOwned => ~inOwned /\ ~Raised("out") /\ ~Raised("in") /\ ~Asked
    /\ inOwned => ~Raised("out") /\ ~Raised("in") /\ ~Asked
    /\ Raised("out") \/ Raised("in") => ~Asked
    /\ ~(Raised("out") /\ Raised("in"))
    /\ ~failed

LEMMA EventsKept ==
    ASSUME evts' = evts
    PROVE  /\ EvtOnce' <=> EvtOnce
           /\ \A x : Raised(x)' <=> Raised(x)
           /\ \A x : Newest(x)' <=> Newest(x)
BY DEF EvtOnce, Raised, Newest

LEMMA MessagesKept ==
    ASSUME msgs' = msgs
    PROVE  (MsgOnce' <=> MsgOnce) /\ (Asked' <=> Asked) /\ Latest' = Latest
BY DEF MsgOnce, Asked, Latest

LEMMA OutOwnerKept == TypeOK /\ OwnerInv /\ OnCtrlOut => OwnerInv'
<1> SUFFICES ASSUME TypeOK, OwnerInv, OnCtrlOut PROVE OwnerInv'
  OBVIOUS
<1>1. /\ EvtOnce' /\ Raised("out") /\ ~Raised("out")' /\ ~Raised("in")'
      /\ outBuf /\ ~outOwned /\ ~inOwned /\ ~inBuf /\ ~Asked /\ MsgOnce
  BY TypeMessages, EventTaken DEF OwnerInv, OnCtrlOut, EventKinds
<1>2. /\ OnSetup \/ OnWriteData \/ OnReadStatus
      /\ inBuf' = inBuf /\ inOwned' = inOwned /\ ~failed'
  BY <1>1 DEF OnCtrlOut, OwnerInv, in
<1>3. /\ outReq \in Requests /\ setup \in Requests /\ msgs \in Seq(Messages)
  BY TypeMessages DEF TypeOK
<1>4. CASE OnSetup /\ OnWriteSetup
  BY <1>1, <1>2, <1>4, MessagesKept DEF OnWriteSetup, TrbCtrlOut, OwnerInv
<1>5. CASE OnSetup /\ HandSetupOver
  <2>1. MsgOnce' /\ Asked'
    BY <1>1, <1>3, <1>5, MessageSent, MessageTypes DEF OnSetup, HandSetupOver
  <2> QED
    BY <1>1, <1>2, <1>5, <2>1 DEF HandSetupOver, OwnerInv
<1>6. CASE OnWriteData
  <2>1. MsgOnce' /\ Asked'
    BY <1>1, <1>3, <1>6, MessageSent, MessageTypes DEF OnWriteData
  <2> QED
    BY <1>1, <1>2, <1>6, <2>1 DEF OnWriteData, OwnerInv
<1>7. CASE OnReadStatus
  <2>1. MsgOnce' /\ ~Asked'
    BY <1>1, <1>3, <1>7, MessageSent, MessageTypes DEF OnReadStatus
  <2> QED
    BY <1>1, <1>2, <1>7, <2>1 DEF OnReadStatus, TrbCtrlOut, OwnerInv
<1> QED
  BY <1>2, <1>4, <1>5, <1>6, <1>7 DEF OnSetup, OnReadSetup, OnNodataSetup

LEMMA InOwnerKept == TypeOK /\ OwnerInv /\ OnCtrlIn => OwnerInv'
<1> SUFFICES ASSUME TypeOK, OwnerInv, OnCtrlIn PROVE OwnerInv'
  OBVIOUS
<1>1. /\ EvtOnce' /\ Raised("in") /\ ~Raised("out")' /\ ~Raised("in")'
      /\ inBuf /\ ~outOwned /\ ~inOwned /\ ~outBuf /\ ~Asked /\ MsgOnce
  BY TypeMessages, EventTaken DEF OwnerInv, OnCtrlIn, EventKinds
<1>2. /\ OnReadData \/ OnWriteStatus \/ OnNodataStatus
      /\ ~inBuf' /\ inOwned' = inOwned /\ ~failed'
  BY <1>1 DEF OnCtrlIn
<1>3. setup \in Requests /\ msgs \in Seq(Messages)
  BY TypeMessages DEF TypeOK
<1>4. CASE OnReadData
  BY <1>1, <1>2, <1>4, MessagesKept DEF OnReadData, TrbCtrlOut, OwnerInv
<1>5. CASE OnWriteStatus \/ OnNodataStatus
  <2>1. MsgOnce' /\ ~Asked'
    BY <1>1, <1>3, <1>5, MessageSent, MessageTypes DEF OnWriteStatus, OnNodataStatus, OnStatusIn
  <2> QED
    BY <1>1, <1>2, <1>5, <2>1 DEF OnWriteStatus, OnNodataStatus, OnStatusIn, TrbCtrlOut, OwnerInv
<1> QED
  BY <1>2, <1>4, <1>5

LEMMA ResetOwnerKept == TypeOK /\ OwnerInv /\ OnUsbReset => OwnerInv'
<1> SUFFICES ASSUME TypeOK, OwnerInv, OnUsbReset PROVE OwnerInv'
  OBVIOUS
<1>1. EvtOnce' /\ (Raised("out")' <=> Raised("out")) /\ (Raised("in")' <=> Raised("in"))
  BY TypeMessages, EventTaken DEF OwnerInv, OnUsbReset, EventKinds
<1>2. MsgOnce' /\ (Asked' <=> Asked)
  BY TypeMessages, MessageSent, MessageTypes DEF OwnerInv, OnUsbReset
<1> QED
  BY <1>1, <1>2 DEF OnUsbReset, OwnerInv, out, in

LEMMA UsbdOwnerKept == TypeOK /\ OwnerInv /\ Usbd => OwnerInv'
<1> SUFFICES ASSUME TypeOK, OwnerInv, Usbd PROVE OwnerInv'
  OBVIOUS
<1>1. msgs \in Seq(Messages) /\ MsgOnce
  BY TypeMessages DEF OwnerInv
<1>2. CASE UsbdAccepts
  <2>1. MsgOnce' /\ Asked /\ ~Asked'
    BY <1>1, <1>2, MessageTaken DEF UsbdAccepts
  <2>2. EvtOnce' /\ (Raised("out")' <=> Raised("out")) /\ (Raised("in")' <=> Raised("in"))
    BY <1>2, EventsKept DEF UsbdAccepts, OwnerInv
  <2> QED
    BY <1>2, <2>1, <2>2 DEF UsbdAccepts, TrbCtrlIn, OwnerInv, out
<1>3. CASE UsbdRefuses
  <2>1. MsgOnce' /\ Asked /\ ~Asked'
    BY <1>1, <1>3, MessageTaken DEF UsbdRefuses
  <2>2. EvtOnce' /\ (Raised("out")' <=> Raised("out")) /\ (Raised("in")' <=> Raised("in"))
    BY <1>3, EventsKept DEF UsbdRefuses, OwnerInv
  <2> QED
    BY <1>3, <2>1, <2>2 DEF UsbdRefuses, SetHaltOut, TrbCtrlOut, OwnerInv
<1>4. CASE UsbdStatus \/ UsbdReset
  <2>1. MsgOnce' /\ (Asked' <=> Asked)
    BY <1>1, <1>4, MessageTaken DEF UsbdStatus, UsbdReset
  <2>2. EvtOnce' /\ (Raised("out")' <=> Raised("out")) /\ (Raised("in")' <=> Raised("in"))
    BY <1>4, EventsKept DEF UsbdStatus, UsbdReset, OwnerInv
  <2> QED
    BY <1>4, <2>1, <2>2 DEF UsbdStatus, UsbdReset, OwnerInv, out, in
<1> QED
  BY <1>2, <1>3, <1>4 DEF Usbd

LEMMA HwOutOwnerKept ==
    ASSUME TypeOK, OwnerInv, HwOut PROVE OwnerInv'
<1>1. EvtOnce' /\ Raised("out")' /\ ~Raised("in")'
  BY TypeMessages, EventRaised DEF OwnerInv, HwOut, EventKinds
<1>2. MsgOnce' /\ ~Asked'
  BY MessagesKept DEF OwnerInv, HwOut
<1> QED
  BY <1>1, <1>2 DEF OwnerInv, HwOut, in

LEMMA HwInOwnerKept ==
    ASSUME TypeOK, OwnerInv, HwIn PROVE OwnerInv'
<1>1. EvtOnce' /\ Raised("in")' /\ ~Raised("out")'
  BY TypeMessages, EventRaised DEF OwnerInv, HwIn, EventKinds
<1>2. MsgOnce' /\ ~Asked'
  BY MessagesKept DEF OwnerInv, HwIn
<1> QED
  BY <1>1, <1>2 DEF OwnerInv, HwIn, out

LEMMA RestOwnerKept ==
    ASSUME OwnerInv, UNCHANGED <<out, in, evts, msgs, failed>> PROVE OwnerInv'
BY EventsKept, MessagesKept DEF OwnerInv, out, in

LEMMA HostOwnerKept == TypeOK /\ OwnerInv /\ HostReset => OwnerInv'
<1> SUFFICES ASSUME TypeOK, OwnerInv, HostReset PROVE OwnerInv'
  OBVIOUS
<1>1. EvtOnce' /\ (Raised("out")' <=> Raised("out")) /\ (Raised("in")' <=> Raised("in"))
  BY TypeMessages, EventRaised DEF OwnerInv, HostReset, EventKinds
<1>2. MsgOnce' /\ (Asked' <=> Asked)
  BY MessagesKept DEF OwnerInv, HostReset
<1> QED
  BY <1>1, <1>2 DEF HostReset, OwnerInv, out, in

LEMMA OwnerKept == TypeOK /\ OwnerInv /\ [Next]_vars => OwnerInv'
<1> SUFFICES ASSUME TypeOK, OwnerInv, [Next]_vars PROVE OwnerInv'
  OBVIOUS
<1>1. CASE Hw
  <2>1. HwOut \/ HwIn \/ HwStall
    BY <1>1 DEF Hw, HwSetup, HwDataOut, HwDataIn, HwStatusOut, HwStatusIn, HwSetupPending
  <2> QED
    BY <2>1, HwOutOwnerKept, HwInOwnerKept, RestOwnerKept DEF HwStall
<1>2. CASE (\E r \in Requests : HostSetup(r)) \/ HostGivesUp \/ UNCHANGED vars
  BY <1>2, RestOwnerKept DEF HostSetup, HostGivesUp, vars
<1> QED
  BY <1>1, <1>2, OutOwnerKept, InOwnerKept, ResetOwnerKept, UsbdOwnerKept, HostOwnerKept
     DEF Next, Worker, Host

LEMMA OwnerAlways == Spec => [](TypeOK /\ OwnerInv)
<1>1. Init => OwnerInv
  BY DEF Init, OwnerInv, EvtOnce, MsgOnce, Raised, Asked
<1> QED
  BY <1>1, InitialTypes, TypesKept, OwnerKept, PTL DEF Spec

\* dwc3_on_ctrl_out() finds a buffer whenever the OUT TRB completes, and
\* dwc3_trb_ctrl_out() and dwc3_api_ep_enqueue() never find one left from
\* before, through every order of setup packets, stalls, given-up requests and
\* bus resets.
THEOREM NoAssertionFails == Spec => []AssertionsHold
<1>1. OwnerInv => AssertionsHold
  BY DEF OwnerInv, AssertionsHold
<1> QED
  BY <1>1, OwnerAlways, PTL

LEMMA OwnersOf ==
    ASSUME TypeOK
    PROVE  /\ \A x : x \in ToSet(evts) <=> Raised(x)
           /\ (\E m \in ToSet(msgs) : m.kind = "setup") <=> Asked
<1>1. Len(evts) \in Nat /\ DOMAIN evts = 1 .. Len(evts)
      /\ Len(msgs) \in Nat /\ DOMAIN msgs = 1 .. Len(msgs)
  BY TypeMessages
<1> QED
  BY <1>1 DEF ToSet, Raised, Asked

\* EP0 never stops and never runs two transfers: the controller owns one of its
\* two TRBs, or the worker has its event, or usbd has its request, and always
\* exactly one of them.
THEOREM OneOwnerAlways == Spec => []OneOwner
<1>1. TypeOK /\ OwnerInv => OneOwner
  <2> SUFFICES ASSUME TypeOK, OwnerInv PROVE OneOwner
    OBVIOUS
  <2>1. \A x : x \in Owners <=> \/ (x = "out" /\ Raised("out"))
                               \/ (x = "in" /\ Raised("in"))
                               \/ (x = "hw_out" /\ outOwned)
                               \/ (x = "hw_in" /\ inOwned)
                               \/ (x = "usbd" /\ Asked)
    <3>1. \A x : x \in {o \in {"out", "in"} : o \in ToSet(evts)}
                   <=> (x = "out" /\ Raised("out")) \/ (x = "in" /\ Raised("in"))
      BY OwnersOf
    <3>2. (\E m \in ToSet(msgs) : m.kind = "setup") <=> Asked
      BY OwnersOf
    <3>3. outOwned \in BOOLEAN /\ inOwned \in BOOLEAN
      BY DEF TypeOK
    <3> QED
      BY <3>1, <3>2, <3>3 DEF Owners
  <2>2. PICK o \in {"out", "in", "hw_out", "hw_in", "usbd"} : Owners = {o}
    <3>1. CASE Raised("out")
      <4>1. \A x : x \in Owners <=> x = "out"
        BY <2>1, <3>1 DEF OwnerInv
      <4> QED
        BY <4>1
    <3>2. CASE Raised("in")
      <4>1. \A x : x \in Owners <=> x = "in"
        BY <2>1, <3>2 DEF OwnerInv
      <4> QED
        BY <4>1
    <3>3. CASE outOwned
      <4>1. \A x : x \in Owners <=> x = "hw_out"
        BY <2>1, <3>3 DEF OwnerInv
      <4> QED
        BY <4>1
    <3>4. CASE inOwned
      <4>1. \A x : x \in Owners <=> x = "hw_in"
        BY <2>1, <3>4 DEF OwnerInv
      <4> QED
        BY <4>1
    <3>5. CASE Asked
      <4>1. \A x : x \in Owners <=> x = "usbd"
        BY <2>1, <3>5 DEF OwnerInv
      <4> QED
        BY <4>1
    <3> QED
      BY <3>1, <3>2, <3>3, <3>4, <3>5 DEF OwnerInv
  <2>3. Cardinality(Owners) = 1
    BY <2>2, FS_Singleton
  <2>4. outBuf <=> Owners \subseteq {"out", "hw_out"}
    BY <2>1, <2>2 DEF OwnerInv
  <2>5. inBuf <=> Owners \subseteq {"in", "hw_in"}
    BY <2>1, <2>2 DEF OwnerInv
  <2> QED
    BY <2>3, <2>4, <2>5 DEF OneOwner
<1> QED
  BY <1>1, OwnerAlways, PTL

-----------------------------------------------------------------------------
(* The address *)

\* A SET_ADDRESS that the worker has still to see, and one whose status stage
\* the host waits for.
Announced == Raised("out") /\ outTrb = "setup" /\ outReq.setup # None
Moving    == hostStage = "status" /\ hostReq.setup # None

\* usbd can refuse no request that waits: it only has a SET_ADDRESS to answer.
NoneRefusable ==
    \A i \in 1 .. Len(msgs) : msgs[i].kind = "setup" => msgs[i].req.setup # None

\* The worker has set the address that the host gave, and its status comes.
Made ==
    /\ ~Raised("reset") /\ devAddr = hostReq.setup
    /\ inOwned \/ Asked
    /\ NoneRefusable

\* AddressAgrees holds because a SET_ADDRESS whose status is awaited is the
\* newest event of the ring or has been acted on, and the newest setup packet
\* with an address is that of the host's current request, or the host gave it
\* up and knows no address before it resets the bus.
MovingInv    == Moving => (Announced /\ outReq = hostReq /\ Newest("out")) \/ Made
AnnouncedInv == Announced /\ Newest("out") => hostAddr = None \/ (Moving /\ hostReq = outReq)
ResetInv     ==
    /\ Raised("reset") => hostAddr \in {Default, None}
    /\ Newest("reset") => hostAddr = Default /\ hostStage \in {"idle", "setup"}
SettledInv   == hostAddr # None /\ ~Raised("reset") /\ ~Moving => devAddr = hostAddr
HostInv      == (hostStage = "data" => hostReq.setup = None) /\ (stalled => ~Moving)

AddressInv == MovingInv /\ AnnouncedInv /\ ResetInv /\ SettledInv /\ HostInv

LEMMA NewestRaised == TypeOK => \A e : Newest(e) => Raised(e)
<1>1. TypeOK /\ evts # <<>> => Len(evts) \in 1 .. Len(evts)
  BY TypeMessages, EmptySeq
<1> QED
  BY <1>1 DEF Newest, Raised

LEMMA RefusableKept ==
    /\ msgs' = msgs => (NoneRefusable' <=> NoneRefusable)
    /\ ~Asked => NoneRefusable
BY DEF NoneRefusable, Asked

LEMMA RefusableSent ==
    ASSUME TypeOK, NoneRefusable, NEW m \in Messages, msgs' = Append(msgs, m),
           m.kind # "setup" \/ m.req.setup # None
    PROVE  NoneRefusable'
BY TypeMessages, MessageSent DEF NoneRefusable

LEMMA OutAddressKept ==
    ASSUME TypeOK, OwnerInv, AddressInv, OnCtrlOut, Lookalikes = {}
    PROVE  AddressInv'
<1> USE DEF AddressInv
<1>1. /\ Raised("out") /\ \A x : ~(x = "out" /\ Raised(x)')
      /\ Raised("reset")' <=> Raised("reset")
      /\ Newest("reset")' => Newest("reset")
      /\ Newest("out") => ~Raised("reset")
      /\ Newest("out") \/ Raised("reset")
      /\ outBuf /\ ~Asked /\ ~inOwned
  BY TypeMessages, EventTaken, NewestRaised DEF OwnerInv, OnCtrlOut, EventKinds
<1>2. ~Raised("out")'
  BY <1>1
<1>3. /\ devAddr' = AddressSetEarly /\ (OnSetup \/ OnWriteData \/ OnReadStatus)
      /\ UNCHANGED <<outReq, stalled, hostReq, hostStage, hostAddr, inOwned>>
  BY <1>1 DEF OnCtrlOut, host, in
<1>4. Spelt = IF outTrb = "setup" THEN outReq.setup ELSE None
  BY RequestTypes DEF Spelt, TypeOK, OutTypes
<1>5. Moving <=> Moving'
  BY <1>3 DEF Moving
<1>6. Moving => Announced /\ outReq = hostReq /\ ~Raised("reset")
  BY <1>1 DEF MovingInv, Made
<1>7. Announced /\ ~Raised("reset") => hostAddr = None \/ Moving
  BY <1>1 DEF AnnouncedInv
<1>8. ASSUME Announced PROVE Asked' /\ NoneRefusable' /\ devAddr' = outReq.setup
  <2>1. OnSetup /\ stage' = "no_data" /\ outReq.setup # None /\ outReq \in Requests
    BY <1>3, <1>8, RequestTypes DEF Announced, OnSetup, OnWriteData, OnReadStatus, StageAfterSetup, TypeOK
  <2>2. msgs' = Append(msgs, Msg("setup", outReq)) /\ Msg("setup", outReq) \in Messages
    BY <2>1, MessageTypes DEF OnSetup, OnWriteSetup, OnReadSetup, OnNodataSetup, HandSetupOver
  <2>3. Asked' /\ NoneRefusable'
    BY <1>1, <2>1, <2>2, RefusableKept, RefusableSent, MessageSent, MessageTypes, TypeMessages
  <2> QED
    BY <1>3, <1>4, <1>8, <2>3 DEF Announced, AddressSetEarly
<1>9. ~Announced => devAddr' = devAddr
  BY <1>1, <1>3, <1>4 DEF Announced, AddressSetEarly
<1>10. MovingInv'
  BY <1>1, <1>3, <1>5, <1>6, <1>8 DEF MovingInv, Made
<1>11. AnnouncedInv'
  BY <1>2 DEF AnnouncedInv, Announced
<1>12. ResetInv'
  BY <1>1, <1>3 DEF ResetInv
<1>13. SettledInv'
  BY <1>1, <1>3, <1>5, <1>7, <1>9 DEF SettledInv
<1>14. HostInv'
  BY <1>3, <1>5 DEF HostInv
<1> QED
  BY <1>10, <1>11, <1>12, <1>13, <1>14

LEMMA InAddressKept ==
    ASSUME TypeOK, OwnerInv, AddressInv, OnCtrlIn
    PROVE  AddressInv'
<1>1. /\ Raised("in") /\ ~Raised("out")'
      /\ Raised("reset")' <=> Raised("reset")
      /\ Newest("reset")' => Newest("reset")
      /\ ~Asked /\ ~inOwned /\ ~Raised("out")
  BY TypeMessages, EventTaken DEF OwnerInv, OnCtrlIn, EventKinds
<1>2. UNCHANGED <<devAddr, stalled, hostReq, hostStage, hostAddr>>
  BY DEF OnCtrlIn, host
<1>3. ~Moving
  BY <1>1 DEF AddressInv, MovingInv, Announced, Made
<1> QED
  BY <1>1, <1>2, <1>3 DEF AddressInv, MovingInv, AnnouncedInv, ResetInv, SettledInv, HostInv,
                          Moving, Announced

LEMMA ResetAddressKept ==
    ASSUME TypeOK, OwnerInv, AddressInv, OnUsbReset
    PROVE  AddressInv'
<1>1. /\ Raised("reset") /\ (Raised("out")' <=> Raised("out"))
      /\ Newest("out") => Newest("out")'
      /\ Newest("out")' => Newest("out")
      /\ Newest("reset")' => Newest("reset")
  BY TypeMessages, EventTaken DEF OwnerInv, OnUsbReset, EventKinds
<1>2. /\ UNCHANGED <<outTrb, outReq, stalled, hostReq, hostStage, hostAddr>>
      /\ devAddr' = Default
  BY DEF OnUsbReset, ResetAddress, host, out
<1> QED
  BY <1>1, <1>2 DEF AddressInv, MovingInv, AnnouncedInv, ResetInv, SettledInv, HostInv,
                    Moving, Announced, Made

LEMMA UsbdAddressKept ==
    ASSUME TypeOK, OwnerInv, AddressInv, Usbd
    PROVE  AddressInv'
<1>1. /\ UNCHANGED <<evts, outReq, devAddr, hostReq, hostStage, hostAddr>>
      /\ msgs \in Seq(Messages) /\ MsgOnce
  BY TypeMessages DEF Usbd, UsbdAccepts, UsbdRefuses, UsbdStatus, UsbdReset, out, host, OwnerInv
<1>2. /\ \A x : (Raised(x)' <=> Raised(x)) /\ (Newest(x)' <=> Newest(x))
      /\ Moving' <=> Moving
  BY <1>1, EventsKept DEF Moving
<1>3. CASE UsbdAccepts
  <2>1. Asked /\ ~Asked' /\ inOwned' /\ stalled' = stalled
    BY <1>1, <1>3, MessageTaken DEF UsbdAccepts, TrbCtrlIn
  <2>2. ~Raised("out") /\ ~Raised("out")' /\ NoneRefusable'
    BY <1>2, <2>1 DEF OwnerInv, NoneRefusable, Asked
  <2> QED
    BY <1>1, <1>2, <2>1, <2>2 DEF AddressInv, MovingInv, AnnouncedInv, ResetInv, SettledInv,
                                  HostInv, Announced, Made
<1>4. CASE UsbdRefuses
  <2>1. Asked /\ ~NoneRefusable
    BY <1>1, <1>4, MessageTaken DEF UsbdRefuses, NoneRefusable, Message
  <2>2. ~Raised("out") /\ ~Raised("out")'
    BY <1>2, <2>1 DEF OwnerInv
  <2>3. ~Moving
    BY <2>1, <2>2 DEF AddressInv, MovingInv, Announced, Made
  <2> QED
    BY <1>1, <1>2, <2>2, <2>3 DEF AddressInv, MovingInv, AnnouncedInv, ResetInv, SettledInv,
                                  HostInv, Announced
<1>5. CASE UsbdStatus \/ UsbdReset
  <2>1. /\ (Asked' <=> Asked) /\ stalled' = stalled /\ outTrb' = outTrb /\ inOwned' = inOwned
    BY <1>1, <1>5, MessageTaken DEF UsbdStatus, UsbdReset, out, in
  <2>2. \A i \in 1 .. Len(msgs') : i + 1 \in 1 .. Len(msgs) /\ msgs'[i] = msgs[i + 1]
    BY <1>1, <1>5, MessageTaken DEF UsbdStatus, UsbdReset
  <2>3. NoneRefusable => NoneRefusable'
    BY <2>2 DEF NoneRefusable
  <2> QED
    BY <1>1, <1>2, <2>1, <2>3 DEF AddressInv, MovingInv, AnnouncedInv, ResetInv, SettledInv,
                                  HostInv, Announced, Made
<1> QED
  BY <1>3, <1>4, <1>5 DEF Usbd

\* What the controller's end of a transfer does to the queues.
LEMMA HwOutQueues ==
    ASSUME TypeOK, OwnerInv, HwOut
    PROVE  /\ Raised("out")' /\ ~Raised("out") /\ Newest("out")' /\ ~Newest("reset")'
           /\ Raised("reset")' <=> Raised("reset")
           /\ ~Asked /\ ~inOwned
           /\ outTrb' = outTrb /\ devAddr' = devAddr
BY TypeMessages, EventRaised DEF OwnerInv, HwOut, EventKinds

LEMMA HwInQueues ==
    ASSUME TypeOK, OwnerInv, HwIn
    PROVE  /\ ~Raised("out") /\ ~Raised("out")' /\ ~Newest("reset")'
           /\ Raised("reset")' <=> Raised("reset")
           /\ ~Asked /\ UNCHANGED <<devAddr, stalled>>
BY TypeMessages, EventRaised DEF OwnerInv, HwIn, EventKinds

LEMMA SetupAddressKept ==
    ASSUME TypeOK, OwnerInv, AddressInv, HwSetup
    PROVE  AddressInv'
<1>1. hostReq \in Requests
  BY DEF TypeOK
<1>2. hostReq.setup # None => hostReq.dir = "none"
  BY <1>1, RequestTypes
<1>3. ~Moving /\ hostStage' = (IF hostReq.dir = "none" THEN "status" ELSE "data")
  BY DEF HwSetup, Moving
<1> QED
  BY <1>2, <1>3, HwOutQueues DEF HwSetup, AddressInv, MovingInv, AnnouncedInv, ResetInv, SettledInv, HostInv,
                                 Moving, Announced, Made

LEMMA DataOutAddressKept ==
    ASSUME TypeOK, OwnerInv, AddressInv, HwDataOut
    PROVE  AddressInv'
<1>1. hostReq.setup = None
  BY DEF HwDataOut, AddressInv, HostInv
<1> QED
  BY <1>1, HwOutQueues DEF HwDataOut, AddressInv, MovingInv, AnnouncedInv, ResetInv, SettledInv, HostInv,
                            Moving, Announced, Made

LEMMA DataInAddressKept ==
    ASSUME TypeOK, OwnerInv, AddressInv, HwDataIn
    PROVE  AddressInv'
<1>1. hostReq.setup = None
  BY DEF HwDataIn, AddressInv, HostInv
<1> QED
  BY <1>1, HwInQueues DEF HwDataIn, AddressInv, MovingInv, AnnouncedInv, ResetInv, SettledInv, HostInv,
                            Moving, Announced, Made

LEMMA StatusOutAddressKept ==
    ASSUME TypeOK, OwnerInv, AddressInv, HwStatusOut
    PROVE  AddressInv'
<1>1. hostReq.setup = None
  BY RequestTypes DEF HwStatusOut, TypeOK
<1> QED
  BY <1>1, HwOutQueues DEF HwStatusOut, HostDone, AddressInv, MovingInv, AnnouncedInv, ResetInv, SettledInv, HostInv,
                            Moving, Announced, Made

LEMMA StatusInAddressKept ==
    ASSUME TypeOK, OwnerInv, AddressInv, HwStatusIn
    PROVE  AddressInv'
<1>1. /\ hostStage = "status" /\ hostStage' = "idle" /\ hostReq' = hostReq
      /\ hostAddr' = IF hostReq.setup = None THEN hostAddr ELSE hostReq.setup
      /\ HwIn
  BY DEF HwStatusIn, HostDone
<1>2. Moving => Made
  BY <1>1, HwInQueues DEF AddressInv, MovingInv, Announced
<1> QED
  BY <1>1, <1>2, HwInQueues DEF AddressInv, MovingInv, AnnouncedInv, ResetInv, SettledInv, HostInv,
                              Moving, Announced, Made

LEMMA PendingAddressKept ==
    ASSUME TypeOK, OwnerInv, AddressInv, HwSetupPending
    PROVE  AddressInv'
<1>1. ~Moving /\ UNCHANGED <<hostReq, hostStage, hostAddr>>
  BY DEF HwSetupPending, Moving, host
<1>2. CASE HwOut /\ outTrb # "setup" /\ UNCHANGED stalled
  BY <1>1, <1>2, HwOutQueues DEF AddressInv, MovingInv, AnnouncedInv, ResetInv, SettledInv, HostInv,
                                 Moving, Announced, Made
<1>3. CASE HwIn
  BY <1>1, <1>3, HwInQueues DEF AddressInv, MovingInv, AnnouncedInv, ResetInv, SettledInv, HostInv,
                                 Moving, Announced, Made
<1> QED
  BY <1>2, <1>3 DEF HwSetupPending

\* Steps that leave the queues, the device's address and the OUT endpoint.
LEMMA QueuesKept ==
    ASSUME UNCHANGED <<out, in, outReq, evts, msgs, devAddr>>
    PROVE  /\ \A x : (Raised(x)' <=> Raised(x)) /\ (Newest(x)' <=> Newest(x))
           /\ (Asked' <=> Asked) /\ (NoneRefusable' <=> NoneRefusable)
           /\ (Announced' <=> Announced)
           /\ UNCHANGED <<outReq, devAddr, inOwned>>
BY EventsKept, MessagesKept, RefusableKept DEF out, in, Announced

LEMMA StallAddressKept ==
    ASSUME TypeOK, OwnerInv, AddressInv, HwStall
    PROVE  AddressInv'
<1>1. UNCHANGED <<out, in, outReq, evts, msgs, devAddr, hostReq, hostAddr, stalled>>
      /\ ~Moving /\ hostStage' = "idle"
  BY DEF HwStall, AddressInv, HostInv
<1> QED
  BY <1>1, QueuesKept DEF AddressInv, MovingInv, AnnouncedInv, ResetInv, SettledInv, HostInv, Moving

LEMMA HostSetupAddressKept ==
    ASSUME TypeOK, OwnerInv, AddressInv, NEW r, HostSetup(r)
    PROVE  AddressInv'
<1>1. UNCHANGED <<out, in, outReq, evts, msgs, devAddr, hostAddr, stalled>>
      /\ ~Moving /\ hostAddr # None /\ hostStage = "idle" /\ hostStage' = "setup"
  BY DEF HostSetup, Moving
<1> QED
  BY <1>1, QueuesKept DEF AddressInv, MovingInv, AnnouncedInv, ResetInv, SettledInv, HostInv, Moving

LEMMA GivesUpAddressKept ==
    ASSUME TypeOK, OwnerInv, AddressInv, HostGivesUp
    PROVE  AddressInv'
<1>1. UNCHANGED <<out, in, outReq, evts, msgs, devAddr, hostReq, stalled>>
      /\ hostStage \in {"data", "status"} /\ hostStage' = "idle"
      /\ hostAddr' = IF hostReq.setup = None THEN hostAddr ELSE None
  BY DEF HostGivesUp
<1> QED
  BY <1>1, QueuesKept DEF AddressInv, MovingInv, AnnouncedInv, ResetInv, SettledInv, HostInv, Moving

LEMMA HostResetAddressKept ==
    ASSUME TypeOK, OwnerInv, AddressInv, HostReset
    PROVE  AddressInv'
<1>1. UNCHANGED <<outReq, devAddr, stalled, msgs, hostReq>> /\ hostStage' = "idle" /\ hostAddr' = Default
  BY DEF HostReset
<1>2. Raised("reset")' /\ ~Newest("out")'
  BY TypeMessages, EventRaised DEF HostReset, EventKinds
<1> QED
  BY <1>1, <1>2 DEF AddressInv, MovingInv, AnnouncedInv, ResetInv, SettledInv, HostInv, Moving

LEMMA AddressKept ==
    ASSUME Lookalikes = {}
    PROVE  TypeOK /\ OwnerInv /\ AddressInv /\ [Next]_vars => AddressInv'
<1> SUFFICES ASSUME TypeOK, OwnerInv, AddressInv, [Next]_vars PROVE AddressInv'
  OBVIOUS
<1>1. CASE Worker
  BY <1>1, OutAddressKept, InAddressKept, ResetAddressKept DEF Worker
<1>2. CASE Usbd
  BY <1>2, UsbdAddressKept
<1>3. CASE Hw
  BY <1>3, SetupAddressKept, DataOutAddressKept, DataInAddressKept, StatusOutAddressKept,
     StatusInAddressKept, PendingAddressKept, StallAddressKept DEF Hw
<1>4. CASE Host
  BY <1>4, HostSetupAddressKept, GivesUpAddressKept, HostResetAddressKept DEF Host
<1>5. CASE UNCHANGED vars
  <2>1. UNCHANGED <<out, in, outReq, evts, msgs, devAddr, host, stalled>>
    BY <1>5 DEF vars
  <2> QED
    BY <2>1, QueuesKept DEF AddressInv, MovingInv, AnnouncedInv, ResetInv, SettledInv, HostInv,
                            Moving, Made, host
<1> QED
  BY <1>1, <1>2, <1>3, <1>4, <1>5 DEF Next

\* The address that the device answers at is the one the host believes, unless
\* a SET_ADDRESS or a bus reset is on its way, for every interleaving of the
\* worker, usbd, the controller and a host that gives requests up; provided
\* that the data of no other request begins like a SET_ADDRESS, which
\* dwc3_on_ctrl_out() would take for one.
THEOREM AddressAgreesAlways ==
    ASSUME Lookalikes = {}
    PROVE  Spec => []AddressAgrees
<1>1. Init => AddressInv
  <2>1. Init => ~Raised("out") /\ ~Raised("reset") /\ ~Newest("out") /\ ~Newest("reset") /\ ~Moving
    BY DEF Init, Raised, Newest, Moving
  <2> QED
    BY <2>1 DEF Init, AddressInv, MovingInv, AnnouncedInv, ResetInv, SettledInv, HostInv
<1>2. TypeOK /\ AddressInv => AddressAgrees
  BY OwnersOf DEF AddressInv, SettledInv, Moving, AddressAgrees
<1> QED
  BY <1>1, <1>2, AddressKept, OwnerAlways, PTL DEF Spec

-----------------------------------------------------------------------------
(* What usbd is told *)

\* Messages stand in the order of the transfers: behind a setup packet there
\* are only bus resets, and while usbd's answer is on its way no status waits.
QueueInv ==
    /\ \A i, j \in 1 .. Len(msgs) : msgs[i].kind = "setup" /\ i < j => msgs[j].kind = "reset"
    /\ inBuf => \A i \in 1 .. Len(msgs) : msgs[i].kind # "status"

\* The setup packet in udc_data is that of the transfer under way: it has no
\* address while data moves, and it is the one that usbd has to answer.
PhaseInv ==
    /\ outTrb # "setup" => setup.setup = None
    /\ inBuf /\ inTrb = "data" => setup.setup = None
    /\ \A i \in 1 .. Len(msgs) : msgs[i].kind = "setup" => msgs[i].req = setup

\* A SET_ADDRESS the worker read after it sent the i-th message.
Overtaken(i) ==
    setup.setup # None /\ \E j \in 1 .. Len(msgs) : i < j /\ msgs[j].kind = "setup"

SetupPends  == setup.setup # None /\ (Asked \/ inBuf)
StatusPends == \E i \in 1 .. Len(msgs) : msgs[i].kind = "status" /\ msgs[i].req.setup # None

ResetReport  == \A i \in 1 .. Len(msgs) :
    msgs[i].kind = "reset" => devAddr = Default \/ Overtaken(i)
StatusReport == \A i \in 1 .. Len(msgs) :
    msgs[i].kind = "status" /\ msgs[i].req.setup # None
    => devAddr \in {msgs[i].req.setup, Default} \/ Overtaken(i)

\* Each message of an address still tells DCFG's, but for a bus reset or a
\* later SET_ADDRESS, which has a message of its own behind it.
ReportInv ==
    /\ ResetReport /\ StatusReport
    /\ SetupPends => devAddr \in {setup.setup, Default}
    /\ eproto /\ devAddr # Default => SetupPends \/ StatusPends

TellInv == QueueInv /\ PhaseInv /\ ReportInv

\* The lemma's hypothesis is all that most actions do to these variables.
LEMMA TellUntouched ==
    ASSUME TellInv, UNCHANGED <<outTrb, inBuf, inTrb, setup, msgs, devAddr, eproto>>
    PROVE  TellInv'
BY MessagesKept DEF TellInv, QueueInv, PhaseInv, ReportInv, Overtaken, SetupPends, StatusPends,
                    ResetReport, StatusReport

\* The worker sends a message when usbd has nothing to answer.
LEMMA TellSent ==
    ASSUME TypeOK, TellInv, NEW m \in Messages, msgs' = Append(msgs, m),
           ~Asked \/ m.kind = "reset",
           ~inBuf' \/ (inBuf /\ UNCHANGED <<inTrb, setup>> /\ m.kind = "reset"),
           m.kind = "setup" => m.req = setup',
           Asked => setup' = setup,
           outTrb' # "setup" => setup'.setup = None,
           eproto' = eproto,
           \/ devAddr' = Default
           \/ devAddr' = devAddr /\ m.kind = "status"
               /\ (m.req.setup # None => devAddr \in {m.req.setup, Default})
               /\ (SetupPends => m.req.setup # None)
           \/ devAddr' = devAddr /\ m.kind = "setup" /\ m.req.setup = None /\ ~inBuf
           \/ devAddr' = m.req.setup /\ m.kind = "setup" /\ m.req.setup # None
    PROVE  TellInv'
<1>1. /\ Len(msgs') = Len(msgs) + 1 /\ Len(msgs) \in Nat
      /\ \A i \in 1 .. Len(msgs) : msgs'[i] = msgs[i]
      /\ msgs'[Len(msgs) + 1] = m
  BY TypeMessages, Appended
<1>2. \A i : i \in 1 .. Len(msgs') <=> i \in 1 .. Len(msgs) \/ i = Len(msgs) + 1
  BY <1>1
<1>3. m.kind \in {"setup", "status", "reset"}
  BY DEF Messages
<1>4. Asked' <=> Asked \/ m.kind = "setup"
  BY <1>1, <1>2 DEF Asked
<1>5. QueueInv'
  BY <1>1, <1>2, <1>3 DEF TellInv, QueueInv, Asked
<1>6. PhaseInv'
  BY <1>1, <1>2 DEF TellInv, PhaseInv, Asked
<1>7. ~Asked => \A i : ~Overtaken(i)
  BY DEF Overtaken, Asked
<1>8. m.kind = "setup" /\ m.req.setup # None => \A i \in 1 .. Len(msgs) : Overtaken(i)'
  BY <1>1, <1>2 DEF Overtaken
<1>9. ResetReport'
  BY <1>1, <1>2, <1>3, <1>7, <1>8 DEF TellInv, ReportInv, ResetReport
<1>10. StatusReport'
  BY <1>1, <1>2, <1>3, <1>7, <1>8 DEF TellInv, ReportInv, StatusReport
<1>11. SetupPends' => devAddr' \in {setup'.setup, Default}
  BY <1>3, <1>4 DEF SetupPends
<1>12. StatusPends \/ (m.kind = "status" /\ m.req.setup # None) => StatusPends'
  BY <1>1, <1>2 DEF StatusPends
<1>13. eproto' /\ devAddr' # Default => SetupPends' \/ StatusPends'
  BY <1>3, <1>4, <1>12 DEF TellInv, ReportInv, SetupPends
<1> QED
  BY <1>5, <1>6, <1>9, <1>10, <1>11, <1>13 DEF TellInv, ReportInv

LEMMA OutTellKept ==
    ASSUME TypeOK, OwnerInv, TellInv, OnCtrlOut, Lookalikes = {}
    PROVE  TellInv'
<1>1. /\ outBuf /\ ~Asked /\ ~inBuf
      /\ ~inBuf' /\ eproto' = eproto
  BY TypeMessages, EventTaken DEF OwnerInv, OnCtrlOut, EventKinds, in
<1>2. devAddr' = AddressSetEarly /\ (OnSetup \/ OnWriteData \/ OnReadStatus)
  BY <1>1 DEF OnCtrlOut
<1>3. outReq \in Requests /\ outReq.data = None /\ setup \in Requests
  BY RequestTypes DEF TypeOK
<1>4. outTrb # "setup" => devAddr' = devAddr /\ setup.setup = None
  BY <1>2, <1>3 DEF AddressSetEarly, Spelt, TellInv, PhaseInv
<1>5. outTrb = "setup" => devAddr' = IF outReq.setup = None THEN devAddr ELSE outReq.setup
  BY <1>2, <1>3 DEF AddressSetEarly, Spelt
<1>6. ~SetupPends
  BY <1>1 DEF SetupPends
<1>7. CASE OnSetup /\ OnWriteSetup
  <2>1. /\ msgs' = msgs /\ setup' = outReq /\ outTrb = "setup" /\ outTrb' = "data"
        /\ outReq.dir = "out"
    BY <1>3, <1>7, RequestTypes DEF OnSetup, OnWriteSetup, TrbCtrlOut, StageAfterSetup
  <2>2. devAddr' = devAddr /\ outReq.setup = None
    BY <1>3, <1>5, <2>1, RequestTypes
  <2>3. ~Asked' /\ \A i : ~Overtaken(i)
    BY <1>1, <2>1, MessagesKept DEF Overtaken, Asked
  <2> QED
    BY <1>1, <1>6, <2>1, <2>2, <2>3
       DEF TellInv, QueueInv, PhaseInv, ReportInv, SetupPends, StatusPends, ResetReport,
           StatusReport, Asked
<1>8. CASE OnSetup /\ HandSetupOver
  <2>1. /\ msgs' = Append(msgs, Msg("setup", outReq)) /\ setup' = outReq
        /\ outTrb = "setup" /\ outTrb' = "setup"
    BY <1>8 DEF OnSetup, HandSetupOver
  <2>2. \/ outReq.setup = None /\ devAddr' = devAddr
        \/ outReq.setup # None /\ devAddr' = outReq.setup
    BY <1>5, <2>1
  <2> DEFINE m == Msg("setup", outReq)
  <2>3. m \in Messages /\ m.kind = "setup" /\ m.req = outReq /\ msgs' = Append(msgs, m)
    BY <1>3, <2>1, MessageTypes
  <2> HIDE DEF m
  <2> QED
    BY <1>1, <2>1, <2>2, <2>3, TellSent
<1>9. CASE OnWriteData
  <2> DEFINE m == Msg("setup", setup)
  <2>1. m \in Messages /\ m.kind = "setup" /\ m.req = setup /\ msgs' = Append(msgs, m)
    BY <1>3, <1>9, MessageTypes DEF OnWriteData
  <2>2. setup' = setup /\ devAddr' = devAddr /\ setup.setup = None
    BY <1>4, <1>9 DEF OnWriteData
  <2> HIDE DEF m
  <2> QED
    BY <1>1, <2>1, <2>2, TellSent
<1>10. CASE OnReadStatus
  <2> DEFINE m == Msg("status", setup)
  <2>1. m \in Messages /\ m.kind = "status" /\ m.req = setup /\ msgs' = Append(msgs, m)
    BY <1>3, <1>10, MessageTypes DEF OnReadStatus
  <2>2. setup' = setup /\ devAddr' = devAddr /\ setup.setup = None /\ outTrb' = "setup"
    BY <1>4, <1>10 DEF OnReadStatus, TrbCtrlOut
  <2> HIDE DEF m
  <2> QED
    BY <1>1, <1>6, <2>1, <2>2, TellSent
<1> QED
  BY <1>2, <1>7, <1>8, <1>9, <1>10 DEF OnSetup, OnReadSetup, OnNodataSetup

LEMMA InTellKept ==
    ASSUME TypeOK, OwnerInv, TellInv, OnCtrlIn
    PROVE  TellInv'
<1>1. /\ inBuf /\ ~inBuf' /\ ~Asked /\ UNCHANGED <<setup, devAddr, eproto, inTrb>>
      /\ OnReadData \/ OnWriteStatus \/ OnNodataStatus
  BY TypeMessages, EventTaken DEF OwnerInv, OnCtrlIn, EventKinds
<1>2. setup \in Requests
  BY DEF TypeOK
<1>3. setup.setup # None => devAddr \in {setup.setup, Default}
  BY <1>1 DEF TellInv, ReportInv, SetupPends
<1>4. CASE OnReadData
  <2>1. msgs' = msgs /\ setup.setup = None
    BY <1>1, <1>4 DEF OnReadData, TellInv, PhaseInv
  <2> QED
    BY <1>1, <2>1, MessagesKept
       DEF TellInv, QueueInv, PhaseInv, ReportInv, SetupPends, StatusPends, ResetReport,
           StatusReport, Overtaken
<1>5. CASE OnWriteStatus \/ OnNodataStatus
  <2> DEFINE m == Msg("status", setup)
  <2>1. m \in Messages /\ m.kind = "status" /\ m.req = setup /\ msgs' = Append(msgs, m)
    BY <1>2, <1>5, MessageTypes DEF OnWriteStatus, OnNodataStatus, OnStatusIn
  <2>2. outTrb' = "setup"
    BY <1>5 DEF OnWriteStatus, OnNodataStatus, OnStatusIn, TrbCtrlOut
  <2> HIDE DEF m
  <2> QED
    BY <1>1, <1>3, <2>1, <2>2, TellSent DEF SetupPends
<1> QED
  BY <1>1, <1>4, <1>5

LEMMA ResetTellKept ==
    ASSUME TypeOK, TellInv, OnUsbReset
    PROVE  TellInv'
<1> DEFINE m == Msg("reset", Empty)
<1>1. m \in Messages /\ m.kind = "reset" /\ msgs' = Append(msgs, m)
  BY MessageTypes DEF OnUsbReset
<1>2. UNCHANGED <<outTrb, inBuf, inTrb, setup, eproto>> /\ devAddr' = Default
  BY DEF OnUsbReset, ResetAddress, out, in
<1>3. inBuf \in BOOLEAN
  BY DEF TypeOK
<1>4. outTrb' # "setup" => setup'.setup = None
  BY <1>2 DEF TellInv, PhaseInv
<1> HIDE DEF m
<1> QED
  BY <1>1, <1>2, <1>3, <1>4, TellSent

\* usbd takes the oldest message.
LEMMA TellTaken ==
    ASSUME TypeOK, OwnerInv, NEW k, Message(k)
    PROVE  /\ Len(msgs) \in Nat /\ 1 \in 1 .. Len(msgs) /\ msgs[1] = Head(msgs)
           /\ Head(msgs).kind = k
           /\ \A i \in 1 .. Len(msgs') : i + 1 \in 1 .. Len(msgs) /\ msgs'[i] = msgs[i + 1]
           /\ \A i \in 1 .. Len(msgs) : i = 1 \/ (i - 1 \in 1 .. Len(msgs') /\ msgs'[i - 1] = msgs[i])
           /\ Len(msgs') = Len(msgs) - 1
           /\ k = "setup" => Asked /\ ~Asked' /\ \A i \in 1 .. Len(msgs) : i > 1 => msgs[i].kind # "setup"
           /\ k # "setup" => (Asked' <=> Asked)
<1>1. msgs \in Seq(Messages) /\ MsgOnce
  BY TypeMessages DEF OwnerInv
<1>2. msgs # <<>> /\ msgs' = Tail(msgs) /\ Head(msgs).kind = k
  BY DEF Message
<1>3. /\ Head(msgs) = msgs[1] /\ Len(msgs) \in Nat /\ Len(msgs) >= 1 /\ Len(msgs') = Len(msgs) - 1
      /\ \A i \in 1 .. Len(msgs) - 1 : msgs'[i] = msgs[i + 1]
  BY <1>1, <1>2, Removed
<1>4. /\ k = "setup" => Asked /\ ~Asked'
      /\ k # "setup" => (Asked' <=> Asked)
  BY <1>1, MessageTaken
<1>5. k = "setup" => \A i \in 1 .. Len(msgs) : i > 1 => msgs[i].kind # "setup"
  BY <1>1, <1>2, <1>3 DEF MsgOnce
<1> QED
  BY <1>2, <1>3, <1>4, <1>5

LEMMA SetupTellKept ==
    ASSUME TypeOK, OwnerInv, TellInv, UsbdAccepts \/ UsbdRefuses
    PROVE  TellInv'
<1>1. Message("setup") /\ UNCHANGED <<setup, devAddr, eproto>>
  BY DEF UsbdAccepts, UsbdRefuses
<1>2. /\ Len(msgs) \in Nat /\ 1 \in 1 .. Len(msgs) /\ msgs[1].kind = "setup"
      /\ \A i \in 1 .. Len(msgs') : i + 1 \in 1 .. Len(msgs) /\ msgs'[i] = msgs[i + 1]
      /\ \A i \in 1 .. Len(msgs) : i = 1 \/ (i - 1 \in 1 .. Len(msgs') /\ msgs'[i - 1] = msgs[i])
      /\ Asked /\ ~Asked' /\ \A i \in 1 .. Len(msgs) : i > 1 => msgs[i].kind # "setup"
  BY <1>1, TellTaken
<1>3. \A i \in 1 .. Len(msgs') : msgs'[i].kind = "reset"
  BY <1>2 DEF TellInv, QueueInv
<1>4. Head(msgs).req = setup
  BY <1>1, <1>2, TellTaken DEF TellInv, PhaseInv
<1>5. QueueInv'
  BY <1>3 DEF QueueInv
<1>6. inBuf /\ UsbdRefuses => FALSE
  BY <1>2 DEF OwnerInv
<1>7. PhaseInv'
  <2>1. inTrb' = "data" /\ UsbdAccepts => setup'.setup = None
    <3>1. setup \in Requests
      BY DEF TypeOK
    <3> QED
      BY <1>1, <1>4, <3>1, RequestTypes DEF UsbdAccepts, TrbCtrlIn
  <2>2. outTrb' # "setup" => setup'.setup = None
    BY <1>1 DEF UsbdAccepts, UsbdRefuses, SetHaltOut, TrbCtrlOut, out, TellInv, PhaseInv
  <2>3. UsbdRefuses => inBuf' = inBuf
    BY DEF UsbdRefuses
  <2> QED
    BY <1>3, <1>6, <2>1, <2>2, <2>3 DEF PhaseInv
<1>8. \A i \in 2 .. Len(msgs) : ~Overtaken(i)
  BY <1>2 DEF Overtaken
<1>9. ResetReport'
  <2>1. \A i \in 1 .. Len(msgs') : i + 1 \in 2 .. Len(msgs) /\ msgs'[i] = msgs[i + 1]
    BY <1>2
  <2> QED
    BY <1>1, <1>2, <1>8, <2>1 DEF TellInv, ReportInv, ResetReport
<1>10. StatusReport'
  BY <1>3 DEF StatusReport
<1>11. SetupPends' => SetupPends /\ UsbdAccepts
  BY <1>1, <1>2, <1>6 DEF SetupPends, UsbdRefuses
<1>12. SetupPends => SetupPends'
  BY <1>1, <1>4 DEF SetupPends, UsbdAccepts, UsbdRefuses
<1>13. StatusPends => StatusPends'
  BY <1>2 DEF StatusPends
<1> QED
  BY <1>1, <1>5, <1>7, <1>9, <1>10, <1>11, <1>12, <1>13 DEF TellInv, ReportInv

\* Taking a status or a reset moves every other message one place forward.
LEMMA ReportTaken ==
    ASSUME TypeOK, OwnerInv, TellInv, NEW k, k # "setup", Message(k),
           UNCHANGED <<outTrb, inBuf, inTrb, setup, devAddr>>
    PROVE  /\ QueueInv' /\ PhaseInv' /\ ResetReport' /\ StatusReport'
           /\ SetupPends' <=> SetupPends
           /\ \A i \in 1 .. Len(msgs) : Overtaken(i) => SetupPends
<1>1. /\ Len(msgs) \in Nat /\ msgs[1].kind = k
      /\ \A i \in 1 .. Len(msgs') : i + 1 \in 1 .. Len(msgs) /\ msgs'[i] = msgs[i + 1]
      /\ \A i \in 1 .. Len(msgs) : i = 1 \/ (i - 1 \in 1 .. Len(msgs') /\ msgs'[i - 1] = msgs[i])
      /\ Len(msgs') = Len(msgs) - 1
      /\ (Asked' <=> Asked)
  BY TellTaken
<1>2. QueueInv'
  BY <1>1 DEF TellInv, QueueInv
<1>3. PhaseInv'
  BY <1>1 DEF TellInv, PhaseInv
<1>4. \A i \in 1 .. Len(msgs') : Overtaken(i + 1) => Overtaken(i)'
  <2> SUFFICES ASSUME NEW i \in 1 .. Len(msgs'), Overtaken(i + 1) PROVE Overtaken(i)'
    OBVIOUS
  <2>1. PICK j \in 1 .. Len(msgs) : i + 1 < j /\ msgs[j].kind = "setup"
    BY DEF Overtaken
  <2>2. j - 1 \in 1 .. Len(msgs') /\ i < j - 1 /\ msgs'[j - 1] = msgs[j]
    BY <1>1, <2>1
  <2> QED
    BY <2>1, <2>2 DEF Overtaken
<1>5. ResetReport'
  BY <1>1, <1>4 DEF TellInv, ReportInv, ResetReport
<1>6. StatusReport'
  BY <1>1, <1>4 DEF TellInv, ReportInv, StatusReport
<1>7. SetupPends' <=> SetupPends
  BY <1>1 DEF SetupPends
<1>8. \A i \in 1 .. Len(msgs) : Overtaken(i) => SetupPends
  BY DEF Overtaken, SetupPends, Asked
<1> QED
  BY <1>2, <1>3, <1>5, <1>6, <1>7, <1>8

LEMMA StatusTellKept ==
    ASSUME TypeOK, OwnerInv, TellInv, UsbdStatus
    PROVE  TellInv'
<1>1. Message("status") /\ UNCHANGED <<outTrb, inBuf, inTrb, setup, devAddr>>
  BY DEF UsbdStatus, out, in
<1>2. /\ 1 \in 1 .. Len(msgs) /\ msgs[1].kind = "status" /\ msgs[1] = Head(msgs)
      /\ \A i \in 1 .. Len(msgs) : i = 1 \/ (i - 1 \in 1 .. Len(msgs') /\ msgs'[i - 1] = msgs[i])
  BY <1>1, TellTaken
<1>3. /\ QueueInv' /\ PhaseInv' /\ ResetReport' /\ StatusReport'
      /\ SetupPends' <=> SetupPends
      /\ Overtaken(1) => SetupPends
  BY <1>1, <1>2, ReportTaken
<1>4. eproto' /\ devAddr # Default => SetupPends \/ StatusPends'
  <2>1. CASE Head(msgs).req.setup = None
    <3>1. StatusPends => StatusPends'
      BY <1>2, <2>1 DEF StatusPends
    <3> QED
      BY <2>1, <3>1 DEF UsbdStatus, TellInv, ReportInv
  <2>2. CASE Head(msgs).req.setup # None
    <3>1. devAddr \in {Head(msgs).req.setup, Default} \/ Overtaken(1)
      BY <1>2, <2>2 DEF TellInv, ReportInv, StatusReport
    <3> QED
      BY <1>3, <2>2, <3>1 DEF UsbdStatus, SetAddress
  <2> QED
    BY <2>1, <2>2
<1> QED
  BY <1>1, <1>3, <1>4 DEF TellInv, ReportInv, SetupPends

LEMMA UsbdResetTellKept ==
    ASSUME TypeOK, OwnerInv, TellInv, UsbdReset
    PROVE  TellInv'
<1>1. Message("reset") /\ UNCHANGED <<outTrb, inBuf, inTrb, setup, devAddr>>
  BY DEF UsbdReset, out, in
<1>2. 1 \in 1 .. Len(msgs) /\ msgs[1].kind = "reset"
  BY <1>1, TellTaken
<1>3. /\ QueueInv' /\ PhaseInv' /\ ResetReport' /\ StatusReport'
      /\ SetupPends' <=> SetupPends
      /\ Overtaken(1) => SetupPends
  BY <1>1, <1>2, ReportTaken
<1>4. devAddr # Default => SetupPends
  BY <1>2, <1>3 DEF TellInv, ReportInv, ResetReport
<1> QED
  BY <1>1, <1>3, <1>4 DEF TellInv, ReportInv, SetupPends

LEMMA TellKept ==
    ASSUME Lookalikes = {}
    PROVE  TypeOK /\ OwnerInv /\ TellInv /\ [Next]_vars => TellInv'
<1> SUFFICES ASSUME TypeOK, OwnerInv, TellInv, [Next]_vars PROVE TellInv'
  OBVIOUS
<1>1. CASE Worker
  BY <1>1, OutTellKept, InTellKept, ResetTellKept DEF Worker
<1>2. CASE Usbd
  BY <1>2, SetupTellKept, StatusTellKept, UsbdResetTellKept DEF Usbd
<1>3. CASE Hw \/ Host \/ UNCHANGED vars
  <2>1. UNCHANGED <<outTrb, inBuf, inTrb, setup, msgs, devAddr, eproto>>
    BY <1>3 DEF Hw, HwSetup, HwDataOut, HwDataIn, HwStatusOut, HwStatusIn, HwSetupPending, HwStall,
                HwOut, HwIn, Host, HostSetup, HostGivesUp, HostReset, vars, out, in
  <2> QED
    BY <2>1, TellUntouched
<1> QED
  BY <1>1, <1>2, <1>3 DEF Next

LEMMA TellAlways ==
    ASSUME Lookalikes = {}
    PROVE  Spec => [](TypeOK /\ OwnerInv /\ TellInv)
<1>1. Init => TellInv
  BY DEF Init, TellInv, QueueInv, PhaseInv, ReportInv, ResetReport, StatusReport, SetupPends, Empty,
         Asked
<1> QED
  BY <1>1, TellKept, OwnerAlways, PTL DEF Spec

\* dwc3_api_set_address() reports -EPROTO to a usbd that has caught up only if
\* a bus reset took the address away, whatever the host gives up or repeats;
\* under the same proviso as AddressAgreesAlways.
THEOREM NoProtocolErrorAlways ==
    ASSUME Lookalikes = {}
    PROVE  Spec => NoProtocolError
<1>1. TypeOK /\ OwnerInv /\ TellInv /\ [Next]_vars
      => [msgs # <<>> /\ Head(msgs).kind # "setup" /\ Tail(msgs) = <<>> /\ msgs' = <<>>
          => (eproto' => devAddr = Default)]_vars
  <2> SUFFICES ASSUME TypeOK, OwnerInv, TellInv, [Next]_vars,
                      msgs # <<>>, Head(msgs).kind # "setup", Tail(msgs) = <<>>, msgs' = <<>>,
                      eproto', devAddr # Default
               PROVE  FALSE
    OBVIOUS
  <2>1. msgs' = Tail(msgs) /\ (UsbdStatus \/ UsbdReset)
    <3>1. ~(UNCHANGED msgs)
      OBVIOUS
    <3>2. ~Worker
      <4>1. \A m : Append(msgs, m) # <<>>
        BY TypeMessages, Appended
      <4> QED
        BY <3>1, <4>1 DEF Worker, OnCtrlOut, OnCtrlIn, OnUsbReset, OnSetup, OnWriteSetup, OnReadSetup,
           OnNodataSetup, HandSetupOver, OnWriteData, OnReadStatus, OnReadData, OnWriteStatus,
           OnNodataStatus, OnStatusIn
    <3>3. Usbd
      BY <3>1, <3>2 DEF Next, vars, Hw, HwSetup, HwDataOut, HwDataIn, HwStatusOut, HwStatusIn,
         HwSetupPending, HwStall, HwOut, HwIn, Host, HostSetup, HostGivesUp, HostReset
    <3> QED
      BY <3>3 DEF Usbd, UsbdAccepts, UsbdRefuses, UsbdStatus, UsbdReset, Message
  <2>2. msgs[1] = Head(msgs) /\ Len(msgs) = 1 /\ ~Asked /\ ~Overtaken(1)
    <3>0. Len(Tail(msgs)) = 0
      <4>1. Len(<<>>) = 0
        OBVIOUS
      <4> QED
        BY <4>1
    <3>1. msgs[1] = Head(msgs) /\ Len(msgs) = 1
      <4>1. msgs \in Seq(Messages)
        BY TypeMessages
      <4>2. Head(msgs) = msgs[1] /\ Len(msgs) \in Nat /\ Len(Tail(msgs)) = Len(msgs) - 1
        BY <4>1, Removed
      <4> QED
        BY <3>0, <4>2
    <3> QED
      BY <3>1 DEF Asked, Overtaken
  <2>3. CASE UsbdReset
    BY <2>2, <2>3 DEF UsbdReset, SetAddress, TellInv, ReportInv, ResetReport, Message
  <2>4. CASE UsbdStatus /\ Head(msgs).req.setup # None
    <3>1. Head(msgs).kind = "status" /\ devAddr # Head(msgs).req.setup
      BY <2>4 DEF UsbdStatus, SetAddress, Message
    <3>2. devAddr \in {Head(msgs).req.setup, Default} \/ Overtaken(1)
      BY <2>2, <2>4, <3>1 DEF TellInv, ReportInv, StatusReport
    <3> QED
      BY <2>2, <3>1, <3>2
  <2>5. CASE UsbdStatus /\ Head(msgs).req.setup = None
    <3>1. eproto /\ Head(msgs).kind = "status"
      BY <2>5 DEF UsbdStatus, Message
    <3>2. ~inBuf /\ ~StatusPends
      BY <2>2, <2>5, <3>1 DEF TellInv, QueueInv, StatusPends
    <3> QED
      BY <2>2, <3>1, <3>2 DEF TellInv, ReportInv, SetupPends
  <2> QED
    BY <2>1, <2>3, <2>4, <2>5
<1> QED
  BY <1>1, TellAlways, PTL DEF Spec, NoProtocolError

=============================================================================
