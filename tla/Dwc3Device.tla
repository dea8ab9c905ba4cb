----------------------------- MODULE Dwc3Device -----------------------------
(***************************************************************************)
(* The DWC3 driver as the firmware starts and uses it                      *)
(* (zephyr/drivers/usb/udc/udc_dwc3.c): initialisation and enabling, the   *)
(* ring of events that the controller fills and the event worker empties,  *)
(* the bus reset and the connection, and the two bulk endpoints, each with *)
(* at most one buffer.  The steps inside the flush of a buffer are those   *)
(* of Dwc3Bulk and the stages of a control transfer those of Dwc3Control:  *)
(* here a push is one step, and a control request is one event.            *)
(*                                                                         *)
(* The actions are about the variables of this module only; CdcEcho        *)
(* conjoins them with what the class, the stack and the host do.           *)
(*                                                                         *)
(* An operator defined just before another one, with its name prolonged,   *)
(* is a mutant of it; no specification refers to it.                       *)
(***************************************************************************)
EXTENDS Integers, SequencesExt

CONSTANTS EventsNum,   \* CONFIG_UDC_DWC3_EVENTS_NUM
          TrbNum,      \* CONFIG_UDC_DWC3_TRB_NUM
          MaximumSpeed,\* the maximum-speed property of the devicetree node
          Requests     \* the control requests of the host

Speeds == {"fs", "hs", "ss"}

ASSUME EventsNumAssumption == EventsNum \in Nat /\ EventsNum >= 4
ASSUME TrbNumAssumption == TrbNum \in Nat /\ TrbNum >= 3
ASSUME SpeedAssumption == MaximumSpeed \in Speeds

Dirs  == {"out", "in"}
Slots == 0 .. TrbNum - 2

\* The events of the bus and of the endpoints; those that are only logged are
\* left out.  A control request is one event too, raised when the request has
\* come in as a whole.
BusEvents  == {"reset", "connect"}
EventKinds == BusEvents \cup Dirs \cup Requests

VARIABLES
    initialized,  \* DWC3_FLAG_INITIALIZED
    running,      \* DCTL.RUNSTOP, and the worker is scheduled
    evtBuf, evtNext,    \* evt_buf[], priv->evt_next
    evtCount, hwNext,   \* GEVNTCOUNT, in events; where the controller writes
    raised,       \* the events the controller raised and nobody processed
    link,         \* "down", in a bus "reset", or "up"
    dsts,         \* DSTS.CONNECTSPD
    mps0,         \* the packet size the controller has for EP0
    ep,           \* the two bulk endpoints
    msgs,         \* what the driver submitted to the USB stack
    failed        \* an assertion failed, or unreachable code was reached

events  == <<evtBuf, evtNext, evtCount, hwNext, raised>>
dwcVars == <<initialized, running, events, link, dsts, mps0, ep, msgs, failed>>

\* A bulk endpoint: enabled; head and tail when the ring is empty; a buffer
\* is recorded for the TRB at the tail; the controller owns the TRB pushed last;
\* what its status says is left of the transfer, in packets; the TRB the
\* controller is at; the packet size.
Endpoints == [on : BOOLEAN, at : Slots, held : BOOLEAN, owned : BOOLEAN, left : Nat,
              hw : Slots, mps : {0, 64, 512, 1024}]

\* None, and the packet size of a register nobody wrote.
NoEvent == "none"
NoSize  == 0

DwcInit ==
    /\ initialized = FALSE /\ running = FALSE
    /\ evtBuf = [n \in 0 .. EventsNum - 1 |-> NoEvent]
    /\ evtNext = 0 /\ evtCount = 0 /\ hwNext = 0 /\ raised = <<>>
    /\ link = "down" /\ dsts = "hs" /\ mps0 = NoSize
    /\ ep = [d \in Dirs |-> [on |-> FALSE, at |-> 0, held |-> FALSE, owned |-> FALSE,
                             left |-> 0, hw |-> 0, mps |-> NoSize]]
    /\ msgs = <<>> /\ failed = FALSE

-----------------------------------------------------------------------------
(* Starting *)

\* dwc3_driver_preinit(), dwc3_on_soft_reset(): the speeds that the
\* controller may connect at, and the packet size its endpoints support.
LinkSpeeds ==
    CASE MaximumSpeed = "fs" -> {"fs"}
      [] MaximumSpeed = "hs" -> {"fs", "hs"}
      [] MaximumSpeed = "ss" -> Speeds
CapsMps == IF MaximumSpeed = "fs" THEN 64 ELSE 1024

\* dwc3_on_soft_reset(): of all the registers it writes, what matters later is that
\* the event ring is empty, and that the controller starts at its first entry.
SoftReset ==
    /\ evtBuf' = [n \in 0 .. EventsNum - 1 |-> NoEvent]
    /\ evtCount' = 0 /\ hwNext' = 0
    /\ UNCHANGED <<evtNext, raised>>

\* dwc3_api_init(): the core is reset, EP0 is enabled with 512 bytes.
ApiInit ==
    /\ SoftReset
    /\ mps0' = 512
    /\ initialized' = TRUE
    /\ UNCHANGED <<running, link, dsts, ep, msgs, failed>>

\* dwc3_api_enable(): the host sees the device from here on.
ApiEnable ==
    /\ failed' = ~initialized
    /\ running' = TRUE
    /\ UNCHANGED <<initialized, events, link, dsts, mps0, ep, msgs>>

-----------------------------------------------------------------------------
(* The event ring *)

\* dwc3_ring_inc(), for a ring of events and for a ring of TRBs, whose last entry
\* is the LINK TRB.  The mutants confuse the two.
EvtIncTrbLike(n) == IF n + 1 >= EventsNum - 1 THEN 0 ELSE n + 1
EvtInc(n) == IF n + 1 >= EventsNum THEN 0 ELSE n + 1
TrbIncPastLink(n) == IF n + 1 >= TrbNum THEN 0 ELSE n + 1
TrbInc(n) == IF n + 1 >= TrbNum - 1 THEN 0 ELSE n + 1

\* The controller writes an event.
Raise(e) ==
    /\ evtBuf' = [evtBuf EXCEPT ![hwNext] = e]
    /\ hwNext' = (hwNext + 1) % EventsNum
    /\ evtCount' = evtCount + 1
    /\ raised' = Append(raised, e)
    /\ UNCHANGED evtNext

\* dwc3_process_all_events(): the worker caches an event and releases it.
Take(e) ==
    /\ running /\ ~failed /\ evtCount > 0
    /\ e = evtBuf[evtNext]
    /\ evtCount' = evtCount - 1
    /\ evtNext' = EvtInc(evtNext)
    /\ raised' = Tail(raised)
    /\ UNCHANGED <<evtBuf, hwNext>>

Submit(m) == msgs' = Append(msgs, m)

\* dwc3_on_usb_reset(): the transfers go on.  The stack hears of it.
OnUsbReset ==
    /\ Take("reset")
    /\ Submit([kind |-> "reset", arg |-> "none"])
    /\ UNCHANGED <<initialized, running, link, dsts, mps0, ep, failed>>

\* dwc3_on_connect_done(): the speed is the one DSTS has by now.
Mps0(speed) == IF speed = "ss" THEN 512 ELSE 64

OnConnectDone ==
    /\ Take("connect")
    /\ mps0' = Mps0(dsts)
    /\ UNCHANGED <<initialized, running, link, dsts, ep, msgs, failed>>

\* The control transfers of Dwc3Control hand the request over.
OnCtrl(req) ==
    /\ Take(req)
    /\ Submit([kind |-> "ctrl", arg |-> req])
    /\ UNCHANGED <<initialized, running, link, dsts, mps0, ep, failed>>

\* dwc3_on_xfer_done_norm(), dwc3_pop_trb(): the buffer goes to the stack.
Pop(e) == [e EXCEPT !.at = TrbInc(e.at), !.held = FALSE]

OnXferDone(d) ==
    /\ Take(d)
    /\ IF ep[d].held
       THEN Submit([kind |-> "done", arg |-> d]) /\ UNCHANGED failed
       ELSE failed' = TRUE /\ UNCHANGED msgs
    /\ ep' = [ep EXCEPT ![d] = Pop(ep[d])]
    /\ UNCHANGED <<initialized, running, link, dsts, mps0>>

-----------------------------------------------------------------------------
(* The bulk endpoints, as the stack calls them *)

\* udc_ep_enqueue() refuses a buffer for an endpoint that is not enabled.
\* dwc3_api_ep_enqueue(): the buffer, of n packets, gets the TRB at the head.
\* The head of an empty ring is its tail.
Enqueue(d, e, n) ==
    IF e[d].on THEN [e EXCEPT ![d].held = TRUE, ![d].owned = TRUE, ![d].left = n] ELSE e

\* dwc3_api_ep_disable(): the controller ignores the endpoint.  The mutant also
\* clears net_buf[].
DisabledCleared(e) == [e EXCEPT !.on = FALSE, !.held = FALSE]
Disabled(e) == [e EXCEPT !.on = FALSE]

\* dwc3_depcmd_ep_config(): the controller is told the packet size.
EpConfig(e, mps) == [e EXCEPT !.mps = mps]

\* dwc3_trb_norm_init(), dwc3_depcmd_start_xfer(): the controller goes to the
\* first TRB.
StartXfer(e) == [e EXCEPT !.hw = 0]

\* The TRBs are zeroed: none is the controller's, and nothing is left of any
\* transfer, even of one whose event is still to come.
Zeroed(e) == [e EXCEPT !.owned = FALSE, !.left = 0]

\* dwc3_api_ep_enable(): head, tail and net_buf[] keep their values.  The UDC
\* layer refuses a packet size that the endpoint does not support.
Enabled(e, mps) ==
    IF mps <= CapsMps
    THEN [StartXfer(EpConfig(Zeroed(e), mps)) EXCEPT !.on = TRUE]
    ELSE e

\* dwc3_api_device_speed() reads DSTS when it is called.
DeviceSpeed == dsts

-----------------------------------------------------------------------------
(* The controller, known by how the driver uses it *)

\* It transfers when it owns the TRB it is at.
Armed(d) == running /\ ep[d].on /\ ep[d].held /\ ep[d].owned /\ ep[d].hw = ep[d].at

\* The transfer is over: the TRB is the driver's, its status tells what is left
\* of the transfer, and an event is raised.
HwComplete(d, left) ==
    /\ Armed(d)
    /\ ep' = [ep EXCEPT ![d].owned = FALSE, ![d].left = left, ![d].hw = TrbInc(ep[d].hw)]
    /\ Raise(d)
    /\ UNCHANGED <<initialized, running, link, dsts, mps0, msgs, failed>>

\* EP0 takes a request when it has none (OneOwner in Dwc3Control).
Ep0Free == /\ Requests \cap ToSet(raised) = {}
           /\ \A m \in ToSet(msgs) : m.kind # "ctrl"

HwCtrl(req) ==
    /\ running /\ link = "up" /\ Ep0Free
    /\ Raise(req)
    /\ UNCHANGED <<initialized, running, link, dsts, mps0, ep, msgs, failed>>

\* A bus reset; the speed is known, and DSTS has it, once it is over.
HwReset ==
    /\ running
    /\ link' = "reset"
    /\ Raise("reset")
    /\ UNCHANGED <<initialized, running, dsts, mps0, ep, msgs, failed>>

HwConnect(speed) ==
    /\ running /\ link = "reset" /\ speed \in LinkSpeeds
    /\ link' = "up" /\ dsts' = speed
    /\ Raise("connect")
    /\ UNCHANGED <<initialized, running, mps0, ep, msgs, failed>>
=============================================================================
