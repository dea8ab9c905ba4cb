---------------------------- MODULE Dwc3Control ----------------------------
(***************************************************************************)
(* The default control endpoint of the DWC3 driver                         *)
(* (zephyr/drivers/usb/udc/udc_dwc3.c): one TRB per direction, the event   *)
(* worker that walks through the stages of a control transfer, the USB     *)
(* stack's thread (usbd) that answers the requests, the controller and the *)
(* host.                                                                   *)
(*                                                                         *)
(* The worker and usbd are cooperative threads: each handler below is      *)
(* atomic, and they interleave between handlers.  The host and the         *)
(* controller move at any time.                                            *)
(*                                                                         *)
(* An operator defined just before another one, with its name prolonged,   *)
(* is a mutant of it; no specification refers to it.                       *)
(***************************************************************************)
EXTENDS Naturals, SequencesExt

CONSTANTS Addresses,   \* the addresses a host assigns with SET_ADDRESS
          Default,     \* address 0, which a bus reset gives
          Lookalikes,  \* the addresses that the OUT data of other requests
                       \* spells: it begins with 0x00 0x05 and an address
          None,        \* no address, no request
          MaxPending   \* no bus reset while that many events and messages wait

ASSUME AddressAssumption ==
    Default \notin Addresses /\ None \notin Addresses \cup {Default} /\ Lookalikes \subseteq Addresses
ASSUME MaxPendingAssumption == MaxPending \in Nat

\* What a request is for this driver: the direction of its data stage, and the
\* address that its setup packet and its OUT data spell, if they do.
Requests ==
    [dir : {"in", "none"}, setup : {None}, data : {None}]
    \cup [dir : {"none"}, setup : Addresses, data : {None}]
    \cup [dir : {"out"}, setup : {None}, data : {None} \cup Lookalikes]

\* What a buffer holds that received no data.
Empty == [dir |-> "none", setup |-> None, data |-> None]

VARIABLES
    outBuf, outTrb, outOwned,  \* ep_data_out[0]: net_buf[0] held, TRB type, HWO
    inBuf, inTrb, inOwned,     \* ep_data_in[0]
    outReq,     \* the request whose setup packet or data the OUT buffer got
    setup,      \* the setup packet of the ongoing transfer (udc_data.setup)
    stage,      \* udc_data.stage
    evts,       \* the EP0 and reset events of the event ring
    msgs,       \* the messages to usbd
    devAddr,    \* DCFG.DEVADDR
    eproto,     \* what dwc3_api_set_address() returned last was -EPROTO
    failed,     \* an assertion failed, or a NULL pointer was followed
    stalled,    \* the controller answers STALL
    hostReq, hostStage, hostAddr

out   == <<outBuf, outTrb, outOwned>>
in    == <<inBuf, inTrb, inOwned>>
host  == <<hostReq, hostStage, hostAddr>>
vars  == <<out, in, outReq, setup, stage, evts, msgs, devAddr, eproto, failed,
           stalled, host>>

OutTypes == {"setup", "data", "status_3"}
InTypes  == {"data", "status_2", "status_3"}
Stages   == {"setup", "data_out", "data_in", "no_data", "status_out", "status_in", "error"}
Messages == [kind : {"setup", "status"}, req : Requests] \cup [kind : {"reset"}, req : {Empty}]

TypeOK ==
    /\ outBuf \in BOOLEAN /\ outOwned \in BOOLEAN /\ outTrb \in OutTypes
    /\ inBuf \in BOOLEAN /\ inOwned \in BOOLEAN /\ inTrb \in InTypes
    /\ outReq \in Requests
    /\ setup \in Requests
    /\ stage \in Stages
    /\ evts \in Seq({"out", "in", "reset"})
    /\ msgs \in Seq(Messages)
    /\ devAddr \in Addresses \cup {Default}
    /\ eproto \in BOOLEAN /\ failed \in BOOLEAN
    /\ stalled \in BOOLEAN
    /\ hostReq \in Requests
    /\ hostStage \in {"idle", "setup", "data", "status"}
    /\ hostAddr \in Addresses \cup {Default, None}

\* After dwc3_api_init() and dwc3_api_enable().
Init ==
    /\ outBuf = TRUE /\ outTrb = "setup" /\ outOwned = TRUE
    /\ inBuf = FALSE /\ inTrb = "data" /\ inOwned = FALSE
    /\ outReq = Empty /\ setup = Empty /\ stage = "setup"
    /\ evts = <<>> /\ msgs = <<>>
    /\ devAddr = Default /\ eproto = FALSE /\ failed = FALSE
    /\ stalled = FALSE
    /\ hostReq = Empty /\ hostStage = "idle" /\ hostAddr = Default

-----------------------------------------------------------------------------
(* TRBs *)

\* dwc3_trb_ctrl_out(): a new buffer is associated with the TRB, which must
\* have none, and a transfer starts.
TrbCtrlOut(type) ==
    /\ outBuf' = TRUE /\ outTrb' = type /\ outOwned' = TRUE

\* dwc3_trb_ctrl_in(): the buffer was associated by dwc3_api_ep_enqueue().
TrbCtrlIn(type) ==
    /\ inTrb' = type /\ inOwned' = TRUE

\* udc_ctrl_update_stage() of the UDC layer, from the completed buffer.
StageAfterSetup(req) ==
    CASE req.dir = "out" -> "data_out"
      [] req.dir = "in"  -> "data_in"
      [] OTHER           -> "no_data"
StageAfterOut ==
    CASE stage = "data_out"   -> "status_in"
      [] stage = "status_out" -> "setup"
      [] OTHER                -> "error"
StageAfterIn ==
    CASE stage = "data_in"                -> "status_out"
      [] stage \in {"status_in", "no_data"} -> "setup"
      [] OTHER                            -> "error"

Msg(kind, req) == [kind |-> kind, req |-> req]

-----------------------------------------------------------------------------
(* The event worker *)

Event(e) == ~failed /\ evts # <<>> /\ Head(evts) = e /\ evts' = Tail(evts)

\* dwc3_on_ctrl_out(): the address that the buffer spells is set at once,
\* whatever the stage.
Spelt == CASE outTrb = "setup" -> outReq.setup
           [] outTrb = "data"  -> outReq.data
           [] OTHER            -> None
AddressSetEarlyForgotten == devAddr
AddressSetEarlyAlways == Spelt
AddressSetEarly == IF Spelt = None THEN devAddr ELSE Spelt

\* A setup packet: its kind of transfer is the stage that follows.  The data
\* of a write comes first; usbd gets the setup packet of the others.
OnWriteSetup == stage' = "data_out" /\ TrbCtrlOut("data") /\ UNCHANGED msgs

HandSetupOver ==
    /\ outBuf' = FALSE /\ UNCHANGED <<outTrb, outOwned>>
    /\ msgs' = Append(msgs, Msg("setup", setup'))

OnReadSetup   == stage' = "data_in" /\ HandSetupOver
OnNodataSetup == stage' = "no_data" /\ HandSetupOver

OnSetup ==
    /\ outTrb = "setup"
    /\ setup' = outReq
    /\ stage' = StageAfterSetup(outReq)
    /\ OnWriteSetup \/ OnReadSetup \/ OnNodataSetup

\* The data of a write: usbd gets it with the setup packet.
OnWriteDataKeepingBuffer ==
    /\ outTrb = "data"
    /\ stage' = StageAfterOut
    /\ msgs' = Append(msgs, Msg("setup", setup))
    /\ UNCHANGED <<outBuf, outTrb, outOwned, setup>>

OnWriteData ==
    /\ outTrb = "data"
    /\ stage' = StageAfterOut
    /\ msgs' = Append(msgs, Msg("setup", setup))
    /\ outBuf' = FALSE /\ UNCHANGED <<outTrb, outOwned, setup>>

\* The status of a read: the transfer is over.
OnReadStatus ==
    /\ outTrb = "status_3"
    /\ msgs' = Append(msgs, Msg("status", setup))
    /\ stage' = StageAfterOut
    /\ TrbCtrlOut("setup") /\ UNCHANGED setup

OnCtrlOut ==
    /\ Event("out")
    /\ IF outBuf
       THEN /\ devAddr' = AddressSetEarly
            /\ OnSetup \/ OnWriteData \/ OnReadStatus
            /\ UNCHANGED failed
       ELSE failed' = TRUE /\ UNCHANGED <<devAddr, out, setup, stage, msgs>>
    /\ UNCHANGED <<in, outReq, eproto, stalled, host>>

\* dwc3_on_ctrl_in(): the data of a read, or the status of the others.
OnReadData ==
    /\ inTrb = "data"
    /\ TrbCtrlOut("status_3")
    /\ UNCHANGED msgs

OnStatusInNoSetup(type) ==
    /\ inTrb = type
    /\ msgs' = Append(msgs, Msg("status", setup))
    /\ UNCHANGED out

OnStatusIn(type) ==
    /\ inTrb = type
    /\ msgs' = Append(msgs, Msg("status", setup))
    /\ TrbCtrlOut("setup")

OnWriteStatus  == OnStatusIn("status_3")
OnNodataStatus == OnStatusIn("status_2")

OnCtrlIn ==
    /\ Event("in")
    /\ IF inBuf
       THEN /\ inBuf' = FALSE
            /\ OnReadData \/ OnWriteStatus \/ OnNodataStatus
            /\ stage' = StageAfterIn
            /\ failed' = outBuf
       ELSE UNCHANGED <<inBuf, out, msgs, stage, failed>>
    /\ UNCHANGED <<inTrb, inOwned, outReq, setup, devAddr, eproto, stalled, host>>

\* dwc3_on_usb_reset()
ResetAddressForgotten == devAddr
ResetAddress == Default

OnUsbReset ==
    /\ Event("reset")
    /\ devAddr' = ResetAddress
    /\ msgs' = Append(msgs, Msg("reset", Empty))
    /\ UNCHANGED <<out, in, outReq, setup, stage, eproto, failed, stalled, host>>

Worker == OnCtrlOut \/ OnCtrlIn \/ OnUsbReset

-----------------------------------------------------------------------------
(* The usbd thread: not in this repository, but its calls end here *)

Message(kind) == ~failed /\ msgs # <<>> /\ Head(msgs).kind = kind /\ msgs' = Tail(msgs)

\* dwc3_api_ep_enqueue() on the IN endpoint: the data of a read or a status.
UsbdAccepts ==
    /\ Message("setup")
    /\ failed' = inBuf
    /\ inBuf' = TRUE
    /\ TrbCtrlIn(CASE Head(msgs).req.dir = "in" -> "data"
                   [] stage = "no_data"          -> "status_2"
                   [] OTHER                      -> "status_3")
    /\ UNCHANGED <<out, outReq, setup, stage, evts, devAddr, eproto, stalled, host>>

\* dwc3_api_ep_set_halt() on the IN endpoint: both transfers end, the host
\* gets a STALL, and a setup packet may come again.  usbd does not refuse
\* SET_ADDRESS.
SetHaltOutForgotten == outOwned' = FALSE /\ UNCHANGED <<outBuf, outTrb>>
SetHaltOut == TrbCtrlOut("setup")

UsbdRefuses ==
    /\ Message("setup") /\ Head(msgs).req.setup = None
    /\ stalled' = TRUE
    /\ inOwned' = FALSE /\ UNCHANGED <<inBuf, inTrb>>
    /\ SetHaltOut
    /\ failed' = outBuf
    /\ UNCHANGED <<outReq, setup, stage, evts, devAddr, eproto, host>>

\* dwc3_api_set_address() only compares: the address was set before.
SetAddress(a) == eproto' = (devAddr # a)

UsbdStatus ==
    /\ Message("status")
    /\ IF Head(msgs).req.setup = None THEN UNCHANGED eproto ELSE SetAddress(Head(msgs).req.setup)
    /\ UNCHANGED <<out, in, outReq, setup, stage, evts, devAddr, failed, stalled, host>>

UsbdReset ==
    /\ Message("reset")
    /\ SetAddress(Default)
    /\ UNCHANGED <<out, in, outReq, setup, stage, evts, devAddr, failed, stalled, host>>

Usbd == UsbdAccepts \/ UsbdRefuses \/ UsbdStatus \/ UsbdReset

-----------------------------------------------------------------------------
(* The controller and the host, known by how the driver uses them *)

HwOut ==
    /\ outOwned /\ outOwned' = FALSE
    /\ evts' = Append(evts, "out")
    /\ UNCHANGED <<outBuf, outTrb, in, setup, stage, msgs, devAddr, eproto, failed>>

HwIn ==
    /\ inOwned /\ inOwned' = FALSE
    /\ evts' = Append(evts, "in")
    /\ UNCHANGED <<inBuf, inTrb, out, outReq, setup, stage, msgs, devAddr, eproto, failed,
                   stalled>>

\* A setup packet sent to the device's address is received, which clears the
\* stall.
HwSetup ==
    /\ HwOut /\ outTrb = "setup" /\ hostStage = "setup" /\ devAddr = hostAddr
    /\ outReq' = hostReq /\ stalled' = FALSE
    /\ hostStage' = IF hostReq.dir = "none" THEN "status" ELSE "data"
    /\ UNCHANGED <<hostReq, hostAddr>>

HwDataOut ==
    /\ HwOut /\ outTrb = "data" /\ hostStage = "data" /\ hostReq.dir = "out"
    /\ outReq' = hostReq /\ UNCHANGED stalled
    /\ hostStage' = "status"
    /\ UNCHANGED <<hostReq, hostAddr>>

HwDataIn ==
    /\ HwIn /\ inTrb = "data" /\ hostStage = "data" /\ hostReq.dir = "in"
    /\ hostStage' = "status"
    /\ UNCHANGED <<hostReq, hostAddr>>

\* The request is done: a SET_ADDRESS has its effect for the host.
HostDone ==
    /\ hostStage = "status" /\ hostStage' = "idle"
    /\ hostAddr' = IF hostReq.setup = None THEN hostAddr ELSE hostReq.setup
    /\ UNCHANGED hostReq

HwStatusOut ==
    /\ HwOut /\ outTrb = "status_3" /\ hostReq.dir = "in" /\ HostDone
    /\ outReq' = Empty /\ UNCHANGED stalled

HwStatusIn ==
    /\ HwIn /\ hostReq.dir # "in" /\ HostDone
    /\ inTrb = (IF hostReq.dir = "none" THEN "status_2" ELSE "status_3")

\* A setup packet is waiting: what is left of the former transfer completes
\* with DWC3_TRB_STATUS_TRBSTS_SETUPPENDING, and no data.
HwSetupPending ==
    /\ hostStage = "setup" /\ devAddr = hostAddr
    /\ \/ HwOut /\ outTrb # "setup" /\ outReq' = Empty /\ UNCHANGED stalled
       \/ HwIn
    /\ UNCHANGED host

\* The host sees the STALL and drops the request.
HwStall ==
    /\ stalled /\ hostStage \in {"data", "status"}
    /\ hostStage' = "idle"
    /\ UNCHANGED <<out, in, outReq, setup, stage, evts, msgs, devAddr, eproto, failed,
                   stalled, hostReq, hostAddr>>

Hw == HwSetup \/ HwDataOut \/ HwDataIn \/ HwStatusOut \/ HwStatusIn \/ HwSetupPending \/ HwStall

HostSetup(r) ==
    /\ hostStage = "idle" /\ hostAddr # None
    /\ hostStage' = "setup" /\ hostReq' = r
    /\ UNCHANGED <<out, in, outReq, setup, stage, evts, msgs, devAddr, eproto, failed,
                   stalled, hostAddr>>

\* The host times out.  If that was a SET_ADDRESS, it knows no address,
\* and resets the bus next.
HostGivesUp ==
    /\ hostStage \in {"data", "status"}
    /\ hostStage' = "idle"
    /\ hostAddr' = IF hostReq.setup = None THEN hostAddr ELSE None
    /\ UNCHANGED <<out, in, outReq, setup, stage, evts, msgs, devAddr, eproto, failed,
                   stalled, hostReq>>

\* A bus reset ends the host's transfer, and addresses the device at 0.
HostReset ==
    /\ Len(evts) + Len(msgs) < MaxPending
    /\ hostStage' = "idle" /\ hostAddr' = Default /\ UNCHANGED hostReq
    /\ evts' = Append(evts, "reset")
    /\ UNCHANGED <<out, in, outReq, setup, stage, msgs, devAddr, eproto, failed, stalled>>

Host == (\E r \in Requests : HostSetup(r)) \/ HostGivesUp \/ HostReset

-----------------------------------------------------------------------------
Next == Worker \/ Usbd \/ Hw \/ Host

Spec == Init /\ [][Next]_vars

\* The worker polls the event ring for ever, usbd waits on its messages, and
\* the controller ends what host and driver have both started.  Nothing says
\* that the host starts, gives up or resets anything.
FairSpec == Spec /\ WF_vars(Worker) /\ WF_vars(Usbd) /\ WF_vars(Hw)

-----------------------------------------------------------------------------
(* Properties *)

\* No assertion of the driver fails on EP0, and no NULL buffer is followed: a
\* buffer is there when a TRB completes (dwc3_on_ctrl_out()), and never two
\* at once (dwc3_trb_ctrl_out(), dwc3_api_ep_enqueue()).
AssertionsHold == ~failed

\* EP0 is in one place at a time: the controller owns one of the two TRBs, or
\* one of them has an event to process, or usbd has a request to answer.  A
\* buffer is held for exactly as long as its TRB is one of these.  Without
\* it EP0 either stops, or runs two transfers at once.
Owners == {o \in {"out", "in"} : o \in ToSet(evts)}
          \cup (IF outOwned THEN {"hw_out"} ELSE {})
          \cup (IF inOwned THEN {"hw_in"} ELSE {})
          \cup (IF \E m \in ToSet(msgs) : m.kind = "setup" THEN {"usbd"} ELSE {})

OneOwner ==
    /\ Cardinality(Owners) = 1
    /\ outBuf <=> Owners \subseteq {"out", "hw_out"}
    /\ inBuf <=> Owners \subseteq {"in", "hw_in"}

\* The device answers at the address the host believes it has, unless a
\* SET_ADDRESS is on its way or a bus reset is still to be processed: the
\* address is set ahead of usbd, in dwc3_on_ctrl_out().
AddressAgrees ==
    /\ hostStage = "idle" \/ hostReq.setup = None
    /\ hostAddr # None
    /\ "reset" \notin ToSet(evts)
    => devAddr = hostAddr

\* dwc3_api_set_address() never returns -EPROTO to a usbd that keeps up with
\* the worker, unless a bus reset came between a SET_ADDRESS and its status:
\* the worker has set the address, and set it to 0 on a reset, before usbd
\* hears of either.
NoProtocolError ==
    [][msgs # <<>> /\ Head(msgs).kind # "setup" /\ Tail(msgs) = <<>> /\ msgs' = <<>>
       => (eproto' => devAddr = Default)]_vars

\* A host whose request is under way gets an answer or a STALL, whatever it
\* gave up before: the driver always asks for the next setup packet, at the
\* address the host uses.
HostAnswered == hostStage # "idle" ~> hostStage = "idle"
=============================================================================
