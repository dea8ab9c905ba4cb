------------------------------- MODULE CdcEcho -------------------------------
(***************************************************************************)
(* The echo firmware (firmware/zephyr_cdc_raw/src/main.c and usb.c), the   *)
(* CDC RAW class (zephyr/subsys/usb/device_next/class/usbd_cdc_raw.c), the *)
(* driver of Dwc3Device and a host: one buffer goes from a read to a write *)
(* and back, for ever.                                                     *)
(*                                                                         *)
(* Threads: the main thread, the event worker, the USB stack's thread      *)
(* (usbd), which calls the class and through it the firmware's callbacks.  *)
(* The last two are cooperative, and main hands over its only buffer in    *)
(* one call: each step is atomic.  The host and the controller move at any *)
(* time.  The endpoints are not halted here.                               *)
(***************************************************************************)
EXTENDS Dwc3Device, FiniteSetsExt

\* The wMaxPacketSize of a bulk endpoint.
Sizes == {64, 512, 1024}

CONSTANTS BufPackets,  \* how many packets of each size fill the buffer
          MaxPackets,  \* the host sends that many packets of data
          MaxRequests, \* that many control requests,
          MaxBus       \* and resets or connects this many times

\* A host configures the device, and sets DTR or RTS ("open") or neither.
ASSUME RequestAssumption == Requests = {"config", "open", "close"}
ASSUME BoundAssumption ==
    /\ BufPackets \in [Sizes -> Nat \ {0}]
    /\ MaxPackets \in Nat /\ MaxRequests \in Nat /\ MaxBus \in Nat

VARIABLES
    main,        \* where main() is
    speed,       \* uds_ctx->status.speed
    early,       \* usbd read that speed before the bus reset was over
    lineState,   \* data->line_state
    mem, len,    \* input_buf[], in packets, and buf->len
    size,        \* buf->size, in packets of the size that the last read had
    got,         \* the packets received for the current read
    hostConf,    \* the host has configured the device since the last reset
    hostReq,     \* the control request under way
    requests,    \* how many control requests there were
    sent,        \* how many packets of data the device took from the host
    received,    \* the packets that the host received
    bus,         \* how many resets and connections there were
    dropped,     \* a configuration ended: its endpoints were disabled
    spoiled      \* one erased the length of a read whose event was to come

echoVars == <<main, speed, early, lineState, mem, len, size, got>>
hostVars == <<hostConf, hostReq, requests, sent, received, bus>>
ghosts   == <<dropped, spoiled>>
vars     == <<dwcVars, echoVars, hostVars, ghosts>>

\* A packet of data: its place in the stream, and in uppercase or not.
Packets == [n : 0 .. MaxPackets, upper : BOOLEAN]
Blank   == [n |-> 0, upper |-> FALSE]

NoReq   == "none"
MaxLen  == Max({BufPackets[m] : m \in Sizes})

Mains == {"setup", "init", "enable", "wait", "sleep", "error"}

TypeOK ==
    /\ initialized \in BOOLEAN /\ running \in BOOLEAN /\ failed \in BOOLEAN
    /\ evtNext \in 0 .. EventsNum - 1 /\ hwNext \in 0 .. EventsNum - 1
    /\ evtBuf \in [0 .. EventsNum - 1 -> EventKinds \cup {NoEvent}]
    /\ evtCount \in 0 .. EventsNum
    /\ link \in {"down", "reset", "up"} /\ dsts \in Speeds
    /\ mps0 \in {NoSize, 64, 512}
    /\ ep \in [Dirs -> Endpoints]
    /\ main \in Mains /\ speed \in Speeds /\ early \in BOOLEAN /\ lineState \in BOOLEAN
    /\ mem \in [1 .. MaxLen -> Packets]
    /\ len \in 0 .. MaxLen /\ size \in 0 .. MaxLen /\ got \in 0 .. MaxLen
    /\ hostConf \in BOOLEAN /\ hostReq \in Requests \cup {NoReq}
    /\ requests \in 0 .. MaxRequests
    /\ sent \in 0 .. MaxPackets /\ received \in Seq(Packets)
    /\ bus \in 0 .. MaxBus /\ dropped \in BOOLEAN /\ spoiled \in BOOLEAN

\* The buffer is allocated with its whole length.
Init ==
    /\ DwcInit
    /\ main = "setup" /\ speed = "fs" /\ early = FALSE /\ lineState = FALSE
    /\ mem = [i \in 1 .. MaxLen |-> Blank] /\ len = MaxLen /\ size = MaxLen /\ got = 0
    /\ hostConf = FALSE /\ hostReq = NoReq /\ requests = 0
    /\ sent = 0 /\ received = <<>> /\ bus = 0
    /\ dropped = FALSE /\ spoiled = FALSE

-----------------------------------------------------------------------------
(* main() *)

Goto(place) ==
    main' = place /\ UNCHANGED <<speed, early, lineState, mem, len, size, got, hostVars, ghosts>>

\* app_usb_init(): descriptors, configurations and classes are added...
AppUsbInit == main = "setup" /\ Goto("init") /\ UNCHANGED dwcVars

\* ... then the device is initialised, and enabled.
UsbdInit   == main = "init" /\ ApiInit /\ Goto("enable")
UsbdEnable == main = "enable" /\ ApiEnable /\ Goto("wait")

\* Any of these steps may fail: main() returns the error.
UsbFails == main \in {"setup", "init", "enable"} /\ Goto("error") /\ UNCHANGED dwcVars

\* cdc_raw_read(), cdc_raw_write(): the address of the bulk endpoint is the
\* same at all speeds.  A buffer that is refused is nobody's.
CdcRawRead ==
    /\ size' = IF ep["out"].on THEN BufPackets[ep["out"].mps] ELSE size
    /\ got' = IF ep["out"].on THEN 0 ELSE got
    /\ ep' = Enqueue("out", ep, size')

CdcRawWrite == ep' = Enqueue("in", ep, len) /\ UNCHANGED <<size, got>>

\* cdc_raw_is_ready(), polled every 10 ms; then the first read.  The mutant
\* does not wait.
IsReadyAtOnce == TRUE
IsReady == lineState

FirstRead ==
    /\ main = "wait" /\ IsReady
    /\ CdcRawRead
    /\ main' = IF ep["out"].on THEN "sleep" ELSE "error"
    /\ UNCHANGED <<initialized, running, events, link, dsts, mps0, msgs, failed, speed,
                   early, lineState, mem, len, hostVars, ghosts>>

Main == AppUsbInit \/ UsbdInit \/ UsbdEnable \/ UsbFails \/ FirstRead

-----------------------------------------------------------------------------
(* The event worker *)

\* For a buffer coming from the host, the length is what the status of the TRB, by
\* now, does not say is left.  The mutant forgets to store it.
LenKept(d) == len
LenReceived(d) == IF d = "out" THEN size - ep[d].left ELSE len

Worker ==
    /\ \/ (OnUsbReset \/ OnConnectDone) /\ UNCHANGED len
       \/ \E r \in Requests : OnCtrl(r) /\ UNCHANGED len
       \/ \E d \in Dirs : OnXferDone(d) /\ len' = LenReceived(d)
    /\ UNCHANGED <<main, speed, early, lineState, mem, size, got, hostVars, ghosts>>

-----------------------------------------------------------------------------
(* usbd: outside this repository, but for what it calls in the class *)

Message(kind, arg) ==
    /\ msgs # <<>> /\ ~failed
    /\ Head(msgs) = [kind |-> kind, arg |-> arg] /\ msgs' = Tail(msgs)
    /\ UNCHANGED <<initialized, running, events, link, dsts, mps0, failed>>

\* The bulk descriptors of the class, and the packet size of usbd's choice.
\* The mutant has none for SuperSpeed.
DescMpsNoSs(s) == IF s = "hs" THEN 512 ELSE 64
DescMps(s) == CASE s = "fs" -> 64 [] s = "hs" -> 512 [] s = "ss" -> 1024

AllDisabled == [d \in Dirs |-> Disabled(ep[d])]
Drops == dropped' = (dropped \/ \E d \in Dirs : ep[d].on)

\* The stack's handler of a bus reset ends the configuration and asks for the
\* speed of the bus, at once.
UsbdReset ==
    /\ Message("reset", "none")
    /\ ep' = AllDisabled /\ Drops
    /\ speed' = DeviceSpeed /\ early' = (link # "up")
    /\ UNCHANGED <<main, lineState, mem, len, size, got, hostVars, spoiled>>

\* The host hears of the answer to the request it still waits for.
Answer(r) ==
    /\ hostReq' = NoReq
    /\ hostConf' = (hostConf \/ (r = "config" /\ hostReq = r))
    /\ UNCHANGED <<requests, sent, received, bus>>

\* SET_CONFIGURATION: the endpoints are enabled, those of a former
\* configuration disabled first.  The class has nothing to do.  Where a read is
\* over whose event is still to come, this erases what its TRB says of its length.
UsbdConfig ==
    /\ Message("ctrl", "config")
    /\ ep' = [d \in Dirs |-> Enabled(AllDisabled[d], DescMps(speed))]
    /\ Drops /\ Answer("config")
    /\ spoiled' = (spoiled \/ ("out" \in ToSet(raised) /\ ep'["out"].left # ep["out"].left))
    /\ UNCHANGED <<main, speed, early, lineState, mem, len, size, got>>

\* usbd_cdc_raw_ctd(): wValue is stored as a bool, whose DTR bit is then
\* that of any signal.  usbd refuses it without a configuration.
UsbdLineState(r) ==
    /\ Message("ctrl", r) /\ r # "config"
    /\ lineState' = IF ep["out"].on THEN r = "open" ELSE lineState
    /\ Answer(r)
    /\ UNCHANGED <<ep, main, speed, early, mem, len, size, got, ghosts>>

\* usbd_cdc_raw_request(), my_read_callback(): what was received is put in
\* uppercase and written.  The mutant forgets to write.
Uppercase == [i \in 1 .. MaxLen |-> IF i <= len THEN [mem[i] EXCEPT !.upper = TRUE] ELSE mem[i]]

ReadCallbackNoWrite ==
    /\ Message("done", "out")
    /\ mem' = Uppercase
    /\ UNCHANGED <<ep, main, speed, early, lineState, len, size, got, hostVars, ghosts>>

ReadCallback ==
    /\ Message("done", "out")
    /\ mem' = Uppercase
    /\ CdcRawWrite
    /\ UNCHANGED <<main, speed, early, lineState, len, hostVars, ghosts>>

\* my_write_callback(): the same buffer is read into.
WriteCallback ==
    /\ Message("done", "in")
    /\ CdcRawRead
    /\ UNCHANGED <<main, speed, early, lineState, mem, len, hostVars, ghosts>>

Usbd == UsbdReset \/ UsbdConfig \/ (\E r \in Requests : UsbdLineState(r))
        \/ ReadCallback \/ WriteCallback

-----------------------------------------------------------------------------
(* The host *)

\* A control request, when there is no other.
HostRequest(r) ==
    /\ hostReq = NoReq /\ requests < MaxRequests
    /\ r = "config" \/ hostConf
    /\ HwCtrl(r)
    /\ hostReq' = r /\ requests' = requests + 1
    /\ UNCHANGED <<echoVars, hostConf, sent, received, bus, ghosts>>

\* A packet of data.  The transfer is over when the packet is a short one or
\* fills the buffer.  A short packet takes the place of a full one.
HostSends(short) ==
    /\ hostConf /\ link = "up" /\ Armed("out") /\ sent < MaxPackets
    /\ sent' = sent + 1 /\ got' = got + 1
    /\ mem' = [mem EXCEPT ![got'] = [n |-> sent', upper |-> FALSE]]
    /\ IF short \/ got' = size THEN HwComplete("out", size - got') ELSE UNCHANGED dwcVars
    /\ UNCHANGED <<main, speed, early, lineState, len, size, hostConf, hostReq, requests,
                   received, bus, ghosts>>

\* The host reads what the device has to send.
HostReads ==
    /\ hostConf /\ link = "up"
    /\ HwComplete("in", 0)
    /\ received' = received \o SubSeq(mem, 1, len)
    /\ UNCHANGED <<echoVars, hostConf, hostReq, requests, sent, bus, ghosts>>

\* The host does not act on the bus faster than the worker polls: the ring
\* has room for a request and a transfer besides (MaxBus bounds the model).
BusMoves ==
    /\ bus < MaxBus /\ evtCount < EventsNum - 2
    /\ bus' = bus + 1
    /\ UNCHANGED <<echoVars, requests, sent, received, ghosts>>

HostResets   == HwReset /\ BusMoves /\ hostConf' = FALSE /\ hostReq' = NoReq
HostConnects == BusMoves /\ (\E s \in Speeds : HwConnect(s)) /\ UNCHANGED <<hostConf, hostReq>>

Host ==
    \/ \E r \in Requests : HostRequest(r)
    \/ \E short \in BOOLEAN : HostSends(short)
    \/ HostReads \/ HostResets \/ HostConnects

-----------------------------------------------------------------------------
Next == Main \/ Worker \/ Usbd \/ Host

Spec == Init /\ [][Next]_vars

\* The worker polls for ever, usbd waits on its messages, and a host that is
\* connected reads.
FairSpec == Spec /\ WF_vars(Worker) /\ WF_vars(Usbd) /\ WF_vars(HostReads)

-----------------------------------------------------------------------------
(* Properties *)

\* The events in the ring from evt_next on are those that the controller
\* raised and nobody processed, oldest first, and they fit
\* (dwc3_process_all_events(), dwc3_ring_inc()).
EventsInOrder ==
    /\ evtCount = Len(raised)
    /\ \A i \in 1 .. evtCount : evtBuf[(evtNext + i - 1) % EventsNum] = raised[i]

\* Where the only buffer is.
Places == (IF main \in {"setup", "init", "enable", "wait"} THEN {"main"} ELSE {})
          \cup {d \in Dirs : ep[d].held}
          \cup (IF \E m \in ToSet(msgs) : m.kind = "done" THEN {"usbd"} ELSE {})

\* The firmware's buffer is never in two places: not in the hands of the
\* controller and of a callback, nor in both endpoints.  And it is lost only by
\* a failed start or with a configuration that ended: no callback forgets it,
\* and the first read is not refused, as a host that opens the port has
\* configured the device before.
BufferInOnePlace ==
    /\ Cardinality(Places) <= 1
    /\ Places = {} => dropped \/ (main = "error" /\ ~running)

\* No assertion on the way of an event fails: a completed transfer always
\* finds its buffer (udc_dwc3.c:977), whatever was reset and configured
\* meanwhile, and the device is initialised when it is enabled.
AssertionsHold == ~failed

\* A callback is told how much the host sent (udc_dwc3.c:980), however long its
\* event waited and whatever was configured meanwhile.  The code breaks this.
LengthReceived == [kind |-> "done", arg |-> "out"] \in ToSet(msgs) => len = got

\* The host gets back what it sent, in order, each packet once and in uppercase,
\* never old contents of the buffer, through resets and configurations - as long
\* as none erases the length of a read whose event is still to come.
EchoInOrder ==
    ~spoiled => /\ Len(received) <= sent
                /\ \A i \in 1 .. Len(received) : received[i] = [n |-> i, upper |-> TRUE]

\* Once the events of a connection are processed, the controller, the class
\* and the host agree on the packet sizes of the bus speed - unless usbd asked
\* for the speed before the bus reset was over, which nothing prevents.
Ep0Size  == [fs |-> 64, hs |-> 64, ss |-> 512]
BulkSize == [fs |-> 64, hs |-> 512, ss |-> 1024]

SizesAgree ==
    /\ link = "up" /\ {"reset", "connect"} \cap ToSet(raised) = {}
    /\ \A m \in ToSet(msgs) : m.kind # "reset"
    => /\ mps0 = Ep0Size[dsts]
       /\ early \/ \A d \in Dirs : ep[d].on => ep[d].mps = BulkSize[dsts]

\* The packets of the transfers that are over.
Complete == sent - (IF ep["out"].owned THEN got ELSE 0)

\* A host that stays connected gets the echo of every transfer it ended,
\* unless it ends the configuration: the buffer goes round for ever.
EchoAnswered ==
    \A n \in 1 .. MaxPackets :
        Complete >= n ~> Len(received) >= n \/ dropped \/ link # "up"
=============================================================================
