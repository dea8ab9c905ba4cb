------------------------------ MODULE Dwc3Bulk ------------------------------
(***************************************************************************)
(* One non-control endpoint of the DWC3 device-controller driver           *)
(* (zephyr/drivers/usb/udc/udc_dwc3.c): the fifo of submitted buffers, the *)
(* ring of TRBs shared with the controller, the lock-free flush of one     *)
(* into the other, and the event worker that pops what completed.          *)
(*                                                                         *)
(* Contexts.  API callers are serialised by the mutex of the UDC layer.    *)
(* The event worker takes no mutex: it runs on the system work queue, a    *)
(* cooperative thread, so no thread preempts it, while it may preempt the  *)
(* callers of Preemptible (firmware/zephyr_cdc_raw/src/main.c:94) between  *)
(* any two steps.  The controller runs in parallel with everything.        *)
(*                                                                         *)
(* An operator defined just before another one, with its name prolonged,   *)
(* is a mutant of it: the code with a plausible bug, used to show that a   *)
(* property depends on that line.  No specification refers to it.          *)
(***************************************************************************)
EXTENDS Integers, Sequences, FiniteSets, SequencesExt

CONSTANTS TrbNum,        \* CONFIG_UDC_DWC3_TRB_NUM
          Buffers,       \* the net_bufs the application owns
          Callers,       \* the threads that call the UDC API
          Preemptible,   \* those of them that the worker may preempt
          Worker,        \* the event worker
          NoBuf, NoCtx   \* NULL, and nobody

ASSUME TrbNumAssumption == TrbNum \in Nat /\ TrbNum >= 3
ASSUME BufferAssumption == NoBuf \notin Buffers
ASSUME ContextAssumption ==
    /\ Preemptible \subseteq Callers
    /\ Worker \notin Callers
    /\ NoCtx \notin Callers

Ctxs == Callers \cup {Worker}

\* The last TRB is the LINK TRB: it holds no buffer.
Slots == 0 .. TrbNum - 2

RingIncPastLink(n) == IF n + 1 >= TrbNum THEN 0 ELSE n + 1
RingInc(n) == IF n + 1 >= TrbNum - 1 THEN 0 ELSE n + 1

VARIABLES
    fifo,      \* ep_cfg->fifo: the submitted buffers with no TRB yet
    netbuf,    \* ep_data->net_buf[]: the buffer of each TRB
    hwo,       \* DWC3_TRB_CTRL_HWO of each TRB: owned by the controller
    addr,      \* the buffer that each TRB's address points to
    head, tail, full,
    busy, extra,           \* DWC3_EP_FLAG_BUSY, DWC3_EP_FLAG_EXTRA_CHECK
    halted,                \* cfg.stat.halted, and the controller's stall
    lock,                  \* the holder of udc_data.mutex
    pc,                    \* where each context is in the driver
    buf, seen,             \* the contexts' locals: buffer, head == tail
    hwPos, hwState, hwBuf, \* the TRB the controller is at, and its target
    events,                \* XFERINPROGRESS events in the event ring
    app                    \* the buffers the application owns

ring   == <<head, tail, full>>
locals == <<buf, seen>>
hw     == <<hwPos, hwState, hwBuf>>
vars   == <<fifo, netbuf, hwo, addr, ring, busy, extra, halted, lock, pc,
            locals, hw, events, app>>

\* Between BEGIN and END CRITICAL SECTION.
Critical == {"peek", "addr", "head", "full", "update", "get", "leave"}
Places == {"idle", "flush", "tas", "recheck", "submit"} \cup Critical

TypeOK ==
    /\ fifo \in Seq(Buffers)
    /\ netbuf \in [Slots -> Buffers \cup {NoBuf}]
    /\ hwo \in [Slots -> BOOLEAN]
    /\ addr \in [Slots -> Buffers \cup {NoBuf}]
    /\ head \in Slots /\ tail \in Slots /\ full \in BOOLEAN
    /\ busy \in BOOLEAN /\ extra \in BOOLEAN /\ halted \in BOOLEAN
    /\ lock \in Callers \cup {NoCtx}
    /\ pc \in [Ctxs -> Places]
    /\ buf \in [Ctxs -> Buffers \cup {NoBuf}]
    /\ seen \in [Ctxs -> BOOLEAN]
    /\ hwPos \in Slots
    /\ hwState \in {"off", "walk", "idle", "xfer"}
    /\ hwBuf \in Buffers \cup {NoBuf}
    /\ events \in Nat
    /\ app \subseteq Buffers

\* The endpoint was enabled once: dwc3_trb_norm_init() left the controller
\* at TRB 0, which it does not own.
Init ==
    /\ fifo = <<>> /\ app = Buffers
    /\ netbuf = [i \in Slots |-> NoBuf]
    /\ hwo = [i \in Slots |-> FALSE]
    /\ addr = [i \in Slots |-> NoBuf]
    /\ head = 0 /\ tail = 0 /\ full = FALSE
    /\ busy = FALSE /\ extra = FALSE /\ halted = FALSE
    /\ lock = NoCtx
    /\ pc = [c \in Ctxs |-> "idle"]
    /\ buf = [c \in Ctxs |-> NoBuf]
    /\ seen = [c \in Ctxs |-> FALSE]
    /\ hwPos = 0 /\ hwState = "walk" /\ hwBuf = NoBuf
    /\ events = 0

-----------------------------------------------------------------------------
(* Scheduling *)

\* A single core.  Callers run only while the worker is not running; the
\* worker waits for the callers it cannot preempt.
RunsAnytime(c) == TRUE
Runs(c) ==
    IF c = Worker THEN \A d \in Callers \ Preemptible : pc[d] = "idle"
                  ELSE pc[Worker] = "idle"

At(c, step) == pc[c] = step /\ Runs(c)
Goto(c, step) == pc' = [pc EXCEPT ![c] = step]

\* A caller enters the driver with the mutex of the UDC layer.
ApiEntry(c) == c \in Callers /\ At(c, "idle") /\ lock = NoCtx

\* Back to the caller: udc_ep_*() unlocks.  The worker holds no mutex.
Return(c) ==
    /\ Goto(c, "idle")
    /\ lock' = IF c = Worker THEN lock ELSE NoCtx

-----------------------------------------------------------------------------
(* dwc3_api_ep_enqueue() and dwc3_flush_buffer_queue() *)

Enqueue(c, b) ==
    /\ ApiEntry(c) /\ b \in app /\ hwState # "off"
    /\ lock' = c
    /\ fifo' = Append(fifo, b)
    /\ app' = app \ {b}
    /\ Goto(c, "flush")
    /\ UNCHANGED <<netbuf, hwo, addr, ring, busy, extra, halted, locals, hw, events>>

\* Without the halted check.
FlushBeginHalted(c) ==
    /\ At(c, "flush")
    /\ extra' = TRUE /\ Goto(c, "tas") /\ UNCHANGED lock
    /\ UNCHANGED <<fifo, netbuf, hwo, addr, ring, busy, halted, locals, hw, events, app>>

\* Without EXTRA_CHECK.
FlushBeginNoExtra(c) ==
    /\ At(c, "flush")
    /\ IF halted
       THEN Return(c)
       ELSE Goto(c, "tas") /\ UNCHANGED lock
    /\ UNCHANGED <<fifo, netbuf, hwo, addr, ring, busy, extra, halted, locals, hw, events, app>>

FlushBegin(c) ==
    /\ At(c, "flush")
    /\ IF halted
       THEN Return(c) /\ UNCHANGED extra
       ELSE extra' = TRUE /\ Goto(c, "tas") /\ UNCHANGED lock
    /\ UNCHANGED <<fifo, netbuf, hwo, addr, ring, busy, halted, locals, hw, events, app>>

\* Enters whoever is inside.
FlushEnterAlways(c) ==
    /\ At(c, "tas")
    /\ busy' = TRUE /\ Goto(c, "peek") /\ UNCHANGED lock
    /\ UNCHANGED <<fifo, netbuf, hwo, addr, ring, extra, halted, locals, hw, events, app>>

FlushEnter(c) ==
    /\ At(c, "tas")
    /\ busy' = TRUE
    /\ IF busy THEN Return(c) ELSE Goto(c, "peek") /\ UNCHANGED lock
    /\ UNCHANGED <<fifo, netbuf, hwo, addr, ring, extra, halted, locals, hw, events, app>>

\* dwc3_trb_bulk() on the first buffer, up to the TRB's ctrl word: it
\* belongs to the controller from here on.  Nothing to send, or no room:
\* the loop ends.
RoomAlways == TRUE
Room == ~full

TrbBulk(c) ==
    /\ At(c, "peek")
    /\ IF fifo # <<>> /\ Room
       THEN /\ buf' = [buf EXCEPT ![c] = Head(fifo)]
            /\ netbuf' = [netbuf EXCEPT ![head] = Head(fifo)]
            /\ hwo' = [hwo EXCEPT ![head] = TRUE]
            /\ Goto(c, "addr")
       ELSE Goto(c, "leave") /\ UNCHANGED <<buf, netbuf, hwo>>
    /\ UNCHANGED <<fifo, addr, ring, busy, extra, halted, lock, seen, hw, events, app>>

\* trb->addr_lo, addr_hi and status.  The mutant moved the head before.
PushAddrLate(c) ==
    /\ At(c, "addr")
    /\ addr' = [addr EXCEPT ![RingInc(head)] = buf[c]]
    /\ Goto(c, "head")
    /\ UNCHANGED <<fifo, netbuf, hwo, ring, busy, extra, halted, lock, locals, hw, events, app>>

PushAddr(c) ==
    /\ At(c, "addr")
    /\ addr' = [addr EXCEPT ![head] = buf[c]]
    /\ Goto(c, "head")
    /\ UNCHANGED <<fifo, netbuf, hwo, ring, busy, extra, halted, lock, locals, hw, events, app>>

\* The head moves, and is compared with the tail...
PushHead(c) ==
    /\ At(c, "head")
    /\ head' = RingInc(head)
    /\ seen' = [seen EXCEPT ![c] = (head' = tail)]
    /\ Goto(c, "full")
    /\ UNCHANGED <<fifo, netbuf, hwo, addr, tail, full, busy, extra, halted, lock,
                   buf, hw, events, app>>

\* ... and the outcome is stored.
PushFull(c) ==
    /\ At(c, "full")
    /\ full' = seen[c]
    /\ Goto(c, "update")
    /\ UNCHANGED <<fifo, netbuf, hwo, addr, head, tail, busy, extra, halted, lock,
                   locals, hw, events, app>>

\* dwc3_depcmd_update_xfer(): an idle controller looks at its TRB again.
\* The mutant forgets the command.
UpdateXferSkipped(c) ==
    /\ At(c, "update")
    /\ Goto(c, "get")
    /\ UNCHANGED <<fifo, netbuf, hwo, addr, ring, busy, extra, halted, lock, locals,
                   hw, events, app>>

UpdateXfer(c) ==
    /\ At(c, "update")
    /\ hwState' = IF hwState = "idle" THEN "walk" ELSE hwState
    /\ Goto(c, "get")
    /\ UNCHANGED <<fifo, netbuf, hwo, addr, ring, busy, extra, halted, lock, locals,
                   hwPos, hwBuf, events, app>>

BufGet(c) ==
    /\ At(c, "get")
    /\ fifo' = Tail(fifo)
    /\ buf' = [buf EXCEPT ![c] = NoBuf]
    /\ Goto(c, "peek")
    /\ UNCHANGED <<netbuf, hwo, addr, ring, busy, extra, halted, lock, seen, hw, events, app>>

FlushLeave(c) ==
    /\ At(c, "leave")
    /\ busy' = FALSE
    /\ Goto(c, "recheck")
    /\ UNCHANGED <<fifo, netbuf, hwo, addr, ring, extra, halted, lock, locals, hw, events, app>>

\* Someone was refused, or this context's own request is still there: again.
FlushRecheck(c) ==
    /\ At(c, "recheck")
    /\ extra' = FALSE
    /\ IF extra THEN Goto(c, "tas") /\ UNCHANGED lock ELSE Return(c)
    /\ UNCHANGED <<fifo, netbuf, hwo, addr, ring, busy, halted, locals, hw, events, app>>

Flush(c) ==
    \/ FlushBegin(c) \/ FlushEnter(c) \/ TrbBulk(c) \/ PushAddr(c) \/ PushHead(c)
    \/ PushFull(c) \/ UpdateXfer(c) \/ BufGet(c) \/ FlushLeave(c) \/ FlushRecheck(c)

-----------------------------------------------------------------------------
(* The event worker: dwc3_on_xfer_done_norm() *)

\* The pop forgets that there is room again.
PopStillFull(popped) == full
PopFull(popped) == IF popped = NoBuf THEN full ELSE FALSE

PopTrb ==
    /\ At(Worker, "idle") /\ events > 0
    /\ events' = events - 1
    /\ buf' = [buf EXCEPT ![Worker] = netbuf[tail]]
    /\ netbuf' = [netbuf EXCEPT ![tail] = NoBuf]
    /\ tail' = RingInc(tail)
    /\ full' = PopFull(netbuf[tail])
    /\ Goto(Worker, "submit")
    /\ UNCHANGED <<fifo, hwo, addr, head, busy, extra, halted, lock, seen, hw, app>>

\* udc_submit_ep_event(): the class gets its buffer back; then there is room
\* for another one.  The assertion that there is a buffer precedes it.
SubmitNoFlush ==
    /\ At(Worker, "submit") /\ buf[Worker] # NoBuf
    /\ app' = app \cup {buf[Worker]}
    /\ buf' = [buf EXCEPT ![Worker] = NoBuf]
    /\ Goto(Worker, "idle")
    /\ UNCHANGED <<fifo, netbuf, hwo, addr, ring, busy, extra, halted, lock, seen, hw, events>>

Submit ==
    /\ At(Worker, "submit") /\ buf[Worker] # NoBuf
    /\ app' = app \cup {buf[Worker]}
    /\ buf' = [buf EXCEPT ![Worker] = NoBuf]
    /\ Goto(Worker, "flush")
    /\ UNCHANGED <<fifo, netbuf, hwo, addr, ring, busy, extra, halted, lock, seen, hw, events>>

-----------------------------------------------------------------------------
(* The controller: not in this repository, known by how the driver uses it *)

\* It reads a TRB it owns: the address it then finds is where data goes.
HwFetch ==
    /\ hwState = "walk" /\ hwo[hwPos]
    /\ hwState' = "xfer" /\ hwBuf' = addr[hwPos]
    /\ UNCHANGED <<fifo, netbuf, hwo, addr, ring, busy, extra, halted, lock, pc,
                   locals, hwPos, events, app>>

\* A TRB it does not own stops it until the next Update Transfer.
HwStop ==
    /\ hwState = "walk" /\ ~hwo[hwPos]
    /\ hwState' = "idle"
    /\ UNCHANGED <<fifo, netbuf, hwo, addr, ring, busy, extra, halted, lock, pc,
                   locals, hwPos, hwBuf, events, app>>

\* The host's transfer is over: the TRB is the driver's again and, as each
\* TRB has IOC, an event says so.  A stalled endpoint transfers nothing.
HwComplete ==
    /\ hwState = "xfer" /\ ~halted
    /\ hwo' = [hwo EXCEPT ![hwPos] = FALSE]
    /\ hwPos' = RingInc(hwPos)
    /\ hwState' = "walk" /\ hwBuf' = NoBuf
    /\ events' = events + 1
    /\ UNCHANGED <<fifo, netbuf, addr, ring, busy, extra, halted, lock, pc, locals, app>>

Hw == HwFetch \/ HwStop \/ HwComplete

-----------------------------------------------------------------------------
(* The other endpoint operations of the UDC API *)

\* dwc3_api_ep_dequeue(): what no TRB refers to is handed back.
EpDequeueFirstOnly(c) ==
    /\ ApiEntry(c) /\ fifo # <<>>
    /\ app' = app \cup {Head(fifo)}
    /\ fifo' = <<>>
    /\ UNCHANGED <<netbuf, hwo, addr, ring, busy, extra, halted, lock, pc, locals, hw, events>>

EpDequeue(c) ==
    /\ ApiEntry(c) /\ fifo # <<>>
    /\ app' = app \cup ToSet(fifo)
    /\ fifo' = <<>>
    /\ UNCHANGED <<netbuf, hwo, addr, ring, busy, extra, halted, lock, pc, locals, hw, events>>

SetHalt(c) ==
    /\ ApiEntry(c) /\ ~halted
    /\ halted' = TRUE
    /\ UNCHANGED <<fifo, netbuf, hwo, addr, ring, busy, extra, lock, pc, locals, hw, events, app>>

ClearHalt(c) ==
    /\ ApiEntry(c) /\ halted
    /\ halted' = FALSE
    /\ UNCHANGED <<fifo, netbuf, hwo, addr, ring, busy, extra, lock, pc, locals, hw, events, app>>

\* dwc3_api_ep_disable(): the controller ignores the endpoint; no End Transfer.
EpDisable(c) ==
    /\ ApiEntry(c) /\ hwState # "off"
    /\ hwState' = "off" /\ hwBuf' = NoBuf
    /\ UNCHANGED <<fifo, netbuf, hwo, addr, ring, busy, extra, halted, lock, pc,
                   locals, hwPos, events, app>>

\* dwc3_api_ep_enable(): the TRBs are zeroed and a transfer starts at TRB 0;
\* head, tail, full and net_buf[] keep their values.
EpEnable(c) ==
    /\ ApiEntry(c) /\ hwState = "off"
    /\ hwo' = [i \in Slots |-> FALSE]
    /\ addr' = [i \in Slots |-> NoBuf]
    /\ hwPos' = 0 /\ hwState' = "walk" /\ UNCHANGED hwBuf
    /\ lock' = c
    /\ Goto(c, "flush")
    /\ UNCHANGED <<fifo, netbuf, ring, busy, extra, halted, locals, events, app>>

-----------------------------------------------------------------------------
(* Specifications *)

Transfer ==
    \/ \E c \in Callers, b \in Buffers : Enqueue(c, b)
    \/ \E c \in Ctxs : Flush(c)
    \/ PopTrb \/ Submit \/ Hw

Next == Transfer \/ \E c \in Callers : EpDequeue(c)

HaltNext  == Next \/ \E c \in Callers : SetHalt(c) \/ ClearHalt(c)
ReconfNext == Next \/ \E c \in Callers : EpDisable(c) \/ EpEnable(c)

Spec       == Init /\ [][Next]_vars
HaltSpec   == Init /\ [][HaltNext]_vars
ReconfSpec == Init /\ [][ReconfNext]_vars

\* The threads run when they can, the work queue polls for events every
\* CONFIG_UDC_DWC3_EVENTS_POLL_MS, and the host asks for its data.
Fairness ==
    /\ \A c \in Ctxs : WF_vars(Flush(c))
    /\ WF_vars(PopTrb) /\ WF_vars(Submit) /\ WF_vars(Hw)

\* No dequeue here: it returns buffers by itself and would hide a driver
\* that does not.
LiveNext == Transfer \/ \E c \in Callers : SetHalt(c) \/ ClearHalt(c)
FairSpec == Init /\ [][LiveNext]_vars /\ Fairness

-----------------------------------------------------------------------------
(* Properties *)

Quiet == \A c \in Ctxs : pc[c] = "idle"
Occupied == {i \in Slots : netbuf[i] # NoBuf}

\* A context that holds the first buffer of the fifo, not removed yet.
Moving == \E c \in Ctxs : pc[c] \in {"addr", "head", "full", "update", "get"}

\* A push that wrote its TRB has not moved the head yet.
Pushing == \E c \in Ctxs : pc[c] \in {"addr", "head"}
LastSlot == IF Pushing THEN RingInc(head) ELSE head

\* BUSY keeps two contexts from pushing at once (udc_dwc3.c:1326-1343).
CriticalSection ==
    \A c, d \in Ctxs : pc[c] \in Critical /\ pc[d] \in Critical => c = d

\* The buffers whose TRB is in use are exactly those from the tail to the
\* head (udc_dwc3.h:575-576), whatever interrupted the push or the pop.
RingExact ==
    \A i \in Slots : netbuf[i] # NoBuf <=>
        \/ tail <= i /\ i < LastSlot
        \/ LastSlot < tail /\ (tail <= i \/ i < LastSlot)
        \/ tail = LastSlot /\ Occupied # {}

\* A completion event always finds the buffer of a TRB that the controller
\* gave back: the assertions at udc_dwc3.c:75 and :977 cannot fail.
PopFindsBuffer ==
    /\ events > 0 => netbuf[tail] # NoBuf /\ ~hwo[tail]
    /\ pc[Worker] = "submit" => buf[Worker] # NoBuf

\* No TRB is reused before its buffer was handed back (udc_dwc3.c:73-75).
NoOverwrite ==
    [][\A i \in Slots : netbuf'[i] # netbuf[i] => NoBuf \in {netbuf[i], netbuf'[i]}]_vars

\* No lost wake-up: once every context has left the driver, a buffer waits
\* in the fifo only because the ring is flagged full (udc_dwc3.c:1349-1351).
NoStranded == Quiet /\ fifo # <<>> /\ ~halted => full

\* "full" tells when the ring buffer is full (udc_dwc3.h:581-582).
FullFlagExact == Quiet => (full <=> Occupied = Slots)

\* Whenever nothing can move any more, nothing is left to move: a submitted
\* buffer is transferred whenever the host asks for it (usb_cdc_raw.h:48).
NothingLeftBehind ==
    Quiet /\ events = 0 /\ hwState = "idle" /\ ~halted
        => fifo = <<>> /\ Occupied = {}

\* An endpoint that is never halted never gets there with a buffer left
\* (usb_cdc_raw.h:48); after a halt it may (udc_dwc3.c:1115-1127).
NothingStuck == [](~halted) => []NothingLeftBehind

\* At any time a buffer is in one place: with the application, in the fifo,
\* in the ring or with the worker (usb_cdc_raw.h:48-50).  The buffer being
\* moved into the ring still heads the fifo.
Queued == {fifo[k] : k \in IF Moving THEN 2..Len(fifo) ELSE 1..Len(fifo)}
InRing == {netbuf[i] : i \in Occupied}
Conserved ==
    LET popped == {b \in {buf[Worker]} : pc[Worker] = "submit"}
    IN /\ app \cup ToSet(fifo) \cup InRing \cup popped = Buffers
       /\ Cardinality(app) + Cardinality(Queued) + Cardinality(Occupied)
            + Cardinality(popped) = Cardinality(Buffers)

\* The application gets a buffer only when the driver no longer uses it
\* (usb_cdc_raw.h:49: "then free it").
NoEarlyDelivery == app \cap (ToSet(fifo) \cup InRing) = {}

\* The controller transfers to or from the buffer recorded for its TRB
\* (udc_dwc3.h:569-573, "with index matching the position"), unless it read the
\* TRB in the one step where it owns it and the address is still an old one
\* (udc_dwc3.c:80-82): no other interruption of a push or a pop exposes it.
FetchOutsideWindow ==
    [][hwState = "walk" /\ hwState' = "xfer" /\ (\A c \in Ctxs : pc[c] # "addr")
       => hwBuf' = netbuf[hwPos] /\ hwBuf' # NoBuf]_vars

\* A halted endpoint hands no further buffer to the controller
\* (udc_dwc3.c:1316-1319).
HaltBlocksPush ==
    [][halted => \A i \in Slots : netbuf'[i] \in {netbuf[i], NoBuf}]_vars

\* Every submitted buffer comes back, unless the endpoint is halted
\* (usb_cdc_raw.h:48-50).
EveryBufferReturns == [](~halted) => \A b \in Buffers : b \notin app ~> b \in app

(* The endpoint implements EndpointQueue: its queue is the buffer the       *)
(* worker holds, then the ring from the tail, then the fifo.                *)
RingFrom(i) ==
    LET n == Cardinality(Occupied)
    IN [k \in 1..n |-> netbuf[(i + k - 1) % (TrbNum - 1)]]

QueueView ==
    (IF pc[Worker] = "submit" THEN <<buf[Worker]>> ELSE <<>>)
    \o RingFrom(tail)
    \o (IF Moving THEN Tail(fifo) ELSE fifo)

Abstract == INSTANCE EndpointQueue WITH queue <- QueueView

AbstractSpec == Abstract!Spec
=============================================================================
