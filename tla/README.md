# Formal models of the tinyCLUNX33 Zephyr drivers

TLA+ models of the software of this repository, checked with TLC on small
instances and, for the two kinds of USB endpoints, the echo firmware and the I2C multiplexer, proved
with TLAPS for every size.
File names below are relative to `src/`; `udc_dwc3.c` is
`zephyr/drivers/usb/udc/udc_dwc3.c`.

## 1. The system

The repository holds the Zephyr support of a CrossLinkU-NX33 FPGA module: a
RISC-V core, a DWC3 USB3 device controller, an I2C master, a clock generator, an
image sensor, and firmware that uses them.  The program's own logic is in the
USB driver; the rest are short drivers and applications.

| Component | State it keeps | Operations | Talks to | What makes it correct |
|---|---|---|---|---|
| Non-control endpoints, `udc_dwc3.c` | fifo of buffers, `net_buf[]`, TRBs, `head`, `tail`, `full`, `BUSY`, `EXTRA_CHECK`, `halted` | enqueue, dequeue, enable, disable, halt, un-halt, completion | application and usbd (calls under the UDC mutex), event worker (no mutex), controller (shared TRBs, events) | a buffer is in one place, is transferred once, in order, and comes back; no TRB is reused; no buffer waits for nothing |
| Control endpoint, `udc_dwc3.c` | one TRB and one buffer per direction, stage, address | the stages of three kinds of transfer, stall, reset, set address | host, usbd (messages), event worker | one owner at a time; always back to the next setup packet; the address is the host's |
| Event ring and life cycle, `udc_dwc3.c` | `evt_next`, `INITIALIZED`, `RUNSTOP` | poll, init, enable, disable, shutdown | controller, UDC layer | each event processed once; enable after disable works |
| Registers, commands, shell | registers | read, write, command | controller | encodings |
| CDC RAW class, `usbd_cdc_raw.c` | line state, two callbacks | read, write, control request, completion | usbd, application | the callback gets each buffer once |
| Echo firmware, `firmware/zephyr_cdc_raw` | one buffer | read, upper-case, write, read ... | CDC RAW | the buffer keeps circulating |
| OpenCores I2C, `i2c_opencores.c` | `next_cr`, `t_buf_delay`, `dev_config` | configure, transfer | devices on the bus, by polling with timeouts | what is reported as read was read; the bus is released |
| PCA9542A multiplexer, `i2c_pca9542a.c` | `chan_selected`, mutex | transfer on a channel | I2C master, several threads | a transfer goes to the channel it names |
| SI5351 clock, `clock_control_si5351.c` | registers | init | I2C | clocks are enabled once the PLL is locked |
| IMX219 sensor, `imx219.c` | format, `fps`, controls | set and get format, interval, stream, controls | I2C | what the driver reports is what the sensor was told |
| Bare-metal firmware, SoC, scripts, patches, hardware | none to speak of | | | not modelled: see section 8 |

**Hard behaviours.**  The event worker runs on the system work queue, a
cooperative thread that takes no lock, and can preempt the application's main
thread inside the driver at any instruction.  The controller reads the TRBs while
they are written.  The host drops and resets what it started.  usbd hears of
events later than the worker.  Endpoints are halted, disabled and enabled with
buffers in flight.  An I2C transfer fails at any byte, with the device in the
middle of something, and the driver above must still know where the chip is.  `PROJECT.json` lists each hazard with its line.

## 2. Plan

1. `EndpointQueue`, `Dwc3Bulk`: the endpoint and its abstract promise.
   `Dwc3BulkProofs`: types, mutual exclusion, no lost wake-up, ring;
   `Dwc3BulkRefinement`: the endpoint implements its promise;
   `Dwc3BulkBufferProofs`: halts, the full flag, who owns each buffer.  *Done.*
2. `Dwc3Control`, `Dwc3ControlProofs`: EP0, all of its safety proved.  *Done.*
3. `OpencoresI2c`, `Pca9542a`, `Pca9542aProofs`: transfers byte by byte, two
   threads on two channels, faults; the cache, the routing, what is moved and the
   state of the bus proved.  *Done.*
4. `Dwc3Device`, `CdcEcho`: start, event ring, connection, and on top of them the
   class, the firmware and the host.  `CdcEchoProofs`: types, the event ring, the
   one buffer, the assertions; `CdcEchoDataProofs`: packet sizes and data.  *Done.*
5. `Imx219`, `Imx219Proofs`, `Si5351`: settings against registers, with accesses that
   fail; all that the run of the sensor checks is proved.  *Done.*
6. `Dwc3Chain`: ZLP, CHN and `total`, against a reference that cuts a stream of
   buffers into transfers.  *Left.*

Modules that are proved about have no RECURSIVE operator; their parameters are
CONSTANTS with named assumptions.

## 3. Modules

How they compose: `CdcEcho` extends `Dwc3Device`, and conjoins its actions with
those of the class, usbd, the firmware and the host; `Pca9542a` extends
`OpencoresI2c`, whose transfers it starts and waits for.  `Dwc3Device` shows at the
grain of one event what `Dwc3Bulk` shows at the grain of one memory access and
`Dwc3Control` at that of one stage.

### `EndpointQueue`
What a non-control endpoint promises to a class: `Submit`, `Complete` in
submission order, `Abort` of the youngest buffers (`-ECONNABORTED`).

### `Dwc3Bulk`
One non-control endpoint; the variables carry the names of the fields of
`struct dwc3_ep_data`.

- *Contexts.*  `pc[c]` says where context `c` is in the driver.  `Runs` is the
  scheduler of a single core: a caller runs while the worker is outside the
  driver; the worker waits for the cooperative callers (usbd) and preempts those of
  `Preemptible` (`main`) between any two steps.  `ApiEntry` and `Return` take and
  release the mutex of the UDC layer, which the worker never takes.  (The mutex
  could only delay the worker through priority inheritance; letting it run allows
  more.)
- *Grain.*  `dwc3_flush_buffer_queue()`, `dwc3_trb_bulk()` and `dwc3_push_trb()` are
  cut at every access to something another context or the controller sees:
  `FlushBegin` (halted, `EXTRA_CHECK`), `FlushEnter` (test-and-set of `BUSY`),
  `TrbBulk` (peek, full, `net_buf`, ctrl with HWO), `PushAddr`, `PushHead` (head
  and the comparison), `PushFull` (the store), `UpdateXfer`, `BufGet`,
  `FlushLeave`, `FlushRecheck`.
- *Worker.*  `PopTrb` is `dwc3_pop_trb()`: no thread runs in the middle of it and
  the controller does not look at what it changes.  `Submit` is the delivery to
  the class; the worker's flush follows, by the same actions.
- *Controller.*  `HwFetch` reads the TRB it owns, `HwStop` meets one it does not
  own, `HwComplete` gives it back with an event.  External: known from how the
  driver uses it.
- *Other calls.*  `EpDequeue`, `SetHalt`, `ClearHalt`, `EpDisable`, `EpEnable`.
  The UDC layer refuses an enqueue on a disabled endpoint.  RUNSTOP is set whenever
  an endpoint can be enqueued to, so the other branch at `udc_dwc3.c:1045` is left
  out.
- *Left out.*  Lengths, ZLP, CHN, `total` (plan, 6); the status of the TRB, whose code
  only chooses a log line (`udc_dwc3.c:945-961`) and whose length is in `Dwc3Device`.

### `Dwc3Control`
EP0: `outBuf`, `outTrb`, `outOwned` and the three of IN are `net_buf[0]`, the TRB's
type and its HWO.  The worker (`OnCtrlOut`, `OnCtrlIn`, `OnUsbReset`) and usbd
(`UsbdAccepts`: enqueue on EP0 IN; `UsbdRefuses`: halt; `UsbdStatus`, `UsbdReset`:
set address) are cooperative: one handler is one step.  Only the 1 ms sleep of
`dwc3_on_ctrl_write_data()` lets usbd in, and it is the handler's last statement.
`StageAfter*` is `udc_ctrl_update_stage()` of the UDC layer.  A request is reduced
to the direction of its data stage and the address that its setup packet or its
data spells for `dwc3_on_ctrl_out()`.  The host may start a request, drop one at
any stage after the setup packet, and reset the bus; what the driver had armed for
a dropped request completes without data when the next setup packet waits
(`HwSetupPending`).  The device hears only what is sent to its address.  A host
that lost track of the address (a dropped SET_ADDRESS) resets the bus.

The exit latency command of usbd writes one register that nothing reads, and is
left out, and so are lengths: a data stage is one transfer.

### `Dwc3Device`
The same driver from the outside in: `ApiInit` and `ApiEnable` (the soft reset
empties the event ring), the ring `evtBuf` with the driver's `evtNext` and the
controller's `hwNext` and `evtCount`, `Take` (the head of
`dwc3_process_all_events()`), one action per kind of event (`OnUsbReset`,
`OnConnectDone`, `OnCtrl`, `OnXferDone`), and the two bulk endpoints with at most
one buffer each: `at` is head and tail of the empty ring, `held` its `net_buf`,
`owned` its HWO, `left` what its status says is left of the transfer (BUFSIZ), `hw` where
the controller is.  `Enqueue` sets `left` to the size of the buffer, `HwComplete` to what the
host did not fill, and `Zeroed`, the memset of `dwc3_api_ep_enable()`, to nothing, whether or not
the event of the transfer has been processed.  `raised` is a history of what the
ring should hold.  The events that are only logged (disconnect, link state,
wake-up, suspend...) are left out: their handlers change nothing.

### `CdcEcho`
main, the class and the host on top of `Dwc3Device`.

- *main* (`AppUsbInit`, `UsbdInit`, `UsbdEnable`, `FirstRead`) may fail at every step
  of the start, and then returns.
- *Class.*  `CdcRawRead` and `CdcRawWrite` hand the buffer to an endpoint, which refuses
  it when it is not enabled; `UsbdLineState` is `usbd_cdc_raw_ctd()`, where any signal
  counts as DTR; `ReadCallback` and `WriteCallback` are `usbd_cdc_raw_request()` with the
  firmware's callbacks; `DescMps` is the choice among the three descriptors.
- *usbd* (external) handles its messages in order: reset, configuration, line state,
  completions.
- *Host.*  It configures, opens and closes, sends full and short packets, reads, resets
  the bus and connects at any speed.  `mem` is the one buffer, in packets: stale
  contents and a stale `len` are in the model.
- *Length.*  `LenReceived` is `buf->size` less what the status of the TRB says is left, read
  when the event is processed (`udc_dwc3.c:980-983`); `got` is what was received in fact, and
  no handler reads it.  Lengths are counted in packets: a short packet ends the transfer,
  and takes the place of one.
- *Excuses.*  `early`: usbd asked for the speed while the reset was under way;
  `dropped`: the host ended a configuration, which takes the buffer along; `spoiled`: a
  configuration erased the length of a read that was over and whose event was to come.

### `OpencoresI2c`
`opencores_i2c_transfer()` cut at every byte: `NextMessage` (STOP of the former
message, START), `SendAddress`, `WriteByte`, `ReadByte`, `EndMessage`, `Finish`.
`io[t]` is the stack frame of thread `t`, `nextCr` the shared `next_cr`.  `bus` is what the
devices heard since the last STOP: who was addressed, whether a device drives the
data line (`held`: a read whose last byte was not answered by NACK blocks the
STOP), and the channel written to the multiplexer chip, which takes effect at the STOP
(`pend`).  Faults: a byte is refused by a device that listens, a flag stays set until
the driver gives up (the byte may have been taken or not), `configure()` resets the
controller in the middle of a transfer.  `fault` remembers those of the current transfer.
Speeds and delays are left out.

### `Pca9542a`
Threads that call `pca9542a_transfer()`: `Call`, `Lock` (the mutex, then the cached
channel or a selection), `LockTimeout` (5 s), the master's transfer, `Selected`,
`Return`, and `Configure`, which takes no mutex.  Both devices have the same address.  `hwChan`
is the channel the chip connects, `chanSelected` the cache.  `doubt` is set by a
selection that met a timeout or a reset, after which the code cannot know what the
chip did, and cleared by the next one that did not and succeeded.

### `Imx219`
A call is the list `todo` of the accesses it has left; each may fail (`Fails`), and a
write that fails may have reached the sensor.  `InitAccesses`, `FormatAccesses`, `IntervalAccesses`
follow the code's tables, consecutive entries that no property tells apart being one register.  `untold`
holds the groups of registers whose last setter returned an error.  `imx219_set_frmival()`
stores its interval even when a write of it failed (`FpsAnyway`).  `RangeChecked` says
whether `video_init_ctrl()`, which is Zephyr's (v4.2.0 in `west.yml`) and not in this repository,
refuses a default out of its range: that of the digital gain is.

### `Si5351`
`si5351_init()` against a PLL that locks and loses its lock on its own.

### Mutants
An operator defined just before another one with its name prolonged (`Room`,
`RoomAlways`) is the same code with a plausible bug.  No specification uses it.  Each
property of a passing run is violated when the mutant listed in `PROJECT.json`
replaces the original: the property depends on that code.

## 4. Runs

| Run | Specification | Instance | Result |
|---|---|---|---|
| `bulk_preempt` | `Spec`, main preemptible | 4 TRBs, 4 buffers, 2 callers | passes, 339k states |
| `bulk_live` | `FairSpec`, cooperative callers | 3 TRBs, 3 buffers, 2 callers | passes, 209k states |
| `ctrl` | `FairSpec` of `Dwc3Control` | 2 addresses, 3 pending | passes, 41k states |
| `i2c_mux` | `FairSpec` of `Pca9542a` | 2 threads, 2 channels, 4 message lists | passes, 326k states |
| `imx219` | `Spec` of `Imx219` | 6 formats, 2 controls, 2 failures | passes, 221k states |
| `echo` | `FairSpec` of `CdcEcho` | 4 events, 4 TRBs, 3 packets, 4 requests, 4 bus moves | passes, 347k states |
| `bulk_wedge`, `bulk_strand`, `bulk_reconf` | see section 7 | 3 TRBs, 3 buffers | each violates its one property |
| `echo_length` | see section 7 | as `echo` | violates `LengthReceived` |
| `ctrl_address` | see section 7 | as `ctrl` | violates `AddressAgrees` |
| `pll_ready` | see section 7 | 2 outputs, 3 registers | violates `OutputsWaitForLock` |

**`bulk_preempt`**: preempted anywhere, two contexts are never in the critical
section together (`CriticalSection`), the ring holds exactly the TRBs from tail to
head (`RingExact`), a completion finds its buffer (`PopFindsBuffer`), no TRB is
reused (`NoOverwrite`), nobody leaves a buffer behind that found room
(`NoStranded`), each buffer is in one place (`Conserved`; callers dequeue too), and buffers
complete in the order of submission, once (`AbstractSpec`, the refinement of
`EndpointQueue`: the queue is the worker's buffer, the ring from the tail, then the fifo).

**`bulk_live`**: callers the worker cannot preempt halt and un-halt the endpoint.  The
application gets a buffer when the driver is done with it (`NoEarlyDelivery`), `full` is exact
(`FullFlagExact`), a halted endpoint is not given buffers (`HaltBlocksPush`), and the controller,
once the address is in the TRB, reads that of the right buffer (`FetchOutsideWindow`; HWO is
written before the address, `udc_dwc3.c:80-83`, and a controller that reads in between does get
the old one).  If the endpoint is never halted, an idle driver is an empty one (`NothingStuck`)
and every submitted buffer comes back (`EveryBufferReturns`); after a halt neither is true
(`bulk_strand`).  Dequeue is left out of `FairSpec`: a dequeue returns buffers by itself and would
hide a driver that does not.

`FullFlagExact` and `NoEarlyDelivery` are *not* true with a preemptible caller: `full` goes stale
(`bulk_wedge`), and the controller may complete a buffer that `udc_buf_get()` has not yet taken off
the fifo, which the worker then hands to the application all the same.  The application cannot
submit it again before the flush, which has the mutex, has removed it.

**`ctrl`**: one owner at a time holds EP0 (`OneOwner`), no assertion fails
(`AssertionsHold`), the device's address is the host's whenever no SET_ADDRESS or
reset is under way (`AddressAgrees`), `-EPROTO` is not returned to a usbd that keeps
up (`NoProtocolError`), and each request of the host gets an answer or a STALL
(`HostAnswered`).

**`i2c_mux`**: the mutex keeps transfers apart in a master that has no lock of its own
(`OneTransfer`); the cached channel is the connected one (`CacheExact`) and no byte
reaches the device behind the other channel (`RightDevice`), both unless the last
selection met a timeout or a reset; a transfer that returns 0 had each byte it wrote
taken, once and in order, unless the controller was reset under it (`WritesDelivered`); without a
fault what it read is what the device sent (`ReadsGenuine`; with a timeout it is not: the 0 of
`i2c_read_byte()` passes for data) and the bus is free (`BusReleased`); every call returns
(`EveryCallReturns`).

**`imx219`**: between calls the driver reports what the sensor was told, but for a
setter that returned an error (`ReportedIsTold`); at every moment, half-written tables
included, the window starts on even coordinates (`BayerPhase`); after a successful call it
is consistent (`WindowSound`); a device that is ready has had its whole set-up (`ReadyIsSetUp`).

**`echo`**: the driver reads each event once, in order (`EventsInOrder`); the one buffer
is never in two places, and no callback loses it (`BufferInOnePlace`); a completion finds
its buffer through resets and new configurations (`AssertionsHold`); the host gets its
packets back in order, once, in uppercase (`EchoInOrder`), unless a configuration `spoiled` a length; controller, class and host agree
on the packet sizes (`SizesAgree`); each finished transfer is echoed (`EchoAnswered`).

**Why these bounds are enough.**  Four TRBs is the default
(`CONFIG_UDC_DWC3_TRB_NUM`), three is its minimum: two or three usable TRBs wrap,
fill up and empty in every order; one more buffer than TRBs makes the fifo wait for
room.  Buffers are symmetric except under liveness.  Two callers are the threads of
the echo firmware.  What `bulk_preempt` shows, and the safety
that the other runs show, is also proved for every size.  On EP0 only resets accumulate:
`MaxPending` (3) stops them while that many events and messages wait, enough for a
reset before and after a request in the same batch.  Two addresses tell an old one
from a new one.

Two threads and two channels are all that the chip has; the message
lists are those of `i2c_write_dt()`, `i2c_write_read_dt()`, `i2c_burst_write_dt()` and a bus scan, and cover
a last byte read, a message without START, and one without a byte.  Two failures fail a setter and the one
that should mend it.  In `echo` the ring of events (`EventsNum`, at least 4 in the model) wraps several
times; three packets, with buffers of one, two and three packets, fill a buffer or leave it short
at each speed; four bus moves are two resets and two connections, enough for a change of speed.

**Deadlock** is checked in every run but `imx219` and `echo`: a sensor whose
initialisation failed, and a firmware whose start failed or whose host has done all
that the bounds allow, stop for good.

## 5. Fairness

`Dwc3Bulk!Fairness`: weak fairness of each context inside the driver (threads
that are ready run; the UDC mutex is released), of the worker (it reschedules
itself every `CONFIG_UDC_DWC3_EVENTS_POLL_MS`, `udc_dwc3.c:1451`), and of the
controller: a started transfer ends, which for bulk means that the host asks for
its data, as `usb_cdc_raw.h:48` supposes.  No fairness for the application: it need
not submit.  `Dwc3Control!FairSpec`: the worker, usbd, and the controller with
whatever host and driver have both begun; the host may stop at any time.

`Pca9542a!FairSpec`: each thread in the driver goes on, weakly; every wait in it
counts down or times out, and no thread is assumed to call.  `CdcEcho!FairSpec`: the
worker, usbd, and a connected host that reads; nothing says that it sends, configures
or stays.

## 6. Proofs

### `Dwc3BulkProofs`

For every ring size (`TrbNumAssumption`: at least 3, as in Kconfig), every set of
buffers and callers (`BufferAssumption`, `ContextAssumption`) and every choice of
preemptible callers:

| Theorem | Property |
|---|---|
| `TypeCorrect` | `TypeOK` |
| `MutualExclusion` | `CriticalSection` |
| `NoLostWakeup` | `NoStranded` |
| `RingIsExact` | `RingExact` |
| `EveryPopFindsBuffer` | `PopFindsBuffer` |
| `NoTrbOverwritten` | `NoOverwrite` |

The argument has three inductive invariants, each checked with TLC before it was
proved.

- `PlaceInv`: the mutex is held by the caller that is in the driver, `BUSY` is set
  exactly while a context is in the critical section, and the buffer being pushed
  still heads the fifo.  It gives the first two theorems: mutual exclusion alone is
  not inductive, since it says nothing of `BUSY`.
- `WakeInv`: a waiting buffer is accounted for by a context that will look again, by
  `EXTRA_CHECK`, or by `full`.  At rest only the last remains: `NoStranded`.
- `RingInv`: the used TRBs, the TRBs the controller owns, its position and the
  number of pending events are tied to head, tail and the place of the one context
  that pushes.  It is needed because `RingExact` does not say that the controller
  stays between tail and head, nor that the events are the TRBs it left behind.

  It also says that a ring with no room left is flagged `full`, or is about to be
  by the push in progress.  The reverse is not claimed, because it is false
  (`bulk_wedge`); it is not needed either: a push relies on `full` being FALSE to
  find a free TRB (`PushNeedsFreeSlot`), never on it being TRUE.

### `Pca9542aProofs`

For every set of threads, channels and message lists (`BusAssumption`: the names of
channels and devices differ; `MuxAssumption`: a transfer has a message), with and without
`CONFIG_I2C_PCA9542A_IGNORE_FAILURE`:

| Theorem | Property |
|---|---|
| `MuxTypeCorrect` | `TypeOK` |
| `OneTransferAtATime` | `OneTransfer` |
| `CacheNamesTheChannel` | `CacheExact` |
| `TransfersReachTheirDevice` | `RightDevice` |
| `BusIsReleased` | `BusReleased` |
| `WritesAreDelivered` | `WritesDelivered` |
| `ReadsAreGenuine` | `ReadsGenuine` |

`CacheExact` speaks of the moments between selections, so that it says nothing a
selection could rely on.  `MuxInv` adds what holds inside one: how far a selection without
a fault has come (`SelectOf`: the chip is addressed, then has the channel pending, then
connects it at the STOP), and that until its byte was taken, or after it was refused, chip and
cache are where they were (`Known`).  `TransferOf` says that the caller's own messages find
the cache right and address nobody else.  `CallInv` ties both to the call, and gives that a
message without START never opens a transfer.  Each action then has a lemma on what it
does to the bus (`StopMoves`, `SendAddressBus`, ...), and `HolderOnly` reduces the
invariant to the thread that holds the mutex.

The last three theorems need one more assumption, `ReadsAssumption`: a read has a byte, and
a start condition of its own, as in every message list of the callers in the repository.  The
code itself does not insist: a read of no byte leaves the device driving the bus.  They
rest on two more invariants.

- `BusInv`: without a fault the addressed device drives the bus exactly while the driver
  has bytes of a read left, so that the STOP gets through.  `BusReleased` alone says
  nothing of the way there.
- `GotInv`: the bytes written, and those read, are exactly those of the message list that lie behind
  the current position (`Behind`), each once and in order.  A reset of the controller ends the
  claim about writes, any fault the claim about reads.  Histories are compared as a set of
  positions and an order, which takes no induction over the list.

### `Dwc3BulkRefinement`

| Theorem | Property |
|---|---|
| `Implements` | `AbstractSpec` |

With the assumptions of `Dwc3BulkProofs`: preempted at any step, an endpoint of any
size implements `EndpointQueue`.  The queue is `<<worker's buffer>> \o ring \o fifo`, read off
the variables (`QueueView`).  `Inv`, which is `PlaceInv` and `RingInv`, says that a push holds
the head of the fifo until it is taken off, so that the moment a buffer moves from the fifo to the ring
leaves the queue as it was.  A lemma for each action shows that it submits, completes,
aborts the youngest buffers, or stutters.

### `Dwc3BulkBufferProofs`

| Theorem | Property | Further assumption |
|---|---|---|
| `FetchesItsBuffer` | `FetchOutsideWindow` | |
| `HaltStopsPush` | `HaltBlocksPush` | |
| `FullFlagIsExact` | `FullFlagExact` | `Preemptible = {}` |
| `NothingIsLeftBehind` | `NothingLeftBehind` | `Preemptible = {}`, no halts |
| `NothingGetsStuck` | `NothingStuck` | `Preemptible = {}` |
| `NoBufferDeliveredEarly` | `NoEarlyDelivery` | `Preemptible = {}` |
| `BuffersConserved` | `Conserved` | `Buffers` is finite |

`HaltSpec` keeps `Inv`.  `FetchInv` ties the address in a TRB to its buffer but for the TRB being
written.  `HaltInv`: nobody is past the check of the flush while the endpoint is halted.  `FlagInv` is the half of
`full` that a preempted push breaks: a ring that is flagged full, or about to be, is full.  With `StopInv`
(a controller that stopped at a TRB of its own is about to be told) and `WakeInv` it gives that a driver at rest
is an empty one.  That nobody is preemptible is the assumption under which `FullFlagExact` and
`NothingLeftBehind` are true: `bulk_wedge` is the counterexample without it.

For the two theorems on who owns a buffer the argument goes through the refinement: an abstract step keeps
`Owned` (the queue has no buffer twice, and every buffer is in the queue or with the application), and
`QueueParts` splits the queue into the parts that the properties count, which needs no induction over the
driver's own steps.  `Conserved` counts the places of a buffer, hence the finite set.

### `Dwc3ControlProofs`

For every set of addresses, of requests and every bound:

| Theorem | Property | Further assumption |
|---|---|---|
| `ControlTypeCorrect` | `TypeOK` | |
| `NoAssertionFails` | `AssertionsHold` | |
| `OneOwnerAlways` | `OneOwner` | |
| `AddressAgreesAlways` | `AddressAgrees` | `Lookalikes = {}` |
| `NoProtocolErrorAlways` | `NoProtocolError` | `Lookalikes = {}` |

- `OwnerInv`: the controller has a TRB, or its event waits, or usbd has a request, and each excludes
  the others; a buffer is there exactly while its TRB is at work.
- `AddressInv`: a SET_ADDRESS whose status is awaited is the newest event or has been acted on; a reset that
  waits has already reset the host's view.  At rest only `AddressAgrees` remains.
- `TellInv`: each message on its way to usbd still tells the address in DCFG, unless a reset or a later
  SET_ADDRESS has its own message behind it: a usbd that keeps up never asks for a change.

`Lookalikes = {}` says that no control write carries data that spells a SET_ADDRESS: the early SET_ADDRESS
looks at such data too, and then the address is not the host's (`ctrl_address`).

### `CdcEchoProofs`

For every size of the event ring (4 at least) and of the TRB rings (3 at least), every maximum
speed, every length of the buffer, and every number of packets, requests and bus moves:

| Theorem | Property |
|---|---|
| `EchoTypeCorrect` | `TypeOK` |
| `EventsReadInOrder` | `EventsInOrder` |
| `NoEchoAssertionFails` | `AssertionsHold` |
| `OneBufferAlways` | `BufferInOnePlace` |

`EchoInv` is one invariant of driver, class, firmware and host, as none of its parts is inductive
alone:

- `StartInv`: nothing has happened before the device is enabled, so that `evt_next`, which
  no code resets, is 0 when the controller starts at 0.
- `RingInv` and `RoomInv`: the controller writes behind what the driver reads; bus events leave two
  places free, for the one request and the one completed transfer that may wait with them.
- `OneInv`: a completion waits only for an endpoint with a buffer; buffers of both endpoints, and
  a message to the callbacks, exclude each other.
- `KeptInv`: the endpoints are enabled together, and before the first read.
- `GotInv`: the next packet fits the buffer at the packet size of the endpoint, and what is left of
  a transfer is not more than the buffer.

### `CdcEchoDataProofs`

With the same constants, on top of `EchoInv`:

| Theorem | Property |
|---|---|
| `SizesAgreeAlways` | `SizesAgree` |
| `EchoAlwaysInOrder` | `EchoInOrder` |

- `SizeInv`: while the bus is up, a connection waits behind every reset that waits, so that the last event
  that touches the packet size of EP0 is a connection (`OrderInv`, `Ep0Inv`); usbd has the speed of the
  bus unless a reset is still on its way to it, or it read the speed too early (`SpeedInv`).
- `DataInv`: what the host sent and did not get back is exactly what the buffer holds, as it came
  while the buffer is in the OUT endpoint or with usbd, in uppercase while it is in the IN endpoint,
  and nothing after that; the status of a read whose event is to come leaves what was received.
  Which of these cases applies is what `OneInv` tells apart.  A configuration that erases such a status
  sets `spoiled`, which stays (`SpoiledStays`), and the theorem claims nothing from then on: the code
  does send old contents of the buffer then.

### `Imx219Proofs`

For every set of formats that callers ask for, every set of values (natural numbers: the ranges of
the controls start at 0, `imx219.c:436-470`), every clock of the board and every number of
failures (`SensorAssumption`):

| Theorem | Property |
|---|---|
| `TypesAreKept` | `TypeOK` |
| `BayerPhaseHolds` | `BayerPhase` |
| `ReadySensorIsSetUp` | `ReadyIsSetUp` |
| `ReportIsTold` | `ReportedIsTold` |
| `WindowIsSound` | `WindowSound` |
| `RangeCheckFailsInit` | `~Ready`, if `RangeChecked` |

The properties speak of the moments between calls; what makes them true is that nothing of a
call was skipped.  `PlanInv` says so: a call has a plan (`PlansOf`), the registers it writes with their
values, the format and the interval it keeps; whatever is pending is of the plan, and each part of the plan is done
or pending.  At `Return` nothing is pending, so all of it is done (`PlanDone`).  A reset would undo
what is done: it comes first, while all the rest is pending (`ResetFirst`).  `AgreeInv`
carries `ReportedIsTold` through the calls of others: all groups but that of the call agree, since plans of different
groups write different registers (`Sane`).  `PedestalInv`: nobody sets the pedestal, which `imx219_init()`
does not write, before the end of `imx219_init()`.  The list of accesses of each call is shown to be what its plan
says as a set of members (`FormatMembers`, `InitMembers`).  `RefusedInv` says that, where ranges are checked,
a call that has begun is `imx219_init()` with a refusal ahead of it.  `Centred` is the arithmetic of the window, for each
size that the caps list.  TLC checked `SensorInv`, the conjunction of all of them, on the instance of `imx219` before.

### What is only model-checked

Out of the prover's reach: liveness under fairness (`EveryBufferReturns`, `HostAnswered`,
`EveryCallReturns`, `EchoAnswered`), which rests on `ENABLED`.  Every other property of a passing run is proved;
those of the violation runs are false of the code (section 7).

## 7. What disagrees with the code's own words

1. `bulk_wedge`: a push that is preempted between `head == tail` and the store of
   `full` (`udc_dwc3.c:91`) can leave an empty ring flagged full.
   The echo firmware submits a single buffer from its main thread, so that it does
   not fill the ring itself; an application that submits several from a preemptible
   thread does.
2. `bulk_strand`: `dwc3_api_ep_clear_halt()` does not flush what was submitted
   during the halt.
3. `bulk_reconf`: `dwc3_api_ep_enable()` restarts the controller at TRB 0 but not
   `head`, `tail`, `full` and `net_buf[]`.
4. `echo_length`: the memset of `dwc3_api_ep_enable()` (`udc_dwc3.c:1217`) erases the length of a
   transfer that is over and whose event is to come, which `dwc3_on_xfer_done_norm()` reads at
   line 982.  A host that configures the device again and sends a short packet before usbd handles the
   request has the firmware told that its whole buffer was received; the echo sends old bytes.
5. `ctrl_address`: the early SET_ADDRESS (`udc_dwc3.c:895-900`) looks at the data of
   control writes too.
6. `pll_ready`: the loop that waits for the PLL (`clock_control_si5351.c:136`) goes on
   while it *is* locked, and ends as soon as it is not.
7. The default of the digital gain, 5000 (`imx219.c:39`), is above the maximum of 0xfff that
   `imx219_init_ctrls()` gives with it (`imx219.c:460-463`).  If the framework of Zephyr refuses a
   default out of its range, `imx219_init()` always fails and the sensor is never ready: theorem
   `RangeCheckFailsInit`.  Whether it does is not in this repository, so that it is a constant
   (`RangeChecked`); the run `imx219` is about a framework that takes the default.

Smaller things appeared on the way, kept as hazards with their lines: `-EPROTO` from
`dwc3_api_set_address()` when a reset and a SET_ADDRESS are processed in the same poll; the
speed that usbd reads too early; a read that timed out and succeeds with zeros; a
selection in doubt; a `fps` that is recorded though the sensor was not told.

## 8. Not modelled

- *Chained transfers* (plan, 6): ZLP, CHN and `total` of `dwc3_trb_bulk()`.
- *Disable and shutdown* of the device: no firmware of the repository calls
  `usbd_disable()` or `usbd_shutdown()`.
- *Register encodings*, the `dwc3_io_*` accessors, command failures (only logged), the
  exit latency command, the events that are only logged.
- *I2C speeds and delays*: time has no part in the models; timeouts may happen at any wait.
- *Debug shell* (`udc_dwc3_shell.c`): prints; writes nothing the driver relies on.
- *Minimal and shell firmware*: the start of the echo firmware, then classes of Zephyr.
- *Bare-metal firmware*: one thread that writes vendor tables in sequence, through vendor
  drivers that are not in the repository.
- *SoC and boards* (no state), *kernel patches* (to code outside the repository), *host
  scripts*, *hardware and documentation*.
