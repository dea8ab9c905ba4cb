------------------------------- MODULE Pca9542a -------------------------------
(***************************************************************************)
(* The two-channel multiplexer, zephyr/drivers/i2c/i2c_pca9542a.c, on top  *)
(* of the I2C master: several threads, each with a transfer for the device *)
(* behind a channel.  The devices have the same address (two cameras), so  *)
(* that nothing but the multiplexer tells them apart.                      *)
(***************************************************************************)
EXTENDS OpencoresI2c, SequencesExt

CONSTANTS
    Transfers,      \* the message lists that threads send
    IgnoreFailure,  \* CONFIG_I2C_PCA9542A_IGNORE_FAILURE
    NoThread        \* nobody holds the mutex

\* A transfer of no message returns at once, and is left out.
ASSUME MuxAssumption ==
    /\ IgnoreFailure \in BOOLEAN
    /\ NoThread \notin Threads
    /\ \A msgs \in Transfers : msgs \in Seq(Message) /\ msgs # <<>>

\* The callers in this repository, i2c_write_dt() and i2c_write_read_dt(), read at
\* least a byte, after a start condition of its own.
ASSUME ReadsAssumption ==
    \A msgs \in Transfers : \A m \in 1 .. Len(msgs) :
        msgs[m].rd => msgs[m].len > 0 /\ (m # 1 => "RESTART" \in msgs[m].flags)

VARIABLES
    lock,           \* holder of root_data->lock
    chanSelected,   \* root_data->chan_selected, NoChan for 0xff
    call,           \* call[t]: channel and messages of thread t's transfer
    doubt           \* a selection met a fault, and none without one came since

muxVars == <<lock, chanSelected, call, doubt>>
vars == <<pc, io, busVars, muxVars>>

NoIo == [select |-> NoChan, msgs |-> <<>>, m |-> 1, k |-> 1, flags |-> {},
         ok |-> FALSE]
NoCall == [chan |-> NoChan, msgs |-> <<>>]

Init ==
    /\ pc = [t \in Threads |-> "idle"]
    /\ io = [t \in Threads |-> NoIo]
    /\ nextCr = {}
    /\ bus = QuietBus
    /\ hwChan = NoChan
    /\ fault = {}
    /\ got = <<>>
    /\ lock = NoThread
    /\ chanSelected = NoChan
    /\ call = [t \in Threads |-> NoCall]
    /\ doubt = FALSE

-----------------------------------------------------------------------------

\* pca9542a_transfer() is entered and asks for the mutex.
Call(t) ==
    /\ pc[t] = "idle"
    /\ \E c \in Channels, msgs \in Transfers :
        call' = [call EXCEPT ![t] = [chan |-> c, msgs |-> msgs]]
    /\ pc' = [pc EXCEPT ![t] = "lock"]
    /\ UNCHANGED <<io, busVars, lock, chanSelected, doubt>>

\* The mutex can be had.
MutexFreeAlways == TRUE
MutexFree == lock = NoThread

\* "No change needed".
SelectedAlreadyOnce(c) == chanSelected # NoChan
SelectedAlready(c) == chanSelected = c

\* The lock, then the head of pca9542a_set_channel(): nothing to do, or a
\* write of chan_num + 4 to the chip.
Lock(t) ==
    /\ pc[t] = "lock"
    /\ MutexFree
    /\ lock' = t
    /\ IF SelectedAlready(call[t].chan)
       THEN BeginTransfer(t, NoChan, call[t].msgs)
       ELSE BeginTransfer(t, call[t].chan,
                          <<[rd |-> FALSE, flags |-> {"STOP"}, len |-> 1]>>)
    /\ UNCHANGED <<nextCr, bus, hwChan, chanSelected, call, doubt>>

\* k_mutex_lock() gives up after 5 s.
LockTimeout(t) ==
    /\ pc[t] = "lock"
    /\ lock # NoThread
    /\ pc' = [pc EXCEPT ![t] = "idle"]
    /\ call' = [call EXCEPT ![t] = NoCall]
    /\ UNCHANGED <<io, busVars, lock, chanSelected, doubt>>

\* Unlock and return; the locals are gone.
Unlock(t) ==
    /\ lock' = NoThread
    /\ pc' = [pc EXCEPT ![t] = "idle"]
    /\ io' = [io EXCEPT ![t] = NoIo]
    /\ call' = [call EXCEPT ![t] = NoCall]
    /\ fault' = {}
    /\ got' = <<>>

Selecting(t) == io[t].select # NoChan

\* chan_selected after a selection.
RecordedEarly(t) == call[t].chan
Recorded(t) == IF io[t].ok \/ IgnoreFailure THEN call[t].chan ELSE chanSelected

\* Tail of pca9542a_set_channel(): the selection came back.
Selected(t) ==
    /\ pc[t] = "returned"
    /\ Selecting(t)
    /\ doubt' = (fault # {} \/ (doubt /\ ~io[t].ok))
    /\ chanSelected' = Recorded(t)
    /\ IF io[t].ok \/ IgnoreFailure
       THEN /\ BeginTransfer(t, NoChan, call[t].msgs)
            /\ UNCHANGED <<lock, call>>
       ELSE Unlock(t)
    /\ UNCHANGED <<nextCr, bus, hwChan>>

\* The transfer itself came back: unlock and return.
Return(t) ==
    /\ pc[t] = "returned"
    /\ ~Selecting(t)
    /\ Unlock(t)
    /\ UNCHANGED <<nextCr, bus, hwChan, chanSelected, doubt>>

\* pca9542a_configure() takes no lock and passes the call on: the controller is
\* reset under whoever transfers.  (With nobody in the driver only the speed
\* changes, which is not modelled.)
Configure(t) ==
    /\ pc[t] = "idle"
    /\ lock # NoThread
    /\ ResetController
    /\ UNCHANGED <<pc, io, nextCr, bus, hwChan, got, muxVars>>

Step(t) ==
    \/ Lock(t) \/ LockTimeout(t)
    \/ Selected(t) \/ Return(t)
    \/ Transfer(t) /\ UNCHANGED muxVars

Next == \E t \in Threads : Call(t) \/ Step(t) \/ Configure(t)

Spec == Init /\ [][Next]_vars

\* Each thread that is in the driver goes on: every wait in it has an end.
FairSpec == Spec /\ \A t \in Threads : WF_vars(Step(t))

-----------------------------------------------------------------------------
(* Properties *)

\* Types: every variable keeps to the values its field in the code can have.
TypeOK ==
    /\ pc \in [Threads -> {"idle", "lock", "message", "address", "data",
                            "finish", "returned"}]
    /\ io \in [Threads -> Locals]
    /\ \A t \in Threads : pc[t] \in {"message", "address", "data"} =>
          io[t].m \in 1 .. Len(io[t].msgs) /\ io[t].k \in 1 .. Cur(t).len + 1
    /\ nextCr \in SUBSET {"STA"}
    /\ bus \in [open : BOOLEAN, to : Channels \cup {MuxChip, Nobody},
                rd : BOOLEAN, held : BOOLEAN, pend : Channels \cup {NoChan}]
    /\ hwChan \in Channels \cup {NoChan}
    /\ fault \in SUBSET {"timeout", "reset"}
    /\ got \in Seq(Nat \X Nat)
    /\ lock \in Threads \cup {NoThread}
    /\ chanSelected \in Channels \cup {NoChan}
    /\ call \in [Threads -> [chan : Channels \cup {NoChan}, msgs : Seq(Message)]]
    /\ doubt \in BOOLEAN

InDriver(t) == pc[t] \notin {"idle", "lock"}

\* The master keeps no lock of its own: only the multiplexer's mutex keeps two
\* threads from mixing their bytes and next_cr.
OneTransfer == \A t \in Threads : InDriver(t) <=> lock = t

\* chan_selected is the channel that the chip connects, whatever devices
\* refused, unless the last selection met a timeout or a reset: a selection that
\* was refused leaves chip and driver where they were.
CacheExact ==
    ~doubt /\ chanSelected # NoChan /\ ~IgnoreFailure
        /\ (\A t \in Threads : InDriver(t) => ~Selecting(t))
    => hwChan = chanSelected

\* A transfer never speaks to the device behind the other channel, with the same
\* exception.
RightDevice ==
    \A t \in Threads :
        pc[t] \in {"data", "finish"} /\ ~Selecting(t) /\ ~doubt /\ ~IgnoreFailure
        => bus.to \in {Nobody, call[t].chan}

\* The bytes of a transfer in one direction, as <<message, index>>, in the order
\* that they have on the bus.
Bytes(msgs, rd) ==
    UNION {{m} \X (1 .. msgs[m].len) : m \in {i \in 1 .. Len(msgs) : msgs[i].rd = rd}}

Before(b, c) == b[1] < c[1] \/ (b[1] = c[1] /\ b[2] < c[2])

OnceAndInOrder == \A i, j \in DOMAIN got : i < j => Before(got[i], got[j])

Moved(t, rd) == {b \in Range(got) : io[t].msgs[b[1]].rd = rd}

Succeeds(t) == pc[t] = "returned" /\ ~Selecting(t) /\ io[t].ok

\* A transfer that returns 0 had each byte it wrote taken by a device, once and in
\* order, even if flags timed out; only a reset in the middle can make it lie.
WritesDelivered ==
    \A t \in Threads :
        Succeeds(t) /\ "reset" \notin fault
        => Moved(t, FALSE) = Bytes(io[t].msgs, FALSE) /\ OnceAndInOrder

\* Without a timeout, what a transfer that returns 0 read is what the device sent,
\* once and in order; with one, the 0 of i2c_read_byte() passes for data.
ReadsGenuine ==
    \A t \in Threads :
        Succeeds(t) /\ fault = {}
        => Moved(t, TRUE) = Bytes(io[t].msgs, TRUE) /\ OnceAndInOrder

\* Whatever was refused, a transfer leaves the bus free: the last byte of a read is
\* answered by NACK, so that the device lets the STOP through.
BusReleased ==
    \A t \in Threads : pc[t] = "returned" /\ fault = {} => ~bus.open

\* Every call comes back, with the mutex given up or never obtained: all waits for
\* flags and for the mutex are bounded.
EveryCallReturns == \A t \in Threads : pc[t] # "idle" ~> pc[t] = "idle"
=============================================================================
