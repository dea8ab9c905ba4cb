---------------------------- MODULE OpencoresI2c ----------------------------
(***************************************************************************)
(* The polling I2C master, zephyr/drivers/i2c/i2c_opencores.c, with the    *)
(* bus, the multiplexer chip and the devices behind its channels.          *)
(* opencores_i2c_transfer() is cut at every byte.  A thread t that         *)
(* transfers has its local variables in io[t] and its place in pc[t]; who  *)
(* calls the driver is the business of the module that extends this one.   *)
(*                                                                         *)
(* Faults of the bus: a byte nobody acknowledges, a TIP or BUSY flag that  *)
(* stays set until the driver gives up, a controller that is reset by      *)
(* opencores_i2c_configure() while a transfer is under way.                *)
(***************************************************************************)
EXTENDS Integers, Sequences

CONSTANTS
    Threads,    \* threads that call the drivers
    Channels,   \* channels of the multiplexer, one device behind each
    NoChan,     \* the multiplexer connects no channel
    Nobody,     \* no device listens
    MuxChip     \* the multiplexer as a device of the bus

ASSUME BusAssumption ==
    /\ NoChan \notin Channels
    /\ Nobody \notin Channels
    /\ MuxChip \notin Channels
    /\ MuxChip # Nobody

VARIABLES
    pc,          \* pc[t]: where thread t is
    io,          \* io[t]: locals of opencores_i2c_transfer()
    nextCr,      \* context->next_cr
    bus,         \* what the devices on the bus heard since the last STOP
    hwChan,      \* channel the multiplexer chip connects
    fault,       \* what went wrong in this transfer: "timeout", "reset"
    got          \* bytes the device took, and gave, in this transfer

busVars == <<nextCr, bus, hwChan, fault, got>>

\* struct i2c_msg: direction, I2C_MSG_RESTART and I2C_MSG_STOP, length.
Message == [rd : BOOLEAN, flags : SUBSET {"RESTART", "STOP"}, len : Nat]

\* The locals: the channel if this is a selection, messages, the message and the
\* byte the transfer is at, flags and result.
Locals == [select : Channels \cup {NoChan}, msgs : Seq(Message), m : Nat, k : Nat,
           flags : SUBSET {"RESTART", "STOP"}, ok : BOOLEAN]

\* to: the device that was addressed; held: it drives SDA, a read whose last
\* byte was not answered by NACK; pend: the channel written to the chip, which
\* takes effect at the STOP.
QuietBus == [open |-> FALSE, to |-> Nobody, rd |-> FALSE, held |-> FALSE,
             pend |-> NoChan]

\* Message and byte thread t is at.
Cur(t) == io[t].msgs[io[t].m]

\* The device that the address of the transfer finds: the chip itself for a
\* selection, else the one behind the channel the chip connects.
Listener(t) ==
    IF io[t].select # NoChan THEN MuxChip
    ELSE IF hwChan = NoChan THEN Nobody ELSE hwChan

\* What the driver can see of a byte: a device that listens may refuse or stay
\* silent.  After a reset the acknowledge bit says nothing.
Outcomes(heard) ==
    {"nack", "timeout"} \cup (IF heard \/ "reset" \in fault THEN {"ack"} ELSE {})

\* What the device did, given what the driver saw.
Took(heard, out) ==
    IF ~heard \/ out = "nack" THEN {FALSE}
    ELSE IF out = "timeout" \/ "reset" \in fault THEN BOOLEAN
    ELSE {TRUE}

-----------------------------------------------------------------------------
(* Driver *)

\* opencores_i2c_configure() resets the controller and sets its clock, with no
\* regard to a transfer that is under way.  (Speeds and delays are left out.)
ResetController == fault' = fault \cup {"reset"}

\* Entry of opencores_i2c_transfer(): "We want an initial Start condition".
BeginTransfer(t, select, msgs) ==
    /\ pc' = [pc EXCEPT ![t] = "message"]
    /\ io' = [io EXCEPT ![t] =
                 [select |-> select, msgs |-> msgs, m |-> 1, k |-> 1,
                  flags |-> {"RESTART", "STOP"}, ok |-> FALSE]]
    /\ fault' = {}
    /\ got' = <<>>

\* i2c_wait_busy(): whether the bus became free before the driver gave up.  A bus
\* that a device holds does not.
WaitBusy == IF bus.held THEN {FALSE} ELSE {TRUE, FALSE}

\* i2c_stop(): its caller ignores the outcome.
Stop ==
    \E released \in WaitBusy :
        /\ bus' = IF released THEN QuietBus ELSE bus
        /\ hwChan' = IF released /\ bus.pend # NoChan THEN bus.pend ELSE hwChan
        /\ fault' = IF released \/ bus.held THEN fault ELSE fault \cup {"timeout"}

\* "Forget old flags except start flag", then those of the new message.
NewFlagsOldOnly(old, msg) == old \cap {"RESTART"}
NewFlags(old, msg) == (old \cap {"RESTART"}) \cup msg.flags

\* Head of the loop: STOP of the previous message, START or repeated START.
NextMessage(t) ==
    LET old  == io[t].flags
        new  == NewFlags(old, Cur(t))
    IN  /\ pc[t] = "message"
        /\ IF "STOP" \in old THEN Stop ELSE UNCHANGED <<bus, hwChan, fault>>
        /\ nextCr' = IF "RESTART" \in new THEN nextCr \cup {"STA"} ELSE nextCr
        /\ io' = [io EXCEPT ![t].flags = new]
        /\ pc' = [pc EXCEPT ![t] = IF "RESTART" \in new THEN "address" ELSE "data"]
        /\ UNCHANGED got

\* Where the transfer goes when its address is not acknowledged.
NoAnswerRetry == "message"
NoAnswer == "finish"

\* i2c_write_byte() of the address.  A device that still drives the bus does not
\* see the START and lets go at the ninth clock.
SendAddress(t) ==
    LET dev   == Listener(t)
        heard == "STA" \in nextCr /\ ~bus.held /\ dev # Nobody
    IN  /\ pc[t] = "address"
        /\ nextCr' = {}
        /\ \E out \in Outcomes(heard) : \E took \in Took(heard, out) :
            /\ bus' = IF took
                      THEN [bus EXCEPT !.open = TRUE, !.to = dev,
                                       !.rd = Cur(t).rd, !.held = Cur(t).rd]
                      ELSE [bus EXCEPT !.open = TRUE, !.to = Nobody, !.held = FALSE]
            /\ fault' = IF out = "timeout" THEN fault \cup {out} ELSE fault
            /\ io' = [io EXCEPT ![t].flags = IF out = "ack" THEN @ \ {"RESTART"} ELSE @]
            /\ pc' = [pc EXCEPT ![t] = IF out = "ack" THEN "data" ELSE NoAnswer]
        /\ UNCHANGED <<hwChan, got>>

\* Whether the write loop goes on after a byte.
GoesOnRegardless(out) == out # "timeout"
GoesOn(out) == out = "ack"

\* i2c_write_byte() of the data.  A byte sent with a stray START is an address.
WriteByte(t) ==
    LET heard == /\ bus.open /\ bus.to # Nobody /\ ~bus.rd
                 /\ "STA" \notin nextCr
    IN  /\ pc[t] = "data"
        /\ ~Cur(t).rd
        /\ io[t].k <= Cur(t).len
        /\ nextCr' = {}
        /\ \E out \in Outcomes(heard) : \E took \in Took(heard, out) :
            /\ bus' = IF took /\ bus.to = MuxChip
                      THEN [bus EXCEPT !.pend = io[t].select] ELSE bus
            /\ got' = IF took THEN Append(got, <<io[t].m, io[t].k>>) ELSE got
            /\ fault' = IF out = "timeout" THEN fault \cup {out} ELSE fault
            /\ io' = [io EXCEPT ![t].k = @ + 1]
            /\ pc' = [pc EXCEPT ![t] = IF GoesOn(out) THEN "data" ELSE "finish"]
        /\ UNCHANGED hwChan

\* i2c_write_ack(): the last byte of a message is answered by NACK.
LastBytePastEnd(t) == io[t].k = Cur(t).len + 1
LastByte(t) == io[t].k = Cur(t).len

\* i2c_write_ack() and i2c_read_byte(): whatever is in the receive register is
\* the byte, and a timeout reads as 0; the driver does not tell it from data.
ReadByte(t) ==
    LET heard == /\ bus.open /\ bus.to # Nobody /\ bus.rd /\ bus.held
                 /\ "STA" \notin nextCr
    IN  /\ pc[t] = "data"
        /\ Cur(t).rd
        /\ io[t].k <= Cur(t).len
        /\ nextCr' = {}
        /\ \E late \in BOOLEAN :
            /\ bus' = IF heard /\ ~late
                      THEN [bus EXCEPT !.held = ~LastByte(t)] ELSE bus
            /\ got' = IF heard /\ ~late
                      THEN Append(got, <<io[t].m, io[t].k>>) ELSE got
            /\ fault' = IF late THEN fault \cup {"timeout"} ELSE fault
        /\ io' = [io EXCEPT ![t].k = @ + 1]
        /\ UNCHANGED <<pc, hwChan>>

\* while (num_msgs).
MoreMessagesPastEnd(t) == io[t].m <= Len(io[t].msgs)
MoreMessages(t) == io[t].m < Len(io[t].msgs)

\* Foot of the loop: next message, or result = 0.
EndMessage(t) ==
    /\ pc[t] = "data"
    /\ io[t].k > Cur(t).len
    /\ IF MoreMessages(t)
       THEN /\ io' = [io EXCEPT ![t].m = @ + 1, ![t].k = 1]
            /\ pc' = [pc EXCEPT ![t] = "message"]
       ELSE /\ io' = [io EXCEPT ![t].ok = TRUE]
            /\ pc' = [pc EXCEPT ![t] = "finish"]
    /\ UNCHANGED busVars

\* finish: a last STOP; the caller goes on at pc "returned".
Finish(t) ==
    /\ pc[t] = "finish"
    /\ Stop
    /\ pc' = [pc EXCEPT ![t] = "returned"]
    /\ UNCHANGED <<io, nextCr, got>>

Transfer(t) ==
    \/ NextMessage(t) \/ SendAddress(t) \/ WriteByte(t) \/ ReadByte(t)
    \/ EndMessage(t) \/ Finish(t)

=============================================================================
