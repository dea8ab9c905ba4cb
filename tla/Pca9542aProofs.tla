--------------------------- MODULE Pca9542aProofs ---------------------------
(***************************************************************************)
(* Pca9542a for every set of threads, channels and message lists.          *)
(***************************************************************************)
EXTENDS Pca9542a, SequenceTheorems, TLAPS

-----------------------------------------------------------------------------
(* The inductive invariant *)

SelectMsgs == <<[rd |-> FALSE, flags |-> {"STOP"}, len |-> 1]>>

\* Every thread that called is there for a channel and has messages; a selection is
\* one message of one byte, for the channel of the call.
CallOf(t) ==
    /\ pc[t] # "idle" => call[t].chan \in Channels /\ call[t].msgs # <<>>
    /\ InDriver(t) /\ Selecting(t) =>
          /\ io[t].select = call[t].chan
          /\ io[t].msgs = SelectMsgs
          /\ io[t].m = 1
          /\ pc[t] \in {"message", "address"} => io[t].k = 1
          /\ io[t].ok => pc[t] \in {"finish", "returned"}
    /\ pc[t] = "message" /\ io[t].m = 1 => "RESTART" \in io[t].flags

CallInv == \A t \in Threads : CallOf(t)

\* The driver knows where the chip is: nothing is left to take effect at the next
\* STOP, and chan_selected, if a channel was ever selected, is connected.
Known ==
    /\ bus.pend = NoChan
    /\ chanSelected # NoChan => hwChan = chanSelected

Sure == ~doubt /\ ~IgnoreFailure

\* How far a selection that met no fault has come.
SelectOf(t) ==
    InDriver(t) /\ Selecting(t) /\ fault = {} =>
        /\ pc[t] = "data" => bus.open /\ bus.to = MuxChip /\ ~bus.rd /\ ~bus.held
        /\ (pc[t] = "data" /\ io[t].k = 2) \/ (pc[t] = "finish" /\ io[t].ok)
           => bus.pend = call[t].chan /\ ~bus.held
        /\ pc[t] = "returned" /\ io[t].ok
           => bus.pend = NoChan /\ hwChan = call[t].chan
        /\ \/ pc[t] \in {"message", "address"}
           \/ pc[t] = "data" /\ io[t].k = 1
           \/ pc[t] \in {"finish", "returned"} /\ ~io[t].ok
           => (Sure => Known)

SelectInv == \A t \in Threads : SelectOf(t)

\* What a transfer of the caller's own messages has addressed.
Addressed(t) == pc[t] \in {"data", "finish"} \/ (pc[t] = "message" /\ io[t].m # 1)

TransferOf(t) ==
    InDriver(t) /\ ~Selecting(t) =>
        /\ ~IgnoreFailure => chanSelected = call[t].chan
        /\ Addressed(t) /\ pc[t] # "finish" => bus.to # MuxChip
        /\ Addressed(t) /\ Sure => bus.to \in {Nobody, call[t].chan}

TransferInv == \A t \in Threads : TransferOf(t)

\* Between selections.
RestInv == Sure /\ (\A t \in Threads : InDriver(t) => ~Selecting(t)) => Known

MuxInv == TypeOK /\ OneTransfer /\ CallInv /\ SelectInv /\ TransferInv /\ RestInv

-----------------------------------------------------------------------------
(* Types *)

LEMMA MuxInitially == Init => MuxInv
<1> SUFFICES ASSUME Init PROVE MuxInv
  OBVIOUS
<1> USE BusAssumption, MuxAssumption DEF Init, InDriver, Selecting
<1>1. TypeOK
  <2>1. NoIo \in Locals
    <3>1. <<>> \in Seq(Message)
      OBVIOUS
    <3> QED
      BY <3>1 DEF NoIo, Locals
  <2>2. NoCall \in [chan : Channels \cup {NoChan}, msgs : Seq(Message)]
    <3>1. <<>> \in Seq(Message)
      OBVIOUS
    <3> QED
      BY <3>1 DEF NoCall
  <2>3. bus \in [open : BOOLEAN, to : Channels \cup {MuxChip, Nobody},
                 rd : BOOLEAN, held : BOOLEAN, pend : Channels \cup {NoChan}]
    BY DEF QuietBus
  <2>4. got \in Seq(Nat \X Nat)
    OBVIOUS
  <2> QED
    BY <2>1, <2>2, <2>3, <2>4 DEF TypeOK
<1>2. OneTransfer /\ CallInv
  BY DEF OneTransfer, CallInv, CallOf
<1>3. SelectInv /\ TransferInv /\ RestInv
  BY DEF SelectInv, SelectOf, TransferInv, TransferOf, RestInv, Known, QuietBus
<1> QED
  BY <1>1, <1>2, <1>3 DEF MuxInv

\* A message list and its first message.
LEMMA MessagesTyped ==
    ASSUME TypeOK, NEW t \in Threads, pc[t] \in {"message", "address", "data"}
    PROVE  /\ Cur(t) \in Message
           /\ io[t].m \in 1 .. Len(io[t].msgs)
           /\ io[t].m \in Nat /\ io[t].k \in Nat
           /\ Cur(t).len \in Nat
<1>1. io[t] \in Locals /\ io[t].m \in 1 .. Len(io[t].msgs)
  BY DEF TypeOK
<1>2. io[t].msgs \in Seq(Message) /\ io[t].m \in Nat /\ io[t].k \in Nat
  BY <1>1 DEF Locals
<1>3. Cur(t) \in Message
  BY <1>1, <1>2 DEF Cur
<1> QED
  BY <1>1, <1>2, <1>3 DEF Message

\* What BeginTransfer() leaves in io and pc.
LEMMA BeginTyped ==
    ASSUME TypeOK, NEW t \in Threads, NEW c \in Channels \cup {NoChan},
           NEW msgs \in Seq(Message), msgs # <<>>, BeginTransfer(t, c, msgs)
    PROVE  /\ io' \in [Threads -> Locals]
           /\ pc' = [pc EXCEPT ![t] = "message"]
           /\ \A u \in Threads : pc'[u] \in {"message", "address", "data"} =>
                 io'[u].m \in 1 .. Len(io'[u].msgs) /\ io'[u].k \in 1 .. Cur(u)'.len + 1
           /\ fault' = {} /\ got' = <<>>
<1> DEFINE rec == [select |-> c, msgs |-> msgs, m |-> 1, k |-> 1,
                   flags |-> {"RESTART", "STOP"}, ok |-> FALSE]
<1>1. io' = [io EXCEPT ![t] = rec] /\ pc' = [pc EXCEPT ![t] = "message"]
      /\ fault' = {} /\ got' = <<>>
  BY DEF BeginTransfer
<1>2. rec \in Locals
  BY DEF Locals
<1>3. io' \in [Threads -> Locals]
  BY <1>1, <1>2 DEF TypeOK
<1>4. 1 \in 1 .. Len(msgs) /\ msgs[1].len \in Nat
  <2>1. Len(msgs) \in Nat /\ Len(msgs) > 0
    BY EmptySeq
  <2>2. msgs[1] \in Message
    BY <2>1
  <2> QED
    BY <2>1, <2>2 DEF Message
<1>5. \A u \in Threads : pc'[u] \in {"message", "address", "data"} =>
         io'[u].m \in 1 .. Len(io'[u].msgs) /\ io'[u].k \in 1 .. Cur(u)'.len + 1
  <2> SUFFICES ASSUME NEW u \in Threads, pc'[u] \in {"message", "address", "data"}
               PROVE  io'[u].m \in 1 .. Len(io'[u].msgs) /\ io'[u].k \in 1 .. Cur(u)'.len + 1
    OBVIOUS
  <2>1. CASE u = t
    BY <1>1, <1>4, <2>1 DEF TypeOK, Cur, Locals
  <2>2. CASE u # t
    BY <1>1, <2>2 DEF TypeOK, Cur, Locals
  <2> QED
    BY <2>1, <2>2
<1> QED
  BY <1>1, <1>3, <1>5

\* Changes of one thread's locals.
LEMMA LocalsTyped ==
    ASSUME NEW r \in Locals, NEW i \in Nat, NEW j \in Nat, NEW fl \in SUBSET {"RESTART", "STOP"}
    PROVE  /\ [r EXCEPT !.k = i] \in Locals
           /\ [r EXCEPT !.m = i, !.k = j] \in Locals
           /\ [r EXCEPT !.flags = fl] \in Locals
           /\ [r EXCEPT !.ok = TRUE] \in Locals
BY DEF Locals

\* A thread that keeps to its messages keeps all of them in range.
LEMMA PointsKept ==
    ASSUME TypeOK, NEW t \in Threads,
           \A u \in Threads \ {t} : pc'[u] = pc[u] /\ io'[u] = io[u],
           pc'[t] \in {"message", "address", "data"} =>
              io'[t].m \in 1 .. Len(io'[t].msgs) /\ io'[t].k \in 1 .. Cur(t)'.len + 1
    PROVE  \A u \in Threads : pc'[u] \in {"message", "address", "data"} =>
              io'[u].m \in 1 .. Len(io'[u].msgs) /\ io'[u].k \in 1 .. Cur(u)'.len + 1
<1> SUFFICES ASSUME NEW u \in Threads, pc'[u] \in {"message", "address", "data"}
             PROVE  io'[u].m \in 1 .. Len(io'[u].msgs) /\ io'[u].k \in 1 .. Cur(u)'.len + 1
  OBVIOUS
<1>1. CASE u = t
  BY <1>1
<1>2. CASE u # t
  <2>1. pc'[u] = pc[u] /\ io'[u] = io[u]
    BY <1>2
  <2>2. Cur(u)' = Cur(u)
    BY <2>1 DEF Cur
  <2> QED
    BY <2>1, <2>2 DEF TypeOK
<1> QED
  BY <1>1, <1>2

\* What a driver may see of a byte, and a device do with it.
LEMMA OutcomeKinds ==
    \A heard : /\ Outcomes(heard) \subseteq {"nack", "timeout", "ack"}
              /\ \A out : Took(heard, out) \subseteq BOOLEAN
BY DEF Outcomes, Took

LEMMA TypeStep == TypeOK /\ CallInv /\ [Next]_vars => TypeOK'
<1> SUFFICES ASSUME TypeOK, CallInv, [Next]_vars PROVE TypeOK'
  OBVIOUS
<1> DEFINE Points == \A t \in Threads : pc[t] \in {"message", "address", "data"} =>
                        io[t].m \in 1 .. Len(io[t].msgs) /\ io[t].k \in 1 .. Cur(t).len + 1
<1>1. ASSUME NEW t \in Threads, Call(t) PROVE TypeOK'
  <2>1. call' \in [Threads -> [chan : Channels \cup {NoChan}, msgs : Seq(Message)]]
    BY <1>1, MuxAssumption DEF Call, TypeOK
  <2>2. Points'
    BY <1>1 DEF Call, TypeOK, Cur
  <2> QED
    BY <1>1, <2>1, <2>2 DEF Call, TypeOK, busVars
<1>2. ASSUME NEW t \in Threads, Lock(t) PROVE TypeOK'
  <2> DEFINE ms == IF SelectedAlready(call[t].chan) THEN call[t].msgs
                   ELSE <<[rd |-> FALSE, flags |-> {"STOP"}, len |-> 1]>>
             ch == IF SelectedAlready(call[t].chan) THEN NoChan ELSE call[t].chan
  <2>1. BeginTransfer(t, ch, ms)
    BY <1>2 DEF Lock
  <2>2. ms \in Seq(Message) /\ ms # <<>> /\ ch \in Channels \cup {NoChan}
    <3>1. call[t].msgs \in Seq(Message) /\ call[t].msgs # <<>> /\ call[t].chan \in Channels
      BY <1>2 DEF Lock, TypeOK, CallInv, CallOf
    <3>2. [rd |-> FALSE, flags |-> {"STOP"}, len |-> 1] \in Message
      BY DEF Message
    <3> QED
      BY <3>1, <3>2
  <2> HIDE DEF ms, ch
  <2>3. /\ io' \in [Threads -> Locals] /\ pc' = [pc EXCEPT ![t] = "message"]
        /\ Points' /\ fault' = {} /\ got' = <<>>
    BY <2>1, <2>2, BeginTyped
  <2>4. got' \in Seq(Nat \X Nat)
    BY <2>3
  <2> HIDE DEF Points
  <2> QED
    BY <1>2, <2>3, <2>4 DEF Lock, TypeOK, Points
<1>3. ASSUME NEW t \in Threads, LockTimeout(t) PROVE TypeOK'
  <2>1. NoCall \in [chan : Channels \cup {NoChan}, msgs : Seq(Message)]
    <3>1. <<>> \in Seq(Message)
      OBVIOUS
    <3> QED
      BY <3>1 DEF NoCall
  <2>2. call' \in [Threads -> [chan : Channels \cup {NoChan}, msgs : Seq(Message)]]
    BY <1>3, <2>1 DEF LockTimeout, TypeOK
  <2>3. Points'
    BY <1>3 DEF LockTimeout, TypeOK, Cur
  <2> QED
    BY <1>3, <2>2, <2>3 DEF LockTimeout, TypeOK, busVars
<1>4. ASSUME NEW t \in Threads, Unlock(t), UNCHANGED <<nextCr, bus, hwChan>>,
             chanSelected' \in Channels \cup {NoChan}, doubt' \in BOOLEAN
      PROVE  TypeOK'
  <2>1. NoCall \in [chan : Channels \cup {NoChan}, msgs : Seq(Message)] /\ NoIo \in Locals
    <3>1. <<>> \in Seq(Message)
      OBVIOUS
    <3> QED
      BY <3>1 DEF NoCall, NoIo, Locals
  <2>2. /\ call' \in [Threads -> [chan : Channels \cup {NoChan}, msgs : Seq(Message)]]
        /\ io' \in [Threads -> Locals]
    BY <1>4, <2>1 DEF Unlock, TypeOK
  <2>3. Points'
    BY <1>4 DEF Unlock, TypeOK, Cur
  <2>4. got' \in Seq(Nat \X Nat)
    BY <1>4 DEF Unlock
  <2> QED
    BY <1>4, <2>2, <2>3, <2>4 DEF Unlock, TypeOK
<1>5. ASSUME NEW t \in Threads, Selected(t) PROVE TypeOK'
  <2>1. chanSelected' \in Channels \cup {NoChan} /\ doubt' \in BOOLEAN
    <3>1. call[t].chan \in Channels /\ io[t].ok \in BOOLEAN
      BY <1>5 DEF Selected, CallInv, CallOf, TypeOK, Locals
    <3> QED
      BY <1>5, <3>1 DEF Selected, Recorded, TypeOK
  <2>2. CASE io[t].ok \/ IgnoreFailure
    <3>1. call[t].msgs \in Seq(Message) /\ call[t].msgs # <<>>
      BY <1>5 DEF Selected, TypeOK, CallInv, CallOf
    <3>2. BeginTransfer(t, NoChan, call[t].msgs) /\ UNCHANGED <<lock, call>>
      BY <1>5, <2>2 DEF Selected
    <3>3. /\ io' \in [Threads -> Locals] /\ pc' = [pc EXCEPT ![t] = "message"]
          /\ Points' /\ fault' = {} /\ got' = <<>>
      BY <3>1, <3>2, BeginTyped
    <3>4. got' \in Seq(Nat \X Nat)
      BY <3>3
    <3> HIDE DEF Points
    <3> QED
      BY <1>5, <2>1, <3>2, <3>3, <3>4 DEF Selected, TypeOK, Points
  <2>3. CASE ~(io[t].ok \/ IgnoreFailure)
    BY <1>4, <1>5, <2>1, <2>3 DEF Selected
  <2> QED
    BY <2>2, <2>3
<1>6. ASSUME NEW t \in Threads, Return(t) PROVE TypeOK'
  BY <1>4, <1>6 DEF Return, TypeOK
<1>7. ASSUME NEW t \in Threads, Configure(t) PROVE TypeOK'
  BY <1>7 DEF Configure, ResetController, TypeOK, muxVars, Cur
<1>8. ASSUME NEW t \in Threads, Stop
      PROVE  /\ bus' \in [open : BOOLEAN, to : Channels \cup {MuxChip, Nobody},
                          rd : BOOLEAN, held : BOOLEAN, pend : Channels \cup {NoChan}]
             /\ hwChan' \in Channels \cup {NoChan}
             /\ fault' \in SUBSET {"timeout", "reset"}
  BY <1>8 DEF Stop, WaitBusy, QuietBus, TypeOK
<1>9. ASSUME NEW t \in Threads, NextMessage(t), UNCHANGED muxVars PROVE TypeOK'
  <2>1. pc[t] = "message" /\ Cur(t).flags \in SUBSET {"RESTART", "STOP"}
    BY <1>9, MessagesTyped DEF NextMessage, Message
  <2> DEFINE new == NewFlags(io[t].flags, Cur(t))
  <2>2. new \in SUBSET {"RESTART", "STOP"}
    BY <2>1 DEF NewFlags
  <2>3. io' = [io EXCEPT ![t].flags = new]
        /\ pc' = [pc EXCEPT ![t] = IF "RESTART" \in new THEN "address" ELSE "data"]
    BY <1>9 DEF NextMessage
  <2> HIDE DEF new
  <2>4. io' \in [Threads -> Locals]
    <3>1. [io[t] EXCEPT !.flags = new] \in Locals
      BY <2>2, LocalsTyped DEF TypeOK
    <3> QED
      BY <2>3, <3>1 DEF TypeOK
  <2>5. Points'
    BY <2>1, <2>3 DEF TypeOK, Locals, Cur
  <2>6. nextCr' \in SUBSET {"STA"}
    BY <1>9 DEF NextMessage, TypeOK
  <2>7. /\ bus' \in [open : BOOLEAN, to : Channels \cup {MuxChip, Nobody},
                     rd : BOOLEAN, held : BOOLEAN, pend : Channels \cup {NoChan}]
        /\ hwChan' \in Channels \cup {NoChan}
        /\ fault' \in SUBSET {"timeout", "reset"}
    BY <1>8, <1>9 DEF NextMessage, TypeOK
  <2>8. UNCHANGED <<got, muxVars>>
    BY <1>9 DEF NextMessage
  <2> HIDE DEF Points
  <2> QED
    BY <2>3, <2>4, <2>5, <2>6, <2>7, <2>8 DEF TypeOK, muxVars, Points
<1>10. ASSUME NEW t \in Threads, SendAddress(t), UNCHANGED muxVars PROVE TypeOK'
  <2>1. pc[t] = "address" /\ Cur(t).rd \in BOOLEAN
    BY <1>10, MessagesTyped DEF SendAddress, Message
  <2> DEFINE heard == "STA" \in nextCr /\ ~bus.held /\ Listener(t) # Nobody
             Effect(out, took) ==
               /\ bus' = IF took
                         THEN [bus EXCEPT !.open = TRUE, !.to = Listener(t),
                                          !.rd = Cur(t).rd, !.held = Cur(t).rd]
                         ELSE [bus EXCEPT !.open = TRUE, !.to = Nobody, !.held = FALSE]
               /\ fault' = IF out = "timeout" THEN fault \cup {out} ELSE fault
               /\ io' = [io EXCEPT ![t].flags = IF out = "ack" THEN @ \ {"RESTART"} ELSE @]
               /\ pc' = [pc EXCEPT ![t] = IF out = "ack" THEN "data" ELSE NoAnswer]
  <2>0. \E out \in Outcomes(heard) : \E took \in Took(heard, out) : Effect(out, took)
    BY <1>10 DEF SendAddress
  <2> HIDE DEF heard, Effect
  <2>2. PICK out \in {"nack", "timeout", "ack"}, took \in BOOLEAN : Effect(out, took)
    BY <2>0, OutcomeKinds
  <2> USE DEF Effect
  <2>3. Listener(t) \in Channels \cup {MuxChip, Nobody}
    BY DEF Listener, TypeOK
  <2>4. bus' \in [open : BOOLEAN, to : Channels \cup {MuxChip, Nobody},
                  rd : BOOLEAN, held : BOOLEAN, pend : Channels \cup {NoChan}]
    BY <2>1, <2>2, <2>3 DEF TypeOK
  <2>5. io' \in [Threads -> Locals]
    <3> DEFINE fl == IF out = "ack" THEN io[t].flags \ {"RESTART"} ELSE io[t].flags
    <3>1. io[t] \in Locals /\ fl \in SUBSET {"RESTART", "STOP"}
      BY DEF TypeOK, Locals
    <3>2. [io[t] EXCEPT !.flags = fl] \in Locals
      BY <3>1, LocalsTyped
    <3> QED
      BY <2>2, <3>2 DEF TypeOK
  <2>6. Points'
    BY <2>1, <2>2 DEF TypeOK, Locals, Cur, NoAnswer
  <2> HIDE DEF Points
  <2> QED
    BY <1>10, <2>2, <2>4, <2>5, <2>6 DEF SendAddress, TypeOK, muxVars, Points, NoAnswer
<1>11. ASSUME NEW t \in Threads, WriteByte(t), UNCHANGED muxVars PROVE TypeOK'
  <2>1. /\ pc[t] = "data" /\ io[t].k \in Nat /\ io[t].m \in Nat /\ Cur(t).len \in Nat
        /\ io[t].k <= Cur(t).len
    BY <1>11, MessagesTyped DEF WriteByte
  <2> DEFINE heard == /\ bus.open /\ bus.to # Nobody /\ ~bus.rd
                      /\ "STA" \notin nextCr
             Effect(out, took) ==
               /\ bus' = IF took /\ bus.to = MuxChip
                         THEN [bus EXCEPT !.pend = io[t].select] ELSE bus
               /\ got' = IF took THEN Append(got, <<io[t].m, io[t].k>>) ELSE got
               /\ fault' = IF out = "timeout" THEN fault \cup {out} ELSE fault
               /\ io' = [io EXCEPT ![t].k = @ + 1]
               /\ pc' = [pc EXCEPT ![t] = IF GoesOn(out) THEN "data" ELSE "finish"]
  <2>0. \E out \in Outcomes(heard) : \E took \in Took(heard, out) : Effect(out, took)
    BY <1>11 DEF WriteByte
  <2> HIDE DEF heard, Effect
  <2>2. PICK out \in {"nack", "timeout", "ack"}, took \in BOOLEAN : Effect(out, took)
    BY <2>0, OutcomeKinds
  <2> USE DEF Effect
  <2>3. bus' \in [open : BOOLEAN, to : Channels \cup {MuxChip, Nobody},
                  rd : BOOLEAN, held : BOOLEAN, pend : Channels \cup {NoChan}]
    BY <2>2 DEF TypeOK, Locals
  <2>4. got' \in Seq(Nat \X Nat)
    BY <2>1, <2>2 DEF TypeOK
  <2>5. io' \in [Threads -> Locals]
    <3>1. io[t] \in Locals /\ io[t].k + 1 \in Nat
      BY <2>1 DEF TypeOK
    <3>2. [io[t] EXCEPT !.k = io[t].k + 1] \in Locals
      BY <3>1, LocalsTyped
    <3> QED
      BY <2>2, <3>2 DEF TypeOK
  <2>6. Points'
    <3>1. io[t].m \in 1 .. Len(io[t].msgs) /\ io[t].k + 1 \in 1 .. Cur(t).len + 1
      BY <2>1 DEF TypeOK
    <3>2. /\ io'[t].m = io[t].m /\ io'[t].k = io[t].k + 1 /\ io'[t].msgs = io[t].msgs
          /\ \A u \in Threads \ {t} : pc'[u] = pc[u] /\ io'[u] = io[u]
      BY <2>2 DEF TypeOK, Locals
    <3>3. Cur(t)' = Cur(t)
      BY <3>2 DEF Cur
    <3> HIDE DEF Points
    <3>4. io'[t].m \in 1 .. Len(io'[t].msgs) /\ io'[t].k \in 1 .. Cur(t)'.len + 1
      BY <3>1, <3>2, <3>3
    <3> QED
      BY <3>2, <3>4, PointsKept DEF Points
  <2> HIDE DEF Points
  <2> QED
    BY <1>11, <2>2, <2>3, <2>4, <2>5, <2>6 DEF WriteByte, TypeOK, muxVars, Points
<1>12. ASSUME NEW t \in Threads, ReadByte(t), UNCHANGED muxVars PROVE TypeOK'
  <2>1. /\ pc[t] = "data" /\ io[t].k \in Nat /\ io[t].m \in Nat /\ Cur(t).len \in Nat
        /\ io[t].k <= Cur(t).len
    BY <1>12, MessagesTyped DEF ReadByte
  <2>2. bus' \in [open : BOOLEAN, to : Channels \cup {MuxChip, Nobody},
                  rd : BOOLEAN, held : BOOLEAN, pend : Channels \cup {NoChan}]
    BY <1>12 DEF ReadByte, TypeOK, LastByte
  <2>3. got' \in Seq(Nat \X Nat)
    BY <1>12, <2>1 DEF ReadByte, TypeOK
  <2>4. io' = [io EXCEPT ![t].k = @ + 1] /\ UNCHANGED <<pc, hwChan>>
    BY <1>12 DEF ReadByte
  <2>5. io' \in [Threads -> Locals]
    <3>1. io[t] \in Locals /\ io[t].k + 1 \in Nat
      BY <2>1 DEF TypeOK
    <3>2. [io[t] EXCEPT !.k = io[t].k + 1] \in Locals
      BY <3>1, LocalsTyped
    <3> QED
      BY <2>4, <3>2 DEF TypeOK
  <2>6. Points'
    <3>1. io[t].m \in 1 .. Len(io[t].msgs) /\ io[t].k + 1 \in 1 .. Cur(t).len + 1
      BY <2>1 DEF TypeOK
    <3>2. /\ io'[t].m = io[t].m /\ io'[t].k = io[t].k + 1 /\ io'[t].msgs = io[t].msgs
          /\ \A u \in Threads \ {t} : pc'[u] = pc[u] /\ io'[u] = io[u]
      BY <2>4 DEF TypeOK, Locals
    <3>3. Cur(t)' = Cur(t)
      BY <3>2 DEF Cur
    <3> HIDE DEF Points
    <3>4. io'[t].m \in 1 .. Len(io'[t].msgs) /\ io'[t].k \in 1 .. Cur(t)'.len + 1
      BY <3>1, <3>2, <3>3
    <3> QED
      BY <3>2, <3>4, PointsKept DEF Points
  <2> HIDE DEF Points
  <2> QED
    BY <1>12, <2>2, <2>3, <2>4, <2>5, <2>6 DEF ReadByte, TypeOK, muxVars, Points
<1>13. ASSUME NEW t \in Threads, EndMessage(t), UNCHANGED muxVars PROVE TypeOK'
  <2>1. io[t] \in Locals /\ io[t].m \in Nat /\ pc[t] = "data" /\ UNCHANGED busVars
    BY <1>13, MessagesTyped DEF EndMessage, TypeOK
  <2>2. CASE MoreMessages(t)
    <3>1. io' = [io EXCEPT ![t].m = @ + 1, ![t].k = 1] /\ pc' = [pc EXCEPT ![t] = "message"]
      BY <1>13, <2>2 DEF EndMessage
    <3>2. io' \in [Threads -> Locals]
      <4>1. io[t].m + 1 \in Nat /\ 1 \in Nat
        BY <2>1
      <4>2. [io[t] EXCEPT !.m = io[t].m + 1, !.k = 1] \in Locals
        BY <2>1, <4>1, LocalsTyped
      <4> QED
        BY <3>1, <4>2 DEF TypeOK
    <3>3. io[t].m + 1 \in 1 .. Len(io[t].msgs) /\ io[t].msgs \in Seq(Message)
      BY <2>1, <2>2 DEF MoreMessages, Locals
    <3>4. io[t].msgs[io[t].m + 1] \in Message
      BY <3>3
    <3>5. io[t].msgs[io[t].m + 1].len \in Nat
      BY <3>4 DEF Message
    <3>6. Points'
      <4>1. /\ io'[t].m = io[t].m + 1 /\ io'[t].k = 1 /\ io'[t].msgs = io[t].msgs
            /\ \A u \in Threads \ {t} : pc'[u] = pc[u] /\ io'[u] = io[u]
        BY <2>1, <3>1 DEF TypeOK, Locals
      <4>2. 1 \in 1 .. Cur(t)'.len + 1
        BY <3>5, <4>1 DEF Cur
      <4> HIDE DEF Points
      <4>3. io'[t].m \in 1 .. Len(io'[t].msgs) /\ io'[t].k \in 1 .. Cur(t)'.len + 1
        BY <3>3, <4>1, <4>2
      <4> QED
        BY <4>1, <4>3, PointsKept DEF Points
    <3> HIDE DEF Points
    <3> QED
      BY <1>13, <2>1, <3>1, <3>2, <3>6 DEF TypeOK, muxVars, busVars, Points
  <2>3. CASE ~MoreMessages(t)
    <3>1. io' = [io EXCEPT ![t].ok = TRUE] /\ pc' = [pc EXCEPT ![t] = "finish"]
      BY <1>13, <2>3 DEF EndMessage
    <3>2. io' \in [Threads -> Locals]
      BY <2>1, <3>1 DEF TypeOK, Locals
    <3>3. Points'
      BY <2>1, <3>1 DEF TypeOK, Locals, Cur
    <3> HIDE DEF Points
    <3> QED
      BY <1>13, <2>1, <3>1, <3>2, <3>3 DEF TypeOK, muxVars, busVars, Points
  <2> QED
    BY <2>2, <2>3
<1>14. ASSUME NEW t \in Threads, Finish(t), UNCHANGED muxVars PROVE TypeOK'
  BY <1>8, <1>14 DEF Finish, TypeOK, muxVars, Cur
<1>15. CASE UNCHANGED vars
  BY <1>15 DEF vars, busVars, muxVars, TypeOK, Cur
<1> QED
  BY <1>1, <1>2, <1>3, <1>5, <1>6, <1>7, <1>9, <1>10, <1>11, <1>12, <1>13, <1>14, <1>15
  DEF Next, Step, Transfer

-----------------------------------------------------------------------------
(* The steps of the invariant *)

\* A step of the transfer itself leaves the thread in the driver and touches no
\* other thread.
LEMMA TransferMoves ==
    ASSUME TypeOK, NEW t \in Threads, Transfer(t), UNCHANGED muxVars
    PROVE  /\ InDriver(t) /\ InDriver(t)'
           /\ UNCHANGED <<lock, chanSelected, call, doubt>>
           /\ \A u \in Threads \ {t} : pc'[u] = pc[u] /\ io'[u] = io[u]
           /\ io'[t].select = io[t].select /\ io'[t].msgs = io[t].msgs
<1> USE DEF InDriver, TypeOK, muxVars, Locals
<1>1. CASE NextMessage(t)
  BY <1>1 DEF NextMessage
<1>2. CASE SendAddress(t)
  BY <1>2 DEF SendAddress, NoAnswer
<1>3. CASE WriteByte(t)
  BY <1>3 DEF WriteByte
<1>4. CASE ReadByte(t)
  BY <1>4 DEF ReadByte
<1>5. CASE EndMessage(t)
  BY <1>5 DEF EndMessage
<1>6. CASE Finish(t)
  BY <1>6 DEF Finish
<1> QED
  BY <1>1, <1>2, <1>3, <1>4, <1>5, <1>6 DEF Transfer

\* Where each step of a transfer leads.
LEMMA NextMessageMoves ==
    ASSUME TypeOK, NEW t \in Threads, NextMessage(t)
    PROVE  /\ pc[t] = "message" /\ pc'[t] \in {"address", "data"}
           /\ pc'[t] = "data" => "RESTART" \notin io[t].flags
           /\ io'[t].m = io[t].m /\ io'[t].k = io[t].k /\ io'[t].ok = io[t].ok
BY DEF NextMessage, NewFlags, TypeOK, Locals

LEMMA SendAddressMoves ==
    ASSUME TypeOK, NEW t \in Threads, SendAddress(t)
    PROVE  /\ pc[t] = "address" /\ pc'[t] \in {"data", "finish"}
           /\ io'[t].m = io[t].m /\ io'[t].k = io[t].k /\ io'[t].ok = io[t].ok
BY DEF SendAddress, NoAnswer, TypeOK, Locals

LEMMA WriteByteMoves ==
    ASSUME TypeOK, NEW t \in Threads, WriteByte(t)
    PROVE  /\ pc[t] = "data" /\ pc'[t] \in {"data", "finish"} /\ io[t].k <= Cur(t).len
           /\ io'[t].m = io[t].m /\ io'[t].k = io[t].k + 1 /\ io'[t].ok = io[t].ok
BY DEF WriteByte, TypeOK, Locals

LEMMA ReadByteMoves ==
    ASSUME TypeOK, NEW t \in Threads, ReadByte(t)
    PROVE  /\ pc[t] = "data" /\ pc'[t] = "data" /\ Cur(t).rd
           /\ io'[t].m = io[t].m /\ io'[t].k = io[t].k + 1 /\ io'[t].ok = io[t].ok
BY DEF ReadByte, TypeOK, Locals

LEMMA EndMessageMoves ==
    ASSUME TypeOK, NEW t \in Threads, EndMessage(t)
    PROVE  /\ pc[t] = "data" /\ io[t].k > Cur(t).len
           /\ \/ /\ MoreMessages(t) /\ pc'[t] = "message"
                 /\ io'[t].m = io[t].m + 1 /\ io'[t].m # 1 /\ io'[t].k = 1
                 /\ io'[t].ok = io[t].ok
              \/ /\ ~MoreMessages(t) /\ pc'[t] = "finish"
                 /\ io'[t].m = io[t].m /\ io'[t].k = io[t].k /\ io'[t].ok
           /\ UNCHANGED busVars
<1>1. pc[t] = "data" /\ io[t].k > Cur(t).len /\ UNCHANGED busVars
  BY DEF EndMessage
<1>2. io[t].m \in Nat /\ io[t].m >= 1
  BY <1>1, MessagesTyped
<1>3. CASE MoreMessages(t)
  <2>1. io' = [io EXCEPT ![t].m = @ + 1, ![t].k = 1] /\ pc' = [pc EXCEPT ![t] = "message"]
    BY <1>3 DEF EndMessage
  <2>2. /\ pc'[t] = "message" /\ io'[t].m = io[t].m + 1 /\ io'[t].k = 1
        /\ io'[t].ok = io[t].ok
    BY <2>1 DEF TypeOK, Locals
  <2> QED
    BY <1>1, <1>2, <1>3, <2>2
<1>4. CASE ~MoreMessages(t)
  <2>1. io' = [io EXCEPT ![t].ok = TRUE] /\ pc' = [pc EXCEPT ![t] = "finish"]
    BY <1>4 DEF EndMessage
  <2>2. /\ pc'[t] = "finish" /\ io'[t].m = io[t].m /\ io'[t].k = io[t].k
        /\ io'[t].ok
    BY <2>1 DEF TypeOK, Locals
  <2> QED
    BY <1>1, <1>4, <2>2
<1> QED
  BY <1>3, <1>4

LEMMA FinishMoves ==
    ASSUME TypeOK, NEW t \in Threads, Finish(t)
    PROVE  pc[t] = "finish" /\ pc'[t] = "returned" /\ io' = io
BY DEF Finish, TypeOK

\* What a call and a timeout of the mutex do to this thread and the others.
LEMMA CallMoves ==
    ASSUME TypeOK, NEW t \in Threads, Call(t)
    PROVE  /\ pc[t] = "idle" /\ pc'[t] = "lock"
           /\ call'[t].chan \in Channels /\ call'[t].msgs # <<>>
           /\ \A u \in Threads \ {t} : pc'[u] = pc[u] /\ call'[u] = call[u]
           /\ UNCHANGED <<io, busVars, lock, chanSelected, doubt>>
BY MuxAssumption DEF Call, TypeOK

LEMMA TimeoutMoves ==
    ASSUME TypeOK, NEW t \in Threads, LockTimeout(t)
    PROVE  /\ pc[t] = "lock" /\ pc'[t] = "idle"
           /\ \A u \in Threads \ {t} : pc'[u] = pc[u] /\ call'[u] = call[u]
           /\ UNCHANGED <<io, busVars, lock, chanSelected, doubt>>
BY DEF LockTimeout, TypeOK

\* What BeginTransfer() and Unlock() do to this thread and the others.
LEMMA BeginMoves ==
    ASSUME TypeOK, NEW t \in Threads, NEW c, NEW msgs, BeginTransfer(t, c, msgs)
    PROVE  /\ pc'[t] = "message"
           /\ io'[t].select = c /\ io'[t].msgs = msgs /\ io'[t].m = 1 /\ io'[t].k = 1
           /\ io'[t].flags = {"RESTART", "STOP"} /\ io'[t].ok = FALSE
           /\ \A u \in Threads \ {t} : pc'[u] = pc[u] /\ io'[u] = io[u]
           /\ fault' = {}
BY DEF BeginTransfer, TypeOK

LEMMA UnlockMoves ==
    ASSUME TypeOK, NEW t \in Threads, Unlock(t)
    PROVE  /\ pc'[t] = "idle"
           /\ \A u \in Threads \ {t} : pc'[u] = pc[u] /\ io'[u] = io[u] /\ call'[u] = call[u]
           /\ lock' = NoThread /\ fault' = {}
BY DEF Unlock, TypeOK

\* A thread that selected goes on with its own messages, or gives up.
LEMMA SelectedMoves ==
    ASSUME TypeOK, NEW t \in Threads, Selected(t)
    PROVE  \/ /\ io[t].ok \/ IgnoreFailure
              /\ BeginTransfer(t, NoChan, call[t].msgs)
              /\ UNCHANGED <<lock, call>>
           \/ ~(io[t].ok \/ IgnoreFailure) /\ Unlock(t)
BY DEF Selected

\* A thread that has the mutex selects its channel, or need not.
LEMMA LockMoves ==
    ASSUME TypeOK, NEW t \in Threads, Lock(t)
    PROVE  \/ SelectedAlready(call[t].chan) /\ BeginTransfer(t, NoChan, call[t].msgs)
           \/ BeginTransfer(t, call[t].chan, SelectMsgs)
BY DEF Lock, SelectMsgs

\* The mutex keeps the others out.
LEMMA LockStep == TypeOK /\ OneTransfer /\ [Next]_vars => OneTransfer'
<1> SUFFICES ASSUME TypeOK, OneTransfer, [Next]_vars PROVE OneTransfer'
  OBVIOUS
<1> USE MuxAssumption DEF OneTransfer, InDriver
<1>1. ASSUME NEW t \in Threads, Call(t) PROVE OneTransfer'
  BY <1>1, CallMoves
<1>2. ASSUME NEW t \in Threads, Lock(t) PROVE OneTransfer'
  <2>1. lock = NoThread /\ lock' = t
    BY <1>2 DEF Lock, MutexFree
  <2>2. pc'[t] = "message" /\ \A u \in Threads \ {t} : pc'[u] = pc[u]
    BY <1>2, LockMoves, BeginMoves
  <2> QED
    BY <2>1, <2>2
<1>3. ASSUME NEW t \in Threads, LockTimeout(t) PROVE OneTransfer'
  BY <1>3, TimeoutMoves
<1>4. ASSUME NEW t \in Threads, pc[t] = "returned", Unlock(t) PROVE OneTransfer'
  BY <1>4, UnlockMoves
<1>5. ASSUME NEW t \in Threads, Selected(t) PROVE OneTransfer'
  <2>1. pc[t] = "returned"
    BY <1>5 DEF Selected
  <2>2. CASE BeginTransfer(t, NoChan, call[t].msgs) /\ UNCHANGED <<lock, call>>
    <3>1. pc'[t] = "message" /\ \A u \in Threads \ {t} : pc'[u] = pc[u]
      BY <2>2, BeginMoves
    <3> QED
      BY <2>1, <2>2, <3>1
  <2> QED
    BY <1>4, <1>5, <2>1, <2>2, SelectedMoves
<1>6. ASSUME NEW t \in Threads, Return(t) PROVE OneTransfer'
  BY <1>4, <1>6 DEF Return
<1>7. ASSUME NEW t \in Threads, Configure(t) PROVE OneTransfer'
  BY <1>7 DEF Configure, muxVars
<1>8. ASSUME NEW t \in Threads, Transfer(t), UNCHANGED muxVars PROVE OneTransfer'
  BY <1>8, TransferMoves
<1>9. CASE UNCHANGED vars
  BY <1>9 DEF vars, muxVars
<1> QED
  BY <1>1, <1>2, <1>3, <1>5, <1>6, <1>7, <1>8, <1>9 DEF Next, Step

\* A new transfer is one that the invariant allows.
LEMMA BeginCall ==
    ASSUME TypeOK, CallInv, NEW t \in Threads, pc[t] # "idle", call' = call,
           NEW c, NEW msgs, BeginTransfer(t, c, msgs),
           c = NoChan \/ (c = call[t].chan /\ msgs = SelectMsgs)
    PROVE  CallInv'
<1>1. /\ pc'[t] = "message"
      /\ io'[t].select = c /\ io'[t].msgs = msgs /\ io'[t].m = 1 /\ io'[t].k = 1
      /\ io'[t].flags = {"RESTART", "STOP"} /\ io'[t].ok = FALSE
  BY BeginMoves
<1>2. \A u \in Threads \ {t} : pc'[u] = pc[u] /\ io'[u] = io[u]
  BY BeginMoves
<1> SUFFICES ASSUME NEW u \in Threads PROVE CallOf(u)'
  BY DEF CallInv
<1>3. CallOf(u)
  BY DEF CallInv
<1>4. CASE u = t
  BY <1>1, <1>3, <1>4 DEF CallOf, InDriver, Selecting
<1>5. CASE u # t
  <2>1. pc'[u] = pc[u] /\ io'[u] = io[u]
    BY <1>2, <1>5
  <2> QED
    BY <1>3, <2>1 DEF CallOf, InDriver, Selecting
<1> QED
  BY <1>4, <1>5

LEMMA CallStep == TypeOK /\ OneTransfer /\ CallInv /\ [Next]_vars => CallInv'
<1> SUFFICES ASSUME TypeOK, OneTransfer, CallInv, [Next]_vars PROVE CallInv'
  OBVIOUS
<1> USE DEF CallInv, CallOf, InDriver, Selecting
<1>1. ASSUME NEW t \in Threads, Call(t) PROVE CallInv'
  BY <1>1, CallMoves
<1>2. ASSUME NEW t \in Threads, Lock(t) PROVE CallInv'
  <2>1. pc[t] = "lock" /\ call' = call
    BY <1>2 DEF Lock
  <2> HIDE DEF CallInv
  <2>2. CASE BeginTransfer(t, NoChan, call[t].msgs)
    BY <2>1, <2>2, BeginCall
  <2>3. CASE BeginTransfer(t, call[t].chan, SelectMsgs)
    BY <2>1, <2>3, BeginCall
  <2> QED
    BY <1>2, <2>2, <2>3, LockMoves
<1>3. ASSUME NEW t \in Threads, LockTimeout(t) PROVE CallInv'
  BY <1>3, TimeoutMoves
<1>4. ASSUME NEW t \in Threads, Unlock(t) PROVE CallInv'
  BY <1>4, UnlockMoves
<1>5. ASSUME NEW t \in Threads, Selected(t) PROVE CallInv'
  <2>1. pc[t] = "returned"
    BY <1>5 DEF Selected
  <2>2. CASE BeginTransfer(t, NoChan, call[t].msgs) /\ UNCHANGED <<lock, call>>
    <3> HIDE DEF CallInv
    <3> QED
      BY <2>1, <2>2, BeginCall
  <2> QED
    BY <1>4, <1>5, <2>2, SelectedMoves
<1>6. ASSUME NEW t \in Threads, Return(t) PROVE CallInv'
  BY <1>4, <1>6 DEF Return
<1>7. ASSUME NEW t \in Threads, Configure(t) PROVE CallInv'
  BY <1>7 DEF Configure, muxVars
<1>8. ASSUME NEW t \in Threads, Transfer(t), UNCHANGED muxVars PROVE CallInv'
  <2>1. \A v \in Threads \ {t} : pc'[v] = pc[v] /\ io'[v] = io[v]
    BY <1>8, TransferMoves
  <2>2. /\ io'[t].select = io[t].select /\ io'[t].msgs = io[t].msgs
        /\ call' = call /\ pc[t] \notin {"idle", "lock"}
    BY <1>8, TransferMoves
  <2>3. CASE NextMessage(t)
    BY <2>1, <2>2, <2>3, NextMessageMoves
  <2>4. CASE SendAddress(t)
    BY <2>1, <2>2, <2>4, SendAddressMoves
  <2>5. CASE WriteByte(t)
    BY <2>1, <2>2, <2>5, WriteByteMoves
  <2>6. CASE ReadByte(t)
    BY <2>1, <2>2, <2>6, ReadByteMoves
  <2>7. CASE EndMessage(t)
    <3>1. ASSUME MoreMessages(t), Selecting(t) PROVE FALSE
      <4>1. io[t].msgs = SelectMsgs /\ io[t].m = 1
        BY <2>2, <3>1
      <4>2. Len(SelectMsgs) = 1
        BY DEF SelectMsgs
      <4> QED
        BY <3>1, <4>1, <4>2 DEF MoreMessages
    <3> QED
      BY <2>1, <2>2, <2>7, <3>1, EndMessageMoves
  <2>8. CASE Finish(t)
    BY <2>1, <2>2, <2>8, FinishMoves
  <2> QED
    BY <1>8, <2>3, <2>4, <2>5, <2>6, <2>7, <2>8 DEF Transfer
<1>9. CASE UNCHANGED vars
  BY <1>9 DEF vars, muxVars
<1> QED
  BY <1>1, <1>2, <1>3, <1>5, <1>6, <1>7, <1>8, <1>9 DEF Next, Step

\* What the invariant says of the chip and the cache.
RouteInv == SelectInv /\ TransferInv /\ RestInv

\* Only the thread that holds the mutex can disturb it.
LEMMA HolderOnly ==
    ASSUME OneTransfer', NEW t \in Threads, InDriver(t)',
           SelectOf(t)', TransferOf(t)',
           ~Selecting(t)' => (Sure' => Known')
    PROVE  RouteInv'
<1>1. lock' = t
  BY DEF OneTransfer
<1>2. ASSUME NEW u \in Threads PROVE SelectOf(u)' /\ TransferOf(u)'
  <2>1. CASE u = t
    BY <2>1
  <2>2. CASE u # t
    <3>1. ~InDriver(u)'
      BY <1>1, <2>2 DEF OneTransfer
    <3> QED
      BY <3>1 DEF SelectOf, TransferOf
  <2> QED
    BY <2>1, <2>2
<1>3. RestInv'
  BY DEF RestInv
<1> QED
  BY <1>2, <1>3 DEF RouteInv, SelectInv, TransferInv

\* Between two selections, the driver knows the chip.
LEMMA HolderKnows ==
    ASSUME OneTransfer, RouteInv, NEW t \in Threads, InDriver(t), ~Selecting(t)
    PROVE  Sure => Known
<1>1. \A u \in Threads : InDriver(u) => u = t
  BY DEF OneTransfer
<1> QED
  BY <1>1 DEF RouteInv, RestInv

\* A STOP with nothing to take effect leaves the chip alone; a STOP that makes
\* no fault is one that came through, unless a device holds the bus.
LEMMA StopMoves ==
    ASSUME Stop, chanSelected' = chanSelected
    PROVE  /\ bus' \in {bus, QuietBus}
           /\ fault' = {} => fault = {}
           /\ Known => Known'
           /\ fault' = {} /\ ~bus.held /\ bus.pend # NoChan
              => bus' = QuietBus /\ hwChan' = bus.pend
BY DEF Stop, WaitBusy, Known, QuietBus

LEMMA NextMessageBus ==
    ASSUME NEW t \in Threads, NextMessage(t), chanSelected' = chanSelected
    PROVE  /\ bus' \in {bus, QuietBus}
           /\ fault' = {} => fault = {}
           /\ Known => Known'
<1>1. CASE "STOP" \in io[t].flags
  BY <1>1, StopMoves DEF NextMessage
<1>2. CASE "STOP" \notin io[t].flags
  <2>1. UNCHANGED <<bus, hwChan, fault>>
    BY <1>2 DEF NextMessage
  <2> QED
    BY <2>1 DEF Known
<1> QED
  BY <1>1, <1>2

\* An address without a fault reaches who listens, or nobody.
LEMMA SendAddressBus ==
    ASSUME TypeOK, NEW t \in Threads, SendAddress(t), chanSelected' = chanSelected
    PROVE  /\ bus'.to \in {Listener(t), Nobody}
           /\ fault' = {} => fault = {}
           /\ Known => Known'
           /\ fault' = {} /\ pc'[t] = "data"
              => /\ bus'.open /\ bus'.to = Listener(t) /\ Listener(t) # Nobody
                 /\ bus'.rd = Cur(t).rd /\ bus'.held = Cur(t).rd
           /\ fault' = {} /\ pc'[t] = "finish" => ~bus'.held
<1> DEFINE heard == "STA" \in nextCr /\ ~bus.held /\ Listener(t) # Nobody
<1>1. PICK out \in Outcomes(heard), took \in BOOLEAN :
         /\ took \in Took(heard, out)
         /\ bus' = IF took
                   THEN [bus EXCEPT !.open = TRUE, !.to = Listener(t),
                                    !.rd = Cur(t).rd, !.held = Cur(t).rd]
                   ELSE [bus EXCEPT !.open = TRUE, !.to = Nobody, !.held = FALSE]
         /\ fault' = IF out = "timeout" THEN fault \cup {out} ELSE fault
         /\ pc' = [pc EXCEPT ![t] = IF out = "ack" THEN "data" ELSE NoAnswer]
  BY DEF SendAddress, Took
<1>2. hwChan' = hwChan
  BY DEF SendAddress
<1>3. bus'.to \in {Listener(t), Nobody} /\ bus'.pend = bus.pend
  BY <1>1 DEF TypeOK
<1>4. fault' = {} => fault = {} /\ out # "timeout"
  BY <1>1
<1>5. ASSUME fault' = {}, pc'[t] = "data" PROVE took /\ Listener(t) # Nobody
  <2>1. out = "ack" /\ fault = {}
    BY <1>1, <1>4, <1>5 DEF NoAnswer, TypeOK
  <2>2. heard
    BY <2>1 DEF Outcomes
  <2>3. Listener(t) # Nobody
    BY <2>2
  <2> HIDE DEF heard
  <2> QED
    BY <1>1, <2>1, <2>2, <2>3 DEF Took
<1>6. ASSUME fault' = {}, pc'[t] = "finish" PROVE ~took
  <2>1. out = "nack"
    BY <1>1, <1>4, <1>6 DEF NoAnswer, TypeOK, Outcomes
  <2> HIDE DEF heard
  <2> QED
    BY <1>1, <2>1 DEF Took
<1>7. /\ took => /\ bus'.open /\ bus'.to = Listener(t)
                  /\ bus'.rd = Cur(t).rd /\ bus'.held = Cur(t).rd
      /\ ~took => ~bus'.held
  BY <1>1 DEF TypeOK
<1> QED
  BY <1>2, <1>3, <1>4, <1>5, <1>6, <1>7 DEF Known

\* A byte without a fault is taken or refused; only the chip notes a channel.
LEMMA WriteByteBus ==
    ASSUME TypeOK, NEW t \in Threads, WriteByte(t)
    PROVE  /\ fault' = {} => fault = {}
           /\ hwChan' = hwChan
           /\ bus.to # MuxChip => bus' = bus
           /\ fault' = {} /\ pc'[t] = "data" /\ bus.to = MuxChip
              => bus' = [bus EXCEPT !.pend = io[t].select]
           /\ fault' = {} /\ pc'[t] = "finish" => bus' = bus
<1> DEFINE heard == /\ bus.open /\ bus.to # Nobody /\ ~bus.rd
                    /\ "STA" \notin nextCr
<1>1. PICK out \in Outcomes(heard), took \in BOOLEAN :
         /\ took \in Took(heard, out)
         /\ bus' = IF took /\ bus.to = MuxChip
                   THEN [bus EXCEPT !.pend = io[t].select] ELSE bus
         /\ fault' = IF out = "timeout" THEN fault \cup {out} ELSE fault
         /\ pc' = [pc EXCEPT ![t] = IF GoesOn(out) THEN "data" ELSE "finish"]
  BY DEF WriteByte, Took
<1>2. fault' = {} => fault = {} /\ out # "timeout"
  BY <1>1
<1>3. ASSUME fault' = {}, pc'[t] = "data" PROVE took
  <2>1. out = "ack" /\ fault = {}
    BY <1>1, <1>2, <1>3 DEF GoesOn, TypeOK
  <2>2. heard
    BY <2>1 DEF Outcomes
  <2> HIDE DEF heard
  <2> QED
    BY <1>1, <2>1, <2>2 DEF Took
<1>4. ASSUME fault' = {}, pc'[t] = "finish" PROVE ~took
  <2>1. out = "nack"
    BY <1>1, <1>2, <1>4 DEF GoesOn, TypeOK, Outcomes
  <2> HIDE DEF heard
  <2> QED
    BY <1>1, <2>1 DEF Took
<1> HIDE DEF heard
<1> QED
  BY <1>1, <1>2, <1>3, <1>4 DEF WriteByte

LEMMA ReadByteBus ==
    ASSUME TypeOK, NEW t \in Threads, ReadByte(t), chanSelected' = chanSelected
    PROVE  bus'.to = bus.to /\ (Known => Known')
<1>1. bus'.to = bus.to /\ bus'.pend = bus.pend /\ hwChan' = hwChan
  BY DEF ReadByte, TypeOK
<1> QED
  BY <1>1 DEF Known

\* A selection, step by step.
LEMMA SelectMoves ==
    ASSUME TypeOK, CallInv, SelectInv, NEW t \in Threads, Transfer(t),
           UNCHANGED muxVars, Selecting(t)
    PROVE  SelectOf(t)'
<1>1. /\ InDriver(t) /\ UNCHANGED <<lock, chanSelected, call, doubt>>
      /\ io'[t].select = io[t].select
  BY TransferMoves
<1>2. /\ io[t].select = call[t].chan /\ call[t].chan \in Channels
      /\ io[t].msgs = SelectMsgs /\ io[t].m = 1
      /\ pc[t] \in {"message", "address"} => io[t].k = 1
      /\ io[t].ok => pc[t] \in {"finish", "returned"}
      /\ pc[t] = "message" => "RESTART" \in io[t].flags
  BY <1>1 DEF CallInv, CallOf, InDriver
<1>3. Cur(t) = [rd |-> FALSE, flags |-> {"STOP"}, len |-> 1] /\ ~MoreMessages(t)
  BY <1>2 DEF Cur, SelectMsgs, MoreMessages
<1>4. Sure' = Sure
  BY <1>1 DEF Sure
<1>5. SelectOf(t)
  BY DEF SelectInv
<1>6. call[t].chan # NoChan
  BY <1>2, BusAssumption
<1> USE DEF SelectOf
<1>7. CASE NextMessage(t)
  <2>1. pc[t] = "message" /\ pc'[t] = "address" /\ io'[t].k = io[t].k
    BY <1>2, <1>7, NextMessageMoves
  <2>2. (fault' = {} => fault = {}) /\ (Known => Known')
    BY <1>1, <1>7, NextMessageBus
  <2> QED
    BY <1>1, <1>4, <1>5, <2>1, <2>2 DEF Selecting
<1>8. CASE SendAddress(t)
  <2>1. /\ pc[t] = "address" /\ pc'[t] \in {"data", "finish"}
        /\ io'[t].k = 1 /\ ~io'[t].ok
    BY <1>2, <1>8, SendAddressMoves
  <2>2. Listener(t) = MuxChip
    BY DEF Listener, Selecting
  <2>3. /\ fault' = {} => fault = {}
        /\ Known => Known'
        /\ fault' = {} /\ pc'[t] = "data"
           => bus'.open /\ bus'.to = MuxChip /\ ~bus'.rd /\ ~bus'.held
    BY <1>1, <1>3, <1>8, <2>2, SendAddressBus
  <2> QED
    BY <1>1, <1>4, <1>5, <2>1, <2>3 DEF Selecting
<1>9. CASE WriteByte(t)
  <2>1. /\ pc[t] = "data" /\ pc'[t] \in {"data", "finish"} /\ io[t].k <= 1
        /\ io'[t].k = io[t].k + 1 /\ io'[t].ok = io[t].ok
    BY <1>3, <1>9, WriteByteMoves
  <2>2. io[t].k = 1
    BY <1>3, <2>1 DEF TypeOK
  <2>3. io'[t].k = 2 /\ ~io'[t].ok
    BY <1>2, <2>1, <2>2
  <2>4. ASSUME fault' = {} PROVE fault = {}
    BY <1>9, <2>4, WriteByteBus
  <2>5. CASE fault' = {} /\ pc'[t] = "data"
    <3>1. bus.open /\ bus.to = MuxChip /\ ~bus.rd /\ ~bus.held
      BY <1>1, <1>5, <2>1, <2>4, <2>5
    <3>2. bus' = [bus EXCEPT !.pend = io[t].select]
      BY <1>9, <2>5, <3>1, WriteByteBus
    <3>3. /\ bus'.open /\ bus'.to = MuxChip /\ ~bus'.rd /\ ~bus'.held
          /\ bus'.pend = io[t].select
      BY <3>1, <3>2 DEF TypeOK
    <3> QED
      BY <1>1, <1>2, <2>3, <2>5, <3>3
  <2>6. CASE fault' = {} /\ pc'[t] = "finish"
    <3>1. Sure => Known
      BY <1>1, <1>5, <2>1, <2>2, <2>4, <2>6
    <3>2. bus' = bus /\ hwChan' = hwChan
      BY <1>9, <2>6, WriteByteBus
    <3>3. Known' = Known
      BY <1>1, <3>2 DEF Known
    <3> QED
      BY <1>4, <2>3, <2>6, <3>1, <3>3
  <2> QED
    BY <2>1, <2>5, <2>6
<1>10. CASE ReadByte(t)
  BY <1>3, <1>10, ReadByteMoves
<1>11. CASE EndMessage(t)
  <2>1. /\ pc[t] = "data" /\ io[t].k > 1 /\ pc'[t] = "finish" /\ io'[t].ok
        /\ UNCHANGED busVars
    BY <1>3, <1>11, EndMessageMoves
  <2>2. io[t].k = 2
    BY <1>3, <2>1 DEF TypeOK
  <2> QED
    BY <1>1, <1>5, <2>1, <2>2 DEF busVars
<1>12. CASE Finish(t)
  <2>1. pc[t] = "finish" /\ pc'[t] = "returned" /\ io' = io
    BY <1>12, FinishMoves
  <2>2. /\ fault' = {} => fault = {}
        /\ Known => Known'
        /\ fault' = {} /\ ~bus.held /\ bus.pend # NoChan
           => bus' = QuietBus /\ hwChan' = bus.pend
    BY <1>1, <1>12, StopMoves DEF Finish
  <2>3. QuietBus.pend = NoChan
    BY DEF QuietBus
  <2> QED
    BY <1>1, <1>4, <1>5, <1>6, <2>1, <2>2, <2>3
<1> QED
  BY <1>7, <1>8, <1>9, <1>10, <1>11, <1>12 DEF Transfer

\* A transfer of the caller's messages, step by step.
LEMMA OwnMoves ==
    ASSUME TypeOK, CallInv, TransferInv, NEW t \in Threads, Transfer(t),
           UNCHANGED muxVars, ~Selecting(t), Sure => Known
    PROVE  TransferOf(t)' /\ (Sure' => Known')
<1>1. /\ InDriver(t) /\ UNCHANGED <<lock, chanSelected, call, doubt>>
      /\ io'[t].select = io[t].select
  BY TransferMoves
<1>2. /\ call[t].chan \in Channels
      /\ pc[t] = "message" /\ io[t].m = 1 => "RESTART" \in io[t].flags
  BY <1>1 DEF CallInv, CallOf, InDriver
<1>3. Sure' = Sure
  BY <1>1 DEF Sure
<1>4. TransferOf(t)
  BY DEF TransferInv
<1>5. Nobody # MuxChip /\ call[t].chan # NoChan /\ MuxChip \notin Channels
  BY <1>2, BusAssumption
<1>6. ASSUME Known => Known',
             Addressed(t)' /\ pc'[t] # "finish" => bus'.to # MuxChip,
             Addressed(t)' /\ Sure => bus'.to \in {Nobody, call[t].chan}
      PROVE  TransferOf(t)' /\ (Sure' => Known')
  BY <1>1, <1>3, <1>4, <1>6 DEF TransferOf, Selecting
<1>7. CASE NextMessage(t)
  <2>1. /\ pc[t] = "message" /\ pc'[t] \in {"address", "data"}
        /\ pc'[t] = "data" => "RESTART" \notin io[t].flags
    BY <1>7, NextMessageMoves
  <2>2. (bus' \in {bus, QuietBus}) /\ (Known => Known')
    BY <1>1, <1>7, NextMessageBus
  <2>3. QuietBus.to = Nobody
    BY DEF QuietBus
  <2>4. Addressed(t)' => Addressed(t) /\ pc[t] # "finish"
    BY <1>2, <2>1 DEF Addressed
  <2> QED
    BY <1>1, <1>4, <1>5, <1>6, <2>2, <2>3, <2>4 DEF TransferOf
<1>8. CASE SendAddress(t)
  <2>1. (bus'.to \in {Listener(t), Nobody}) /\ (Known => Known')
    BY <1>1, <1>8, SendAddressBus
  <2>2. Listener(t) # MuxChip
    BY <1>5 DEF Listener, Selecting, TypeOK
  <2>3. Sure => Listener(t) \in {Nobody, call[t].chan}
    <3>1. Sure => chanSelected = call[t].chan
      BY <1>1, <1>4 DEF TransferOf, Sure
    <3> QED
      BY <1>5, <3>1 DEF Listener, Selecting, Known
  <2> QED
    BY <1>5, <1>6, <2>1, <2>2, <2>3
<1>9. CASE WriteByte(t)
  <2>1. pc[t] = "data" /\ Addressed(t)
    BY <1>9, WriteByteMoves DEF Addressed
  <2>2. bus' = bus /\ hwChan' = hwChan
    BY <1>1, <1>4, <1>9, <2>1, WriteByteBus DEF TransferOf
  <2>3. Known' = Known
    BY <1>1, <2>2 DEF Known
  <2> QED
    BY <1>1, <1>4, <1>6, <2>1, <2>2, <2>3 DEF TransferOf
<1>10. CASE ReadByte(t)
  <2>1. pc[t] = "data" /\ Addressed(t)
    BY <1>10, ReadByteMoves DEF Addressed
  <2>2. bus'.to = bus.to /\ (Known => Known')
    BY <1>1, <1>10, ReadByteBus
  <2> QED
    BY <1>1, <1>4, <1>6, <2>1, <2>2 DEF TransferOf
<1>11. CASE EndMessage(t)
  <2>1. pc[t] = "data" /\ Addressed(t) /\ UNCHANGED busVars
    BY <1>11, EndMessageMoves DEF Addressed
  <2>2. Known' = Known
    BY <1>1, <2>1 DEF Known, busVars
  <2> QED
    BY <1>1, <1>4, <1>6, <2>1, <2>2 DEF TransferOf, busVars
<1>12. CASE Finish(t)
  <2>1. pc'[t] = "returned" /\ (Known => Known')
    BY <1>1, <1>12, FinishMoves, StopMoves DEF Finish
  <2> QED
    BY <1>6, <2>1 DEF Addressed
<1> QED
  BY <1>7, <1>8, <1>9, <1>10, <1>11, <1>12 DEF Transfer

\* Chip and cache agree after every step.
LEMMA RouteStep == MuxInv /\ OneTransfer' /\ CallInv' /\ [Next]_vars => RouteInv'
<1> SUFFICES ASSUME TypeOK, OneTransfer, CallInv, RouteInv, OneTransfer', CallInv',
                    [Next]_vars
             PROVE  RouteInv'
  BY DEF MuxInv, RouteInv
<1>1. SelectInv /\ TransferInv
  BY DEF RouteInv
<1>2. ASSUME NEW t \in Threads, ~InDriver(t), ~InDriver(t)',
             UNCHANGED <<io, busVars, lock, chanSelected, doubt>>,
             \A u \in Threads \ {t} : pc'[u] = pc[u] /\ call'[u] = call[u]
      PROVE  RouteInv'
  <2>1. UNCHANGED <<bus, hwChan, fault>> /\ Sure' = Sure /\ Known' = Known
    BY <1>2 DEF busVars, Sure, Known
  <2>2. ASSUME NEW u \in Threads
        PROVE  /\ SelectOf(u)' /\ TransferOf(u)'
               /\ InDriver(u)' = InDriver(u) /\ Selecting(u)' = Selecting(u)
    <3>1. CASE u = t
      BY <1>2, <3>1 DEF SelectOf, TransferOf, Selecting, InDriver
    <3>2. CASE u # t
      <4>1. pc'[u] = pc[u] /\ call'[u] = call[u] /\ io'[u] = io[u]
        BY <1>2, <3>2
      <4>2. SelectOf(u) /\ TransferOf(u)
        BY <1>1 DEF SelectInv, TransferInv
      <4>3. /\ InDriver(u)' = InDriver(u) /\ Selecting(u)' = Selecting(u)
            /\ Addressed(u)' = Addressed(u)
        BY <4>1 DEF InDriver, Selecting, Addressed
      <4>4. SelectOf(u)'
        BY <2>1, <4>1, <4>2, <4>3 DEF SelectOf
      <4>5. TransferOf(u)'
        BY <1>2, <2>1, <4>1, <4>2, <4>3 DEF TransferOf
      <4> QED
        BY <4>3, <4>4, <4>5
    <3> QED
      BY <3>1, <3>2
  <2> QED
    BY <2>1, <2>2 DEF RouteInv, SelectInv, TransferInv, RestInv
<1>3. ASSUME NEW t \in Threads, Call(t) PROVE RouteInv'
  BY <1>2, <1>3, CallMoves DEF InDriver
<1>4. ASSUME NEW t \in Threads, LockTimeout(t) PROVE RouteInv'
  BY <1>2, <1>4, TimeoutMoves DEF InDriver
<1>5. ASSUME NEW t \in Threads, Lock(t) PROVE RouteInv'
  <2>1. /\ lock = NoThread /\ UNCHANGED <<bus, hwChan, chanSelected, call, doubt>>
        /\ pc[t] = "lock"
    BY <1>5 DEF Lock, MutexFree
  <2>2. \A u \in Threads : ~InDriver(u)
    BY <2>1, MuxAssumption DEF OneTransfer
  <2>3. Sure => Known
    BY <2>2 DEF RouteInv, RestInv
  <2>4. Sure' = Sure /\ Known' = Known
    BY <2>1 DEF Sure, Known
  <2>5. call[t].chan \in Channels /\ call[t].chan # NoChan
    BY <2>1, BusAssumption DEF CallInv, CallOf
  <2>6. ASSUME NEW c, NEW msgs, BeginTransfer(t, c, msgs),
               c = NoChan => chanSelected = call[t].chan
        PROVE  RouteInv'
    <3>1. pc'[t] = "message" /\ io'[t].select = c /\ io'[t].m = 1
      BY <2>6, BeginMoves
    <3>2. SelectOf(t)' /\ TransferOf(t)' /\ InDriver(t)'
      BY <2>1, <2>3, <2>4, <2>6, <3>1
      DEF SelectOf, TransferOf, Selecting, Addressed, InDriver
    <3> QED
      BY <2>3, <2>4, <3>2, HolderOnly
  <2>7. CASE SelectedAlready(call[t].chan) /\ BeginTransfer(t, NoChan, call[t].msgs)
    BY <2>6, <2>7 DEF SelectedAlready
  <2>8. CASE BeginTransfer(t, call[t].chan, SelectMsgs)
    BY <2>5, <2>6, <2>8
  <2> QED
    BY <1>5, <2>7, <2>8, LockMoves
<1>6. ASSUME NEW t \in Threads, pc[t] = "returned", Unlock(t), Sure' => Known'
      PROVE  RouteInv'
  <2>1. lock' = NoThread
    BY <1>6, UnlockMoves
  <2>2. \A u \in Threads : ~InDriver(u)'
    BY <2>1, MuxAssumption DEF OneTransfer
  <2> QED
    BY <1>6, <2>2 DEF RouteInv, SelectInv, SelectOf, TransferInv, TransferOf, RestInv
<1>7. ASSUME NEW t \in Threads, Selected(t) PROVE RouteInv'
  <2>1. /\ pc[t] = "returned" /\ Selecting(t) /\ UNCHANGED <<bus, hwChan>>
        /\ doubt' = (fault # {} \/ (doubt /\ ~io[t].ok))
        /\ chanSelected' = IF io[t].ok \/ IgnoreFailure THEN call[t].chan ELSE chanSelected
    BY <1>7 DEF Selected, Recorded
  <2>2. SelectOf(t) /\ InDriver(t)
    BY <1>1, <2>1 DEF SelectInv, InDriver
  <2>3. Sure' => fault = {} /\ (io[t].ok \/ Sure)
    BY <2>1 DEF Sure
  <2>4. Sure' => Known'
    <3>1. CASE io[t].ok
      BY <2>1, <2>2, <2>3, <3>1 DEF SelectOf, Known
    <3>2. CASE ~io[t].ok
      <4>1. Sure' => chanSelected' = chanSelected
        BY <2>1, <3>2 DEF Sure
      <4> QED
        BY <2>1, <2>2, <2>3, <3>2, <4>1 DEF SelectOf, Known
    <3> QED
      BY <3>1, <3>2
  <2>5. CASE /\ io[t].ok \/ IgnoreFailure
             /\ BeginTransfer(t, NoChan, call[t].msgs) /\ UNCHANGED <<lock, call>>
    <3>1. pc'[t] = "message" /\ io'[t].select = NoChan /\ io'[t].m = 1
      BY <2>5, BeginMoves
    <3>2. SelectOf(t)' /\ TransferOf(t)' /\ InDriver(t)'
      BY <2>1, <2>5, <3>1 DEF SelectOf, TransferOf, Selecting, Addressed, InDriver
    <3> QED
      BY <2>4, <3>2, HolderOnly
  <2>6. CASE Unlock(t)
    BY <1>6, <2>1, <2>4, <2>6
  <2> QED
    BY <1>7, <2>5, <2>6, SelectedMoves
<1>8. ASSUME NEW t \in Threads, Return(t) PROVE RouteInv'
  <2>1. /\ pc[t] = "returned" /\ ~Selecting(t) /\ Unlock(t)
        /\ UNCHANGED <<bus, hwChan, chanSelected, doubt>>
    BY <1>8 DEF Return
  <2>2. Sure => Known
    BY <2>1, HolderKnows DEF InDriver
  <2>3. Sure' = Sure /\ Known' = Known
    BY <2>1 DEF Sure, Known
  <2> QED
    BY <1>6, <2>1, <2>2, <2>3
<1>9. ASSUME NEW t \in Threads, Configure(t) PROVE RouteInv'
  <2>1. fault' # {} /\ UNCHANGED <<pc, io, bus, hwChan, muxVars>>
    BY <1>9 DEF Configure, ResetController
  <2>2. ASSUME NEW u \in Threads
        PROVE  /\ InDriver(u)' = InDriver(u) /\ Selecting(u)' = Selecting(u)
               /\ TransferOf(u)' = TransferOf(u)
    BY <2>1 DEF InDriver, Selecting, TransferOf, Addressed, Sure, muxVars
  <2>3. Sure' = Sure /\ Known' = Known
    BY <2>1 DEF Sure, Known, muxVars
  <2> QED
    BY <2>1, <2>2, <2>3 DEF RouteInv, SelectInv, SelectOf, TransferInv, RestInv
<1>10. ASSUME NEW t \in Threads, Transfer(t), UNCHANGED muxVars PROVE RouteInv'
  <2>1. InDriver(t) /\ InDriver(t)' /\ Selecting(t)' = Selecting(t)
    BY <1>10, TransferMoves DEF Selecting
  <2>2. CASE Selecting(t)
    <3>1. SelectOf(t)'
      BY <1>1, <1>10, <2>2, SelectMoves
    <3>2. TransferOf(t)'
      BY <2>1, <2>2 DEF TransferOf
    <3> QED
      BY <2>1, <2>2, <3>1, <3>2, HolderOnly
  <2>3. CASE ~Selecting(t)
    <3>1. Sure => Known
      BY <2>1, <2>3, HolderKnows
    <3>2. TransferOf(t)' /\ (Sure' => Known')
      BY <1>1, <1>10, <2>3, <3>1, OwnMoves
    <3>3. SelectOf(t)'
      BY <2>1, <2>3 DEF SelectOf
    <3> QED
      BY <2>1, <3>2, <3>3, HolderOnly
  <2> QED
    BY <2>2, <2>3
<1>11. CASE UNCHANGED vars
  <2>1. UNCHANGED <<pc, io, bus, hwChan, fault, chanSelected, call, doubt>>
    BY <1>11 DEF vars, busVars, muxVars
  <2> QED
    BY <2>1 DEF RouteInv, SelectInv, SelectOf, TransferInv, TransferOf, RestInv,
                InDriver, Selecting, Addressed, Known, Sure
<1> QED
  BY <1>3, <1>4, <1>5, <1>7, <1>8, <1>9, <1>10, <1>11 DEF Next, Step

LEMMA MuxStep == MuxInv /\ [Next]_vars => MuxInv'
<1> SUFFICES ASSUME MuxInv, [Next]_vars PROVE MuxInv'
  OBVIOUS
<1>1. TypeOK' /\ OneTransfer' /\ CallInv'
  BY TypeStep, LockStep, CallStep DEF MuxInv
<1>2. RouteInv'
  BY <1>1, RouteStep
<1> QED
  BY <1>1, <1>2 DEF MuxInv, RouteInv

LEMMA MuxAlways == Spec => []MuxInv
BY MuxInitially, MuxStep, PTL DEF Spec

-----------------------------------------------------------------------------
(* The bus after a transfer *)

\* Who is in the driver sends what a caller gave, or a selection.
CallerOf(t) ==
    /\ pc[t] # "idle" => call[t].msgs \in Transfers
    /\ InDriver(t) => io[t].msgs \in Transfers \/ io[t].msgs = SelectMsgs

CallerInv == \A t \in Threads : CallerOf(t)

\* Without a fault a device drives the bus only while the driver still reads from it.
BusOf(t) ==
    InDriver(t) =>
        /\ pc[t] # "address" => nextCr = {}
        /\ pc[t] \in {"message", "address"} => io[t].k = 1
        /\ fault = {} =>
              /\ pc[t] = "message" /\ io[t].m # 1 => ~bus.held
              /\ pc[t] = "data" =>
                    /\ bus.held <=> Cur(t).rd /\ io[t].k <= Cur(t).len
                    /\ bus.held => bus.open /\ bus.to # Nobody /\ bus.rd
              /\ pc[t] = "finish" => ~bus.held
              /\ pc[t] = "returned" => ~bus.open

BusInv ==
    /\ \A t \in Threads : BusOf(t)
    /\ (\A t \in Threads : ~InDriver(t)) => nextCr = {}

\* A read of a transfer that is under way has a byte and a start condition.
LEMMA ReadsStart ==
    ASSUME TypeOK, CallerInv, NEW t \in Threads, pc[t] \in {"message", "address", "data"},
           Cur(t).rd
    PROVE  Cur(t).len > 0 /\ (io[t].m # 1 => "RESTART" \in Cur(t).flags)
<1>1. InDriver(t) /\ io[t].m \in 1 .. Len(io[t].msgs)
  BY DEF InDriver, TypeOK
<1>2. CASE io[t].msgs \in Transfers
  BY <1>1, <1>2, ReadsAssumption DEF Cur
<1>3. CASE io[t].msgs = SelectMsgs
  <2>1. Len(SelectMsgs) = 1 /\ ~SelectMsgs[1].rd
    BY DEF SelectMsgs
  <2>2. io[t].m = 1
    BY <1>1, <1>3, <2>1
  <2> QED
    BY <1>3, <2>1, <2>2 DEF Cur
<1> QED
  BY <1>1, <1>2, <1>3 DEF CallerInv, CallerOf

LEMMA CallerStep == TypeOK /\ CallInv /\ CallerInv /\ [Next]_vars => CallerInv'
<1> SUFFICES ASSUME TypeOK, CallInv, CallerInv, [Next]_vars PROVE CallerInv'
  OBVIOUS
<1> USE DEF CallerInv, CallerOf, InDriver
<1>1. ASSUME NEW t \in Threads, Call(t) PROVE CallerInv'
  <2>1. call'[t].msgs \in Transfers
    BY <1>1 DEF Call, TypeOK
  <2> QED
    BY <1>1, <2>1, CallMoves
<1>2. ASSUME NEW t \in Threads, NEW c, NEW msgs, BeginTransfer(t, c, msgs), pc[t] # "idle",
             call' = call, msgs = call[t].msgs \/ msgs = SelectMsgs
      PROVE  CallerInv'
  <2>1. pc'[t] = "message" /\ io'[t].msgs = msgs
    BY <1>2, BeginMoves
  <2>2. \A u \in Threads \ {t} : pc'[u] = pc[u] /\ io'[u] = io[u]
    BY <1>2, BeginMoves
  <2> QED
    BY <1>2, <2>1, <2>2
<1>3. ASSUME NEW t \in Threads, Lock(t) PROVE CallerInv'
  <2>1. pc[t] = "lock" /\ call' = call
    BY <1>3 DEF Lock
  <2> HIDE DEF CallerInv
  <2> QED
    BY <1>2, <1>3, <2>1, LockMoves
<1>4. ASSUME NEW t \in Threads, LockTimeout(t) PROVE CallerInv'
  BY <1>4, TimeoutMoves
<1>5. ASSUME NEW t \in Threads, Unlock(t) PROVE CallerInv'
  BY <1>5, UnlockMoves
<1>6. ASSUME NEW t \in Threads, Selected(t) PROVE CallerInv'
  <2>1. pc[t] = "returned"
    BY <1>6 DEF Selected
  <2> HIDE DEF CallerInv
  <2> QED
    BY <1>2, <1>5, <1>6, <2>1, SelectedMoves
<1>7. ASSUME NEW t \in Threads, Return(t) PROVE CallerInv'
  BY <1>5, <1>7 DEF Return
<1>8. ASSUME NEW t \in Threads, Configure(t) PROVE CallerInv'
  BY <1>8 DEF Configure, muxVars
<1>9. ASSUME NEW t \in Threads, Transfer(t), UNCHANGED muxVars PROVE CallerInv'
  BY <1>9, TransferMoves
<1>10. CASE UNCHANGED vars
  BY <1>10 DEF vars, muxVars
<1> QED
  BY <1>1, <1>3, <1>4, <1>6, <1>7, <1>8, <1>9, <1>10 DEF Next, Step

\* Only the thread that holds the mutex can disturb what holds of the bus.
LEMMA BusHolderOnly ==
    ASSUME OneTransfer', NEW t \in Threads, InDriver(t)', BusOf(t)'
    PROVE  BusInv'
<1>1. \A u \in Threads : InDriver(u)' => u = t
  BY DEF OneTransfer
<1> QED
  BY <1>1 DEF BusInv, BusOf

\* A byte that is written leaves the bus to who had it; one that is read without a
\* fault is what the device drove, and the last one ends its hold.
LEMMA WriteByteKeeps ==
    ASSUME TypeOK, NEW t \in Threads, WriteByte(t)
    PROVE  bus'.held = bus.held /\ (fault' = {} => fault = {})
<1>1. bus' = bus \/ bus' = [bus EXCEPT !.pend = io[t].select]
  BY DEF WriteByte
<1>2. bus'.held = bus.held
  BY <1>1 DEF TypeOK
<1> QED
  BY <1>2, WriteByteBus

LEMMA ReadByteTakes ==
    ASSUME TypeOK, NEW t \in Threads, ReadByte(t)
    PROVE  /\ fault' = {} => fault = {}
           /\ fault' = {} /\ nextCr = {} /\ bus.held /\ bus.open /\ bus.to # Nobody /\ bus.rd
              => /\ bus'.held = (io[t].k # Cur(t).len)
                 /\ bus'.open /\ bus'.to # Nobody /\ bus'.rd
                 /\ got' = Append(got, <<io[t].m, io[t].k>>)
<1> DEFINE heard == /\ bus.open /\ bus.to # Nobody /\ bus.rd /\ bus.held
                    /\ "STA" \notin nextCr
<1>1. PICK late \in BOOLEAN :
         /\ bus' = IF heard /\ ~late
                   THEN [bus EXCEPT !.held = ~LastByte(t)] ELSE bus
         /\ got' = IF heard /\ ~late
                   THEN Append(got, <<io[t].m, io[t].k>>) ELSE got
         /\ fault' = IF late THEN fault \cup {"timeout"} ELSE fault
  BY DEF ReadByte
<1>2. fault' = {} => ~late /\ fault = {}
  BY <1>1
<1>3. ASSUME fault' = {}, nextCr = {}, bus.held, bus.open, bus.to # Nobody, bus.rd
      PROVE  /\ bus'.held = (io[t].k # Cur(t).len)
             /\ bus'.open /\ bus'.to # Nobody /\ bus'.rd
             /\ got' = Append(got, <<io[t].m, io[t].k>>)
  <2>1. heard
    BY <1>3
  <2> HIDE DEF heard
  <2>2. bus' = [bus EXCEPT !.held = ~LastByte(t)]
    BY <1>1, <1>2, <1>3, <2>1
  <2>3. bus'.held = ~LastByte(t) /\ bus'.open = bus.open /\ bus'.to = bus.to
        /\ bus'.rd = bus.rd
    BY <2>2 DEF TypeOK
  <2>4. got' = Append(got, <<io[t].m, io[t].k>>)
    BY <1>1, <1>2, <1>3, <2>1
  <2> QED
    BY <1>3, <2>3, <2>4 DEF LastByte
<1> QED
  BY <1>2, <1>3

\* A read ends with its last byte, a write never holds the bus, and a refused address
\* or byte leaves nobody holding it.
LEMMA BusMoves ==
    ASSUME TypeOK, CallInv, CallerInv, NEW t \in Threads, BusOf(t), Transfer(t),
           UNCHANGED muxVars
    PROVE  BusOf(t)'
<1>1. InDriver(t) /\ io'[t].msgs = io[t].msgs
  BY TransferMoves
<1>2. pc[t] = "message" /\ io[t].m = 1 => "RESTART" \in io[t].flags
  BY DEF CallInv, CallOf
<1>3. QuietBus.open = FALSE /\ QuietBus.held = FALSE
  BY DEF QuietBus
<1>4. chanSelected' = chanSelected
  BY TransferMoves
<1>5. CASE NextMessage(t)
  <2>1. /\ pc[t] = "message" /\ pc'[t] \in {"address", "data"}
        /\ io'[t].m = io[t].m /\ io'[t].k = io[t].k
        /\ pc'[t] = "data" => "RESTART" \notin io[t].flags
    BY <1>5, NextMessageMoves
  <2>2. bus' \in {bus, QuietBus} /\ (fault' = {} => fault = {})
    BY <1>4, <1>5, NextMessageBus
  <2>3. /\ pc'[t] = "data" => nextCr' = nextCr /\ "RESTART" \notin Cur(t).flags
    BY <1>5 DEF NextMessage, NewFlags, TypeOK
  <2>4. pc'[t] = "data" => ~Cur(t).rd /\ io[t].m # 1
    BY <1>2, <2>1, <2>3, ReadsStart
  <2>5. Cur(t)' = Cur(t)
    BY <1>1, <2>1 DEF Cur
  <2> QED
    BY <1>1, <1>3, <2>1, <2>2, <2>3, <2>4, <2>5 DEF BusOf
<1>6. CASE SendAddress(t)
  <2>1. /\ pc[t] = "address" /\ pc'[t] \in {"data", "finish"}
        /\ io'[t].m = io[t].m /\ io'[t].k = io[t].k
    BY <1>6, SendAddressMoves
  <2>2. nextCr' = {}
    BY <1>6 DEF SendAddress
  <2>3. Cur(t)' = Cur(t)
    BY <1>1, <2>1 DEF Cur
  <2>4. io[t].k = 1
    BY <1>1, <2>1 DEF BusOf
  <2>5. Cur(t).len \in Nat /\ Cur(t).rd \in BOOLEAN /\ (Cur(t).rd => Cur(t).len > 0)
    BY <2>1, MessagesTyped, ReadsStart DEF Message
  <2>6. fault' = {} /\ pc'[t] = "data"
        => bus'.open /\ bus'.to # Nobody /\ bus'.rd = Cur(t).rd /\ bus'.held = Cur(t).rd
    BY <1>4, <1>6, SendAddressBus
  <2>7. fault' = {} /\ pc'[t] = "finish" => ~bus'.held
    BY <1>4, <1>6, SendAddressBus
  <2> QED
    BY <2>1, <2>2, <2>3, <2>4, <2>5, <2>6, <2>7 DEF BusOf
<1>7. CASE WriteByte(t)
  <2>1. /\ pc[t] = "data" /\ pc'[t] \in {"data", "finish"} /\ io'[t].m = io[t].m
    BY <1>7, WriteByteMoves
  <2>2. nextCr' = {} /\ ~Cur(t).rd
    BY <1>7 DEF WriteByte
  <2>3. Cur(t)' = Cur(t)
    BY <1>1, <2>1 DEF Cur
  <2>4. bus'.held = bus.held /\ (fault' = {} => fault = {})
    BY <1>7, WriteByteKeeps
  <2> QED
    BY <1>1, <2>1, <2>2, <2>3, <2>4 DEF BusOf
<1>8. CASE ReadByte(t)
  <2>1. /\ pc[t] = "data" /\ pc'[t] = "data" /\ Cur(t).rd
        /\ io'[t].m = io[t].m /\ io'[t].k = io[t].k + 1
    BY <1>8, ReadByteMoves
  <2>2. nextCr' = {} /\ io[t].k <= Cur(t).len
    BY <1>8 DEF ReadByte
  <2>3. Cur(t)' = Cur(t)
    BY <1>1, <2>1 DEF Cur
  <2>4. io[t].k \in Nat /\ Cur(t).len \in Nat
    BY <2>1, MessagesTyped
  <2>5. ASSUME fault' = {}
        PROVE  /\ bus'.held = (io[t].k # Cur(t).len)
               /\ bus'.open /\ bus'.to # Nobody /\ bus'.rd
    <3>1. fault = {}
      BY <1>8, <2>5, ReadByteTakes
    <3>2. nextCr = {} /\ bus.held /\ bus.open /\ bus.to # Nobody /\ bus.rd
      BY <1>1, <2>1, <2>2, <3>1 DEF BusOf
    <3> QED
      BY <1>8, <2>5, <3>2, ReadByteTakes
  <2>6. io'[t].k <= Cur(t).len <=> io[t].k # Cur(t).len
    BY <2>1, <2>2, <2>4
  <2> QED
    BY <2>1, <2>2, <2>3, <2>5, <2>6 DEF BusOf
<1>9. CASE EndMessage(t)
  <2>1. /\ pc[t] = "data" /\ pc'[t] \in {"message", "finish"} /\ io[t].k > Cur(t).len
        /\ UNCHANGED busVars
    BY <1>9, EndMessageMoves
  <2>2. pc'[t] = "message" => io'[t].k = 1
    BY <1>9, <2>1, EndMessageMoves
  <2>3. nextCr = {} /\ (fault = {} => ~bus.held)
    <3>1. io[t].k \in Nat /\ Cur(t).len \in Nat
      BY <2>1, MessagesTyped
    <3> QED
      BY <1>1, <2>1, <3>1 DEF BusOf
  <2> QED
    BY <2>1, <2>2, <2>3 DEF BusOf, busVars
<1>10. CASE Finish(t)
  <2>1. pc[t] = "finish" /\ pc'[t] = "returned" /\ nextCr' = nextCr
    BY <1>10, FinishMoves DEF Finish
  <2>2. Stop
    BY <1>10 DEF Finish
  <2>3. fault' = {} => fault = {}
    BY <1>4, <2>2, StopMoves
  <2>4. fault' = {} /\ ~bus.held => ~bus'.open
    BY <1>3, <2>2 DEF Stop
  <2> QED
    BY <1>1, <2>1, <2>3, <2>4 DEF BusOf
<1> QED
  BY <1>5, <1>6, <1>7, <1>8, <1>9, <1>10 DEF Transfer

LEMMA BusStep ==
    TypeOK /\ OneTransfer /\ CallInv /\ CallerInv /\ BusInv /\ OneTransfer' /\ [Next]_vars
    => BusInv'
<1> SUFFICES ASSUME TypeOK, OneTransfer, CallInv, CallerInv, BusInv, OneTransfer', [Next]_vars
             PROVE  BusInv'
  OBVIOUS
<1>1. ASSUME NEW t \in Threads, ~InDriver(t), ~InDriver(t)',
             UNCHANGED <<io, busVars>>,
             \A u \in Threads \ {t} : pc'[u] = pc[u]
      PROVE  BusInv'
  <2>1. UNCHANGED <<bus, nextCr, fault>>
    BY <1>1 DEF busVars
  <2>2. ASSUME NEW u \in Threads PROVE BusOf(u)' /\ (InDriver(u) <=> InDriver(u)')
    <3>1. CASE u = t
      BY <1>1, <3>1 DEF BusOf
    <3>2. CASE u # t
      <4>1. pc'[u] = pc[u] /\ io'[u] = io[u]
        BY <1>1, <3>2
      <4>2. Cur(u)' = Cur(u) /\ (InDriver(u) <=> InDriver(u)')
        BY <4>1 DEF Cur, InDriver
      <4>3. BusOf(u)
        BY DEF BusInv
      <4> QED
        BY <2>1, <4>1, <4>2, <4>3 DEF BusOf
    <3> QED
      BY <3>1, <3>2
  <2> QED
    BY <2>1, <2>2 DEF BusInv
<1>2. ASSUME NEW t \in Threads, Call(t) PROVE BusInv'
  BY <1>1, <1>2, CallMoves DEF InDriver
<1>3. ASSUME NEW t \in Threads, LockTimeout(t) PROVE BusInv'
  BY <1>1, <1>3, TimeoutMoves DEF InDriver
<1>4. ASSUME NEW t \in Threads, NEW c, NEW msgs, BeginTransfer(t, c, msgs), nextCr' = {}
      PROVE  BusInv'
  <2>1. pc'[t] = "message" /\ io'[t].m = 1 /\ io'[t].k = 1
    BY <1>4, BeginMoves
  <2>2. BusOf(t)' /\ InDriver(t)'
    BY <1>4, <2>1 DEF BusOf, InDriver
  <2> QED
    BY <2>2, BusHolderOnly
<1>5. ASSUME NEW t \in Threads, Lock(t) PROVE BusInv'
  <2>1. lock = NoThread /\ nextCr' = nextCr
    BY <1>5 DEF Lock, MutexFree
  <2>2. nextCr = {}
    BY <2>1, MuxAssumption DEF OneTransfer, BusInv
  <2> QED
    BY <1>4, <1>5, <2>1, <2>2, LockMoves
<1>6. ASSUME NEW t \in Threads, pc[t] = "returned" PROVE nextCr = {}
  BY <1>6 DEF BusInv, BusOf, InDriver
<1>7. ASSUME NEW t \in Threads, Unlock(t), nextCr' = {} PROVE BusInv'
  <2>1. \A u \in Threads : ~InDriver(u)'
    BY <1>7, UnlockMoves, MuxAssumption DEF OneTransfer
  <2> QED
    BY <1>7, <2>1 DEF BusInv, BusOf
<1>8. ASSUME NEW t \in Threads, Selected(t) PROVE BusInv'
  <2>1. pc[t] = "returned" /\ nextCr' = nextCr
    BY <1>8 DEF Selected
  <2> QED
    BY <1>4, <1>6, <1>7, <1>8, <2>1, SelectedMoves
<1>9. ASSUME NEW t \in Threads, Return(t) PROVE BusInv'
  BY <1>6, <1>7, <1>9 DEF Return
<1>10. ASSUME NEW t \in Threads, Configure(t) PROVE BusInv'
  <2>1. fault' # {} /\ UNCHANGED <<pc, io, nextCr>>
    BY <1>10 DEF Configure, ResetController
  <2> QED
    BY <2>1 DEF BusInv, BusOf, InDriver
<1>11. ASSUME NEW t \in Threads, Transfer(t), UNCHANGED muxVars PROVE BusInv'
  <2>1. BusOf(t)
    BY DEF BusInv
  <2>2. BusOf(t)' /\ InDriver(t)'
    BY <1>11, <2>1, BusMoves, TransferMoves
  <2> QED
    BY <2>2, BusHolderOnly
<1>12. CASE UNCHANGED vars
  <2>1. UNCHANGED <<pc, io, nextCr, bus, fault>>
    BY <1>12 DEF vars, busVars
  <2> QED
    BY <2>1 DEF BusInv, BusOf, InDriver, Cur
<1> QED
  BY <1>2, <1>3, <1>5, <1>8, <1>9, <1>10, <1>11, <1>12 DEF Next, Step

-----------------------------------------------------------------------------
(* The bytes that were moved *)

\* The bytes of one direction that come before the one at message m, index k.
Behind(msgs, rd, m, k) == {b \in Bytes(msgs, rd) : Before(b, <<m, k>>)}

InOrder(s) == \A i, j \in DOMAIN s : i < j => Before(s[i], s[j])

MovedIn(s, msgs, rd) == {b \in Range(s) : msgs[b[1]].rd = rd}

\* Without a reset exactly the bytes behind the transfer were written, without a fault
\* exactly those were read; at its end that is all of them.
GotOf(t) ==
    InDriver(t) =>
        /\ InOrder(got)
        /\ pc[t] \in {"message", "address", "data"} =>
              /\ ~io[t].ok
              /\ \A b \in Range(got) : Before(b, <<io[t].m, io[t].k>>)
              /\ "reset" \notin fault => MovedIn(got, io[t].msgs, FALSE)
                                         = Behind(io[t].msgs, FALSE, io[t].m, io[t].k)
              /\ fault = {} => MovedIn(got, io[t].msgs, TRUE)
                               = Behind(io[t].msgs, TRUE, io[t].m, io[t].k)
        /\ io[t].ok =>
              /\ "reset" \notin fault
                 => MovedIn(got, io[t].msgs, FALSE) = Bytes(io[t].msgs, FALSE)
              /\ fault = {} => MovedIn(got, io[t].msgs, TRUE) = Bytes(io[t].msgs, TRUE)

GotInv == \A t \in Threads : GotOf(t)

LEMMA BytesAre ==
    ASSUME NEW msgs, NEW rd, NEW b
    PROVE  b \in Bytes(msgs, rd)
           <=> \E m \in 1 .. Len(msgs) : \E k \in 1 .. msgs[m].len :
                  msgs[m].rd = rd /\ b = <<m, k>>
BY DEF Bytes

LEMMA BeforeAfter ==
    /\ \A x, y, m, k \in Nat :
          Before(<<x, y>>, <<m, k + 1>>) <=> Before(<<x, y>>, <<m, k>>) \/ <<x, y>> = <<m, k>>
    /\ \A x, y, m, k \in Nat : Before(<<x, y>>, <<m, k>>) <=> x < m \/ (x = m /\ y < k)
BY DEF Before

LEMMA LengthsTyped ==
    ASSUME NEW msgs \in Seq(Message)
    PROVE  \A i \in 1 .. Len(msgs) : msgs[i].len \in Nat
<1>1. \A i \in 1 .. Len(msgs) : msgs[i] \in Message
  OBVIOUS
<1> QED
  BY <1>1 DEF Message

\* The next byte, and the next message.
LEMMA BehindByte ==
    ASSUME NEW msgs \in Seq(Message), NEW m \in 1 .. Len(msgs), NEW k \in 1 .. msgs[m].len,
           NEW rd
    PROVE  Behind(msgs, rd, m, k + 1) =
           IF msgs[m].rd = rd THEN Behind(msgs, rd, m, k) \cup {<<m, k>>}
           ELSE Behind(msgs, rd, m, k)
<1>1. \A i \in 1 .. Len(msgs) : msgs[i].len \in Nat
  BY LengthsTyped
<1>2. ASSUME NEW b \in Bytes(msgs, rd)
      PROVE  /\ Before(b, <<m, k + 1>>) <=> Before(b, <<m, k>>) \/ b = <<m, k>>
             /\ b = <<m, k>> => msgs[m].rd = rd
  <2>1. PICK x \in 1 .. Len(msgs) : \E y \in 1 .. msgs[x].len :
           msgs[x].rd = rd /\ b = <<x, y>>
    BY BytesAre
  <2>2. PICK y \in 1 .. msgs[x].len : msgs[x].rd = rd /\ b = <<x, y>>
    BY <2>1
  <2>3. x \in Nat /\ y \in Nat /\ m \in Nat /\ k \in Nat
    BY <1>1
  <2>4. Before(<<x, y>>, <<m, k + 1>>) <=> Before(<<x, y>>, <<m, k>>) \/ <<x, y>> = <<m, k>>
    BY <2>3, BeforeAfter
  <2>5. <<x, y>> = <<m, k>> => x = m
    OBVIOUS
  <2> QED
    BY <2>2, <2>4, <2>5
<1>3. msgs[m].rd = rd => <<m, k>> \in Bytes(msgs, rd)
  BY BytesAre
<1>4. Before(<<m, k>>, <<m, k + 1>>)
  BY <1>1, BeforeAfter
<1> QED
  BY <1>2, <1>3, <1>4 DEF Behind

LEMMA BehindMessage ==
    ASSUME NEW msgs \in Seq(Message), NEW m \in 1 .. Len(msgs), NEW k \in Nat,
           k > msgs[m].len, NEW rd
    PROVE  /\ Behind(msgs, rd, m + 1, 1) = Behind(msgs, rd, m, k)
           /\ m = Len(msgs) => Behind(msgs, rd, m, k) = Bytes(msgs, rd)
<1>1. \A i \in 1 .. Len(msgs) : msgs[i].len \in Nat
  BY LengthsTyped
<1>2. ASSUME NEW b \in Bytes(msgs, rd)
      PROVE  /\ Before(b, <<m + 1, 1>>) <=> Before(b, <<m, k>>)
             /\ m = Len(msgs) => Before(b, <<m, k>>)
  <2>1. PICK x \in 1 .. Len(msgs) : \E y \in 1 .. msgs[x].len :
           msgs[x].rd = rd /\ b = <<x, y>>
    BY BytesAre
  <2>2. PICK y \in 1 .. msgs[x].len : msgs[x].rd = rd /\ b = <<x, y>>
    BY <2>1
  <2>3. x \in Nat /\ y \in Nat /\ m \in Nat /\ m + 1 \in Nat /\ y >= 1 /\ y <= msgs[x].len
    BY <1>1
  <2>4. Before(<<x, y>>, <<m, k>>) <=> x < m \/ (x = m /\ y < k)
    BY <2>3, BeforeAfter
  <2>5. Before(<<x, y>>, <<m + 1, 1>>) <=> x < m + 1 \/ (x = m + 1 /\ y < 1)
    BY <2>3, BeforeAfter
  <2>6. x = m => y < k
    BY <1>1, <2>3
  <2>7. x < m + 1 <=> x < m \/ x = m
    BY <2>3
  <2> QED
    BY <2>2, <2>3, <2>4, <2>5, <2>6, <2>7
<1> QED
  BY <1>2 DEF Behind

LEMMA RangeTyped ==
    ASSUME NEW S, NEW s \in Seq(S)
    PROVE  Range(s) \subseteq S
BY ElementOfSeq, LenProperties DEF Range

\* A byte more.
LEMMA OneMore ==
    ASSUME NEW S, NEW s \in Seq(S), NEW b \in S, InOrder(s),
           \A c \in Range(s) : Before(c, b)
    PROVE  InOrder(Append(s, b)) /\ Range(Append(s, b)) = Range(s) \cup {b}
<1>1. PICK n \in Nat : n = Len(s)
  OBVIOUS
<1>2. PICK z : z = Append(s, b)
  OBVIOUS
<1>3. /\ z \in Seq(S) /\ Len(z) = n + 1 /\ z[n + 1] = b
      /\ \A i \in 1 .. n : z[i] = s[i]
  BY <1>1, <1>2, AppendProperties
<1>4. DOMAIN z = 1 .. n + 1 /\ DOMAIN s = 1 .. n
  BY <1>1, <1>3, LenProperties
<1>5. Range(z) = Range(s) \cup {b}
  BY <1>3, <1>4 DEF Range
<1>6. ASSUME NEW i \in 1 .. n + 1, NEW j \in 1 .. n + 1, i < j PROVE Before(z[i], z[j])
  <2>1. i \in 1 .. n
    BY <1>6
  <2>2. CASE j = n + 1
    <3>1. s[i] \in Range(s)
      BY <1>3, <1>4, <2>1 DEF Range
    <3> QED
      BY <1>3, <2>1, <2>2, <3>1
  <2>3. CASE j \in 1 .. n
    BY <1>3, <1>6, <1>4, <2>1, <2>3 DEF InOrder
  <2> QED
    BY <2>2, <2>3
<1> QED
  BY <1>2, <1>5, <1>6, <1>4 DEF InOrder

\* Nothing was moved, and the transfer is where it was.
LEMMA GotKept ==
    ASSUME NEW t \in Threads, InDriver(t), GotOf(t), got' = got,
           io'[t].msgs = io[t].msgs, io'[t].m = io[t].m, io'[t].k = io[t].k,
           io'[t].ok = io[t].ok,
           "reset" \notin fault' => "reset" \notin fault, fault' = {} => fault = {},
           pc'[t] \in {"message", "address", "data"}
              => pc[t] \in {"message", "address", "data"}
    PROVE  GotOf(t)'
BY DEF GotOf

\* What a step of the transfer does to the faults.
LEMMA FaultMoves ==
    ASSUME NEW t \in Threads, Transfer(t)
    PROVE  ("reset" \notin fault' => "reset" \notin fault) /\ (fault' = {} => fault = {})
<1>1. ASSUME Stop PROVE "reset" \in fault => "reset" \in fault'
  BY <1>1 DEF Stop
<1>2. ASSUME Stop PROVE fault' = {} => fault = {}
  BY <1>2 DEF Stop
<1>3. CASE NextMessage(t)
  BY <1>1, <1>2, <1>3 DEF NextMessage
<1>4. CASE SendAddress(t)
  BY <1>4 DEF SendAddress
<1>5. CASE WriteByte(t)
  BY <1>5 DEF WriteByte
<1>6. CASE ReadByte(t)
  BY <1>6 DEF ReadByte
<1>7. CASE EndMessage(t)
  BY <1>7 DEF EndMessage, busVars
<1>8. CASE Finish(t)
  BY <1>1, <1>2, <1>8 DEF Finish
<1> QED
  BY <1>3, <1>4, <1>5, <1>6, <1>7, <1>8 DEF Transfer

\* A byte that was written and acknowledged was taken, unless the controller was reset.
LEMMA WriteByteTakes ==
    ASSUME TypeOK, NEW t \in Threads, WriteByte(t)
    PROVE  /\ got' \in {got, Append(got, <<io[t].m, io[t].k>>)}
           /\ "reset" \notin fault /\ pc'[t] = "data"
              => got' = Append(got, <<io[t].m, io[t].k>>)
<1> DEFINE heard == /\ bus.open /\ bus.to # Nobody /\ ~bus.rd
                    /\ "STA" \notin nextCr
<1>1. PICK out \in Outcomes(heard), took \in BOOLEAN :
         /\ took \in Took(heard, out)
         /\ got' = IF took THEN Append(got, <<io[t].m, io[t].k>>) ELSE got
         /\ pc' = [pc EXCEPT ![t] = IF GoesOn(out) THEN "data" ELSE "finish"]
  BY DEF WriteByte, Took
<1>2. ASSUME "reset" \notin fault, pc'[t] = "data" PROVE took
  <2>1. out = "ack"
    BY <1>1, <1>2 DEF GoesOn, TypeOK
  <2>2. heard
    BY <1>2, <2>1 DEF Outcomes
  <2> HIDE DEF heard
  <2> QED
    BY <1>1, <1>2, <2>1, <2>2 DEF Took
<1> QED
  BY <1>1, <1>2

\* A byte moves on with the index, in its own direction only.
LEMMA ByteMoves ==
    ASSUME TypeOK, NEW t \in Threads, GotOf(t), pc[t] = "data", io[t].k <= Cur(t).len,
           io'[t].msgs = io[t].msgs, io'[t].m = io[t].m, io'[t].k = io[t].k + 1,
           io'[t].ok = io[t].ok, pc'[t] \in {"data", "finish"},
           got' \in {got, Append(got, <<io[t].m, io[t].k>>)},
           "reset" \notin fault' => "reset" \notin fault, fault' = {} => fault = {},
           "reset" \notin fault' /\ ~Cur(t).rd /\ pc'[t] = "data"
              => got' = Append(got, <<io[t].m, io[t].k>>),
           fault' = {} /\ Cur(t).rd => got' = Append(got, <<io[t].m, io[t].k>>)
    PROVE  GotOf(t)'
<1>1. PICK msgs \in Seq(Message), m \in Nat, k \in Nat :
         /\ m \in 1 .. Len(msgs) /\ k \in 1 .. msgs[m].len
         /\ msgs = io[t].msgs /\ m = io[t].m /\ k = io[t].k /\ Cur(t).rd = msgs[m].rd
         /\ msgs[m].rd \in BOOLEAN
  <2>1. io[t] \in Locals /\ io[t].m \in 1 .. Len(io[t].msgs) /\ io[t].k \in 1 .. Cur(t).len + 1
    BY DEF TypeOK
  <2>2. io[t].msgs \in Seq(Message) /\ Cur(t).len \in Nat /\ Cur(t).rd \in BOOLEAN
    BY <2>1, MessagesTyped DEF Locals, Message
  <2>3. io[t].k \in 1 .. Cur(t).len /\ io[t].m \in Nat /\ io[t].k \in Nat
    BY <2>1, <2>2
  <2>4. Cur(t) = io[t].msgs[io[t].m]
    BY DEF Cur
  <2> QED
    BY <2>1, <2>2, <2>3, <2>4
<1>2. got \in Seq(Nat \X Nat) /\ m \in Nat /\ k \in Nat /\ <<m, k>> \in Nat \X Nat
  BY DEF TypeOK
<1>3. /\ InOrder(got) /\ ~io[t].ok
      /\ \A b \in Range(got) : Before(b, <<m, k>>)
      /\ "reset" \notin fault => MovedIn(got, msgs, FALSE) = Behind(msgs, FALSE, m, k)
      /\ fault = {} => MovedIn(got, msgs, TRUE) = Behind(msgs, TRUE, m, k)
  BY <1>1 DEF GotOf, InDriver
<1>4. PICK more, c, P : more = Append(got, c) /\ c = <<m, k>> /\ P = Nat \X Nat
  OBVIOUS
<1>5. InOrder(more) /\ Range(more) = Range(got) \cup {c}
  <2>1. got \in Seq(P) /\ c \in P /\ \A b \in Range(got) : Before(b, c)
    BY <1>2, <1>3, <1>4
  <2>2. InOrder(Append(got, c)) /\ Range(Append(got, c)) = Range(got) \cup {c}
    BY <1>3, <2>1, OneMore
  <2> QED
    BY <1>4, <2>2
<1>6. \A rd \in BOOLEAN : MovedIn(more, msgs, rd) =
         IF msgs[m].rd = rd THEN MovedIn(got, msgs, rd) \cup {c} ELSE MovedIn(got, msgs, rd)
  <2>1. c[1] = m
    BY <1>4
  <2> QED
    BY <1>5, <2>1 DEF MovedIn
<1>7. \A rd \in BOOLEAN : Behind(msgs, rd, m, k + 1) =
         IF msgs[m].rd = rd THEN Behind(msgs, rd, m, k) \cup {c} ELSE Behind(msgs, rd, m, k)
  <2> SUFFICES ASSUME NEW rd \in BOOLEAN
               PROVE  Behind(msgs, rd, m, k + 1) =
                      IF msgs[m].rd = rd THEN Behind(msgs, rd, m, k) \cup {<<m, k>>}
                      ELSE Behind(msgs, rd, m, k)
    BY <1>4
  <2>1. m \in 1 .. Len(msgs) /\ k \in 1 .. msgs[m].len
    BY <1>1
  <2> QED
    BY <2>1, BehindByte
<1>8. \A b \in Range(got') : Before(b, <<m, k + 1>>)
  <2>1. Before(<<m, k>>, <<m, k + 1>>)
    BY <1>2, BeforeAfter
  <2>2. ASSUME NEW b \in Range(got) PROVE Before(b, <<m, k + 1>>)
    <3>1. Before(b, <<m, k>>)
      BY <1>3
    <3>2. b \in Nat \X Nat
      BY <1>2, RangeTyped
    <3> QED
      BY <1>2, <3>1, <3>2 DEF Before
  <2> QED
    BY <1>1, <1>4, <1>5, <2>1, <2>2
<1>9. InOrder(got')
  BY <1>1, <1>3, <1>4, <1>5
<1>10. pc'[t] = "data" /\ "reset" \notin fault'
       => MovedIn(got', msgs, FALSE) = Behind(msgs, FALSE, m, k + 1)
  BY <1>1, <1>3, <1>4, <1>6, <1>7
<1>11. pc'[t] = "data" /\ fault' = {}
       => MovedIn(got', msgs, TRUE) = Behind(msgs, TRUE, m, k + 1)
  BY <1>1, <1>3, <1>4, <1>6, <1>7
<1> QED
  BY <1>1, <1>3, <1>8, <1>9, <1>10, <1>11 DEF GotOf

\* A message that is done leaves nothing of its bytes out.
LEMMA MessageMoves ==
    ASSUME TypeOK, NEW t \in Threads, GotOf(t), EndMessage(t), io'[t].msgs = io[t].msgs
    PROVE  GotOf(t)'
<1>1. /\ pc[t] = "data" /\ io[t].k > Cur(t).len /\ UNCHANGED busVars
      /\ \/ /\ MoreMessages(t) /\ pc'[t] = "message" /\ io'[t].ok = io[t].ok
            /\ io'[t].m = io[t].m + 1 /\ io'[t].k = 1
         \/ /\ ~MoreMessages(t) /\ pc'[t] = "finish" /\ io'[t].ok
            /\ io'[t].m = io[t].m /\ io'[t].k = io[t].k
  BY EndMessageMoves
<1>2. got' = got /\ fault' = fault
  BY <1>1 DEF busVars
<1>3. PICK msgs \in Seq(Message), m \in Nat, k \in Nat :
         /\ m \in 1 .. Len(msgs) /\ k > msgs[m].len
         /\ msgs = io[t].msgs /\ m = io[t].m /\ k = io[t].k
  <2>1. io[t] \in Locals /\ io[t].m \in 1 .. Len(io[t].msgs)
    BY <1>1 DEF TypeOK
  <2> QED
    BY <1>1, <2>1 DEF Cur, Locals
<1>4. /\ InOrder(got) /\ ~io[t].ok
      /\ \A b \in Range(got) : Before(b, <<m, k>>)
      /\ "reset" \notin fault => MovedIn(got, msgs, FALSE) = Behind(msgs, FALSE, m, k)
      /\ fault = {} => MovedIn(got, msgs, TRUE) = Behind(msgs, TRUE, m, k)
  BY <1>1, <1>3 DEF GotOf, InDriver
<1>5. \A rd \in BOOLEAN :
         /\ Behind(msgs, rd, m + 1, 1) = Behind(msgs, rd, m, k)
         /\ m = Len(msgs) => Behind(msgs, rd, m, k) = Bytes(msgs, rd)
  BY <1>3, BehindMessage
<1>6. CASE MoreMessages(t)
  <2>1. pc'[t] = "message" /\ ~io'[t].ok /\ io'[t].m = m + 1 /\ io'[t].k = 1
    BY <1>1, <1>3, <1>4, <1>6
  <2>2. \A b \in Range(got) : Before(b, <<m + 1, 1>>)
    <3> SUFFICES ASSUME NEW b \in Range(got) PROVE Before(b, <<m + 1, 1>>)
      OBVIOUS
    <3>1. b \in Nat \X Nat
      BY RangeTyped DEF TypeOK
    <3>2. Before(b, <<m, k>>)
      BY <1>4
    <3> QED
      BY <3>1, <3>2 DEF Before
  <2> QED
    BY <1>2, <1>3, <1>4, <1>5, <2>1, <2>2 DEF GotOf
<1>7. CASE ~MoreMessages(t)
  <2>1. m = Len(msgs)
    BY <1>3, <1>7 DEF MoreMessages
  <2>2. pc'[t] = "finish"
    BY <1>1, <1>7
  <2> QED
    BY <1>2, <1>3, <1>4, <1>5, <2>1, <2>2 DEF GotOf
<1> QED
  BY <1>6, <1>7

LEMMA GotMoves ==
    ASSUME TypeOK, NEW t \in Threads, BusOf(t), GotOf(t), Transfer(t), UNCHANGED muxVars
    PROVE  GotOf(t)'
<1>1. InDriver(t) /\ io'[t].msgs = io[t].msgs
  BY TransferMoves
<1>2. ("reset" \notin fault' => "reset" \notin fault) /\ (fault' = {} => fault = {})
  BY FaultMoves
<1>3. CASE NextMessage(t)
  BY <1>1, <1>2, <1>3, NextMessageMoves, GotKept DEF NextMessage
<1>4. CASE SendAddress(t)
  BY <1>1, <1>2, <1>4, SendAddressMoves, GotKept DEF SendAddress
<1>5. CASE WriteByte(t)
  <2>1. /\ pc[t] = "data" /\ pc'[t] \in {"data", "finish"} /\ io[t].k <= Cur(t).len
        /\ io'[t].m = io[t].m /\ io'[t].k = io[t].k + 1 /\ io'[t].ok = io[t].ok
    BY <1>5, WriteByteMoves
  <2>2. ~Cur(t).rd
    BY <1>5 DEF WriteByte
  <2> QED
    BY <1>1, <1>2, <1>5, <2>1, <2>2, WriteByteTakes, ByteMoves
<1>6. CASE ReadByte(t)
  <2>1. /\ pc[t] = "data" /\ pc'[t] = "data" /\ Cur(t).rd
        /\ io'[t].m = io[t].m /\ io'[t].k = io[t].k + 1 /\ io'[t].ok = io[t].ok
    BY <1>6, ReadByteMoves
  <2>2. io[t].k <= Cur(t).len /\ got' \in {got, Append(got, <<io[t].m, io[t].k>>)}
    BY <1>6 DEF ReadByte
  <2>3. ASSUME fault' = {} PROVE got' = Append(got, <<io[t].m, io[t].k>>)
    <3>1. fault = {}
      BY <1>2, <2>3
    <3>2. nextCr = {} /\ bus.held /\ bus.open /\ bus.to # Nobody /\ bus.rd
      BY <1>1, <2>1, <2>2, <3>1 DEF BusOf
    <3> QED
      BY <1>6, <2>3, <3>2, ReadByteTakes
  <2> QED
    BY <1>1, <1>2, <2>1, <2>2, <2>3, ByteMoves
<1>7. CASE EndMessage(t)
  BY <1>1, <1>7, MessageMoves
<1>8. CASE Finish(t)
  BY <1>1, <1>2, <1>8, FinishMoves, GotKept DEF Finish
<1> QED
  BY <1>3, <1>4, <1>5, <1>6, <1>7, <1>8 DEF Transfer

LEMMA GotStep ==
    TypeOK /\ BusInv /\ GotInv /\ OneTransfer' /\ [Next]_vars => GotInv'
<1> SUFFICES ASSUME TypeOK, BusInv, GotInv, OneTransfer', [Next]_vars PROVE GotInv'
  OBVIOUS
<1>1. ASSUME NEW t \in Threads, InDriver(t)', GotOf(t)' PROVE GotInv'
  <2>1. \A u \in Threads : InDriver(u)' => u = t
    BY <1>1 DEF OneTransfer
  <2> QED
    BY <1>1, <2>1 DEF GotInv, GotOf
<1>2. ASSUME NEW t \in Threads, NEW u \in Threads, ~InDriver(t)', UNCHANGED <<io, busVars>>,
             u # t => pc'[u] = pc[u]
      PROVE  GotOf(u)'
  <2>1. CASE u = t
    BY <1>2, <2>1 DEF GotOf
  <2>2. CASE u # t
    BY <1>2, <2>2 DEF GotInv, GotOf, InDriver, busVars
  <2> QED
    BY <2>1, <2>2
<1>3. ASSUME NEW t \in Threads, Call(t) PROVE GotInv'
  <2>1. ~InDriver(t)'
    BY <1>3, CallMoves DEF InDriver
  <2>2. UNCHANGED <<io, busVars>> /\ \A u \in Threads \ {t} : pc'[u] = pc[u]
    BY <1>3, CallMoves
  <2> QED
    BY <1>2, <2>1, <2>2 DEF GotInv
<1>4. ASSUME NEW t \in Threads, LockTimeout(t) PROVE GotInv'
  <2>1. ~InDriver(t)'
    BY <1>4, TimeoutMoves DEF InDriver
  <2>2. UNCHANGED <<io, busVars>> /\ \A u \in Threads \ {t} : pc'[u] = pc[u]
    BY <1>4, TimeoutMoves
  <2> QED
    BY <1>2, <2>1, <2>2 DEF GotInv
<1>5. ASSUME NEW t \in Threads, NEW c, NEW msgs, BeginTransfer(t, c, msgs) PROVE GotInv'
  <2>1. /\ pc'[t] = "message" /\ io'[t].m = 1 /\ io'[t].k = 1 /\ io'[t].ok = FALSE
        /\ io'[t].msgs = msgs
    BY <1>5 DEF BeginTransfer, TypeOK
  <2>2. got' = <<>>
    BY <1>5 DEF BeginTransfer
  <2>3. Range(got') = {} /\ InOrder(got')
    BY <2>2 DEF Range, InOrder
  <2>4. Behind(msgs, FALSE, 1, 1) = {} /\ Behind(msgs, TRUE, 1, 1) = {}
    <3>1. ASSUME NEW rd, NEW b \in Bytes(msgs, rd) PROVE ~Before(b, <<1, 1>>)
      <4>1. PICK m \in 1 .. Len(msgs) : \E k \in 1 .. msgs[m].len : b = <<m, k>>
        BY <3>1, BytesAre
      <4>2. PICK k \in 1 .. msgs[m].len : b = <<m, k>>
        BY <4>1
      <4>3. m >= 1 /\ k >= 1 /\ m \in Int /\ k \in Int
        BY <4>1, <4>2
      <4> QED
        BY <4>2, <4>3 DEF Before
    <3> QED
      BY <3>1 DEF Behind
  <2>5. \A rd : MovedIn(got', msgs, rd) = {}
    BY <2>3 DEF MovedIn
  <2>6. InDriver(t)'
    BY <2>1 DEF InDriver
  <2>7. GotOf(t)'
    BY <2>1, <2>3, <2>4, <2>5 DEF GotOf
  <2> QED
    BY <1>1, <2>6, <2>7
<1>6. ASSUME NEW t \in Threads, Lock(t) PROVE GotInv'
  BY <1>5, <1>6, LockMoves
<1>7. ASSUME NEW t \in Threads, Unlock(t) PROVE GotInv'
  <2>1. \A u \in Threads : ~InDriver(u)'
    BY <1>7, UnlockMoves, MuxAssumption DEF OneTransfer
  <2> QED
    BY <2>1 DEF GotInv, GotOf
<1>8. ASSUME NEW t \in Threads, Selected(t) PROVE GotInv'
  BY <1>5, <1>7, <1>8, SelectedMoves
<1>9. ASSUME NEW t \in Threads, Return(t) PROVE GotInv'
  BY <1>7, <1>9 DEF Return
<1>10. ASSUME NEW t \in Threads, Configure(t) PROVE GotInv'
  <2>1. "reset" \in fault' /\ UNCHANGED <<pc, io, got>>
    BY <1>10 DEF Configure, ResetController
  <2> QED
    BY <2>1 DEF GotInv, GotOf, InDriver
<1>11. ASSUME NEW t \in Threads, Transfer(t), UNCHANGED muxVars PROVE GotInv'
  <2>1. BusOf(t) /\ GotOf(t)
    BY DEF BusInv, GotInv
  <2>2. GotOf(t)' /\ InDriver(t)'
    BY <1>11, <2>1, GotMoves, TransferMoves
  <2> QED
    BY <1>1, <2>2
<1>12. CASE UNCHANGED vars
  <2>1. UNCHANGED <<pc, io, got, fault>>
    BY <1>12 DEF vars, busVars
  <2> QED
    BY <2>1 DEF GotInv, GotOf, InDriver
<1> QED
  BY <1>3, <1>4, <1>6, <1>8, <1>9, <1>10, <1>11, <1>12 DEF Next, Step

TransferredInv == MuxInv /\ CallerInv /\ BusInv /\ GotInv

LEMMA TransferredInitially == Init => TransferredInv
<1> SUFFICES ASSUME Init PROVE TransferredInv
  OBVIOUS
<1>1. \A t \in Threads : pc[t] = "idle" /\ ~InDriver(t)
  BY DEF Init, InDriver
<1>2. nextCr = {}
  BY DEF Init
<1>3. CallerInv /\ BusInv /\ GotInv
  BY <1>1, <1>2 DEF CallerInv, CallerOf, BusInv, BusOf, GotInv, GotOf
<1> QED
  BY <1>3, MuxInitially DEF TransferredInv

LEMMA TransferredStep == TransferredInv /\ [Next]_vars => TransferredInv'
<1> SUFFICES ASSUME TransferredInv, [Next]_vars PROVE TransferredInv'
  OBVIOUS
<1>1. TypeOK /\ OneTransfer /\ CallInv /\ CallerInv /\ BusInv /\ GotInv /\ MuxInv
  BY DEF TransferredInv, MuxInv
<1>2. MuxInv' /\ OneTransfer' /\ TypeOK'
  <2>1. MuxInv'
    BY <1>1, MuxStep
  <2> QED
    BY <2>1 DEF MuxInv
<1>3. CallerInv'
  BY <1>1, CallerStep
<1>4. BusInv'
  BY <1>1, <1>2, BusStep
<1>5. GotInv'
  BY <1>1, <1>2, GotStep
<1> QED
  BY <1>2, <1>3, <1>4, <1>5 DEF TransferredInv

LEMMA TransferredAlways == Spec => []TransferredInv
BY TransferredInitially, TransferredStep, PTL DEF Spec

-----------------------------------------------------------------------------
(* Theorems *)

\* Every variable of the two drivers, the bus and the chip keeps its type, with any
\* number of threads and channels and any message lists.
THEOREM MuxTypeCorrect == Spec => []TypeOK
<1>1. MuxInv => TypeOK
  BY DEF MuxInv
<1> QED
  BY <1>1, MuxAlways, PTL

\* A thread is in the I2C master exactly while it holds root_data->lock: the master,
\* which keeps no lock of its own, never sees two transfers at once.
THEOREM OneTransferAtATime == Spec => []OneTransfer
<1>1. MuxInv => OneTransfer
  BY DEF MuxInv
<1> QED
  BY <1>1, MuxAlways, PTL

\* chan_selected of pca9542a_set_channel() names the channel the chip connects
\* between any two selections, unless the last one met a timeout or a reset.
THEOREM CacheNamesTheChannel == Spec => []CacheExact
<1>1. MuxInv => CacheExact
  BY DEF MuxInv, RestInv, Sure, Known, CacheExact
<1> QED
  BY <1>1, MuxAlways, PTL

\* What pca9542a_transfer() sends for a channel is never taken by the device behind
\* another one, with the same exception.
THEOREM TransfersReachTheirDevice == Spec => []RightDevice
<1>1. MuxInv => RightDevice
  BY DEF MuxInv, TransferInv, TransferOf, Addressed, Sure, InDriver, RightDevice
<1> QED
  BY <1>1, MuxAlways, PTL

\* Whatever was refused, opencores_i2c_transfer() returns with the bus free, as long as
\* no flag timed out and nobody reset the controller under it.
THEOREM BusIsReleased == Spec => []BusReleased
<1>1. TransferredInv => BusReleased
  BY DEF TransferredInv, BusInv, BusOf, BusReleased, InDriver
<1> QED
  BY <1>1, TransferredAlways, PTL

\* A transfer that returns 0 had each byte of its writes taken once and in order, even
\* if flags timed out, unless opencores_i2c_configure() reset the controller under it.
THEOREM WritesAreDelivered == Spec => []WritesDelivered
<1>1. GotInv => WritesDelivered
  BY DEF GotInv, GotOf, WritesDelivered, Succeeds, InDriver, OnceAndInOrder, InOrder,
         Moved, MovedIn
<1> QED
  BY <1>1, TransferredAlways, PTL DEF TransferredInv

\* What a transfer that returns 0 read is what the device sent, each byte once and in
\* order, unless a flag timed out or the controller was reset.
THEOREM ReadsAreGenuine == Spec => []ReadsGenuine
<1>1. GotInv => ReadsGenuine
  BY DEF GotInv, GotOf, ReadsGenuine, Succeeds, InDriver, OnceAndInOrder, InOrder,
         Moved, MovedIn
<1> QED
  BY <1>1, TransferredAlways, PTL DEF TransferredInv

=============================================================================
