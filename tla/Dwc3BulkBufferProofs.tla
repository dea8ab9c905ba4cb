------------------------- MODULE Dwc3BulkBufferProofs -------------------------
(***************************************************************************)
(* Dwc3Bulk with endpoints that are halted and resumed: what the           *)
(* controller fetches, what a halt stops, and, where the worker preempts   *)
(* no caller, what the full flag says and who owns each buffer: the queue  *)
(* that Dwc3Bulk implements holds every buffer that the application does   *)
(* not have, once, and the fifo and the ring are its parts.                *)
(***************************************************************************)
EXTENDS Dwc3BulkRefinement

-----------------------------------------------------------------------------
(* A halt leaves the ring alone *)

LEMMA HaltKeepsRing ==
    ASSUME Inv, NEW c \in Callers, SetHalt(c) \/ ClearHalt(c)
    PROVE  Inv'
<1>1. UNCHANGED <<fifo, netbuf, hwo, addr, ring, busy, extra, lock, pc, locals, hw, events, app>>
      /\ halted' \in BOOLEAN
  BY DEF SetHalt, ClearHalt
<1>2. PlaceInv'
  BY <1>1 DEF Inv, PlaceInv, TypeOK, LockInv, BusyInv, CriticalSection, HeldInv, ring, locals, hw
<1>3. RingInv'
  BY <1>1, RingFrame DEF Inv, RingInv, ring, locals, hw
<1> QED
  BY <1>2, <1>3 DEF Inv

LEMMA HaltInvKept == Inv /\ [HaltNext]_vars => Inv'
BY HaltKeepsRing, PlaceStep, RingStep DEF Inv, HaltNext

LEMMA InvAlways == HaltSpec => []Inv
<1>1. Init => Inv
  BY PlaceInit, RingInit DEF Inv
<1> QED
  BY <1>1, HaltInvKept, PTL DEF HaltSpec

-----------------------------------------------------------------------------
(* What the controller fetches *)

\* A TRB that the controller owns has the address of its buffer, but for the
\* one being written, whose buffer the writer still holds.
FetchInv ==
    /\ \A c \in Ctxs : pc[c] = "addr" /\ netbuf[head] # NoBuf => netbuf[head] = buf[c]
    /\ \A i \in Slots : hwo[i] /\ ~(i = head /\ \E c \in Ctxs : pc[c] = "addr") => addr[i] = netbuf[i]

LEMMA OwnedHasBuffer == Inv => \A i \in Slots : hwo[i] => netbuf[i] # NoBuf
BY DEF Inv, RingInv, RingShape

LEMMA FetchKept == Inv /\ FetchInv /\ [HaltNext]_vars => FetchInv'
<1> SUFFICES ASSUME Inv, FetchInv, [HaltNext]_vars PROVE FetchInv'
  OBVIOUS
<1>0. /\ pc \in [Ctxs -> Places] /\ buf \in [Ctxs -> Buffers \cup {NoBuf}] /\ Worker \in Ctxs
      /\ netbuf \in [Slots -> Buffers \cup {NoBuf}] /\ hwo \in [Slots -> BOOLEAN]
      /\ addr \in [Slots -> Buffers \cup {NoBuf}]
      /\ head \in Slots /\ tail \in Slots /\ hwPos \in Slots /\ CriticalSection
  BY DEF Inv, PlaceInv, TypeOK, Ctxs
<1> USE DEF At, Goto, Return, ring, locals, hw
<1>1. ASSUME UNCHANGED <<netbuf, hwo, addr, head, buf>>,
             \A c \in Ctxs : pc'[c] = "addr" <=> pc[c] = "addr"
      PROVE  FetchInv'
  BY <1>1 DEF FetchInv
<1>2. ASSUME NEW c \in Callers, NEW b \in Buffers, Enqueue(c, b) PROVE FetchInv'
  BY <1>0, <1>1, <1>2 DEF Enqueue, ApiEntry, Ctxs
<1>3. ASSUME NEW c \in Ctxs, TrbBulk(c) PROVE FetchInv'
  <2>1. CASE fifo # <<>> /\ Room
    <3>1. /\ netbuf' = [netbuf EXCEPT ![head] = Head(fifo)] /\ hwo' = [hwo EXCEPT ![head] = TRUE]
          /\ buf' = [buf EXCEPT ![c] = Head(fifo)] /\ pc' = [pc EXCEPT ![c] = "addr"]
          /\ pc[c] = "peek" /\ UNCHANGED <<head, addr>>
      BY <1>3, <2>1 DEF TrbBulk
    <3>2. \A d \in Ctxs : d # c => pc[d] # "addr"
      BY <1>0, <3>1 DEF CriticalSection, Critical
    <3> QED
      BY <1>0, <3>1, <3>2 DEF FetchInv
  <2>2. CASE ~(fifo # <<>> /\ Room)
    <3>1. UNCHANGED <<netbuf, hwo, addr, head, buf>> /\ pc' = [pc EXCEPT ![c] = "leave"] /\ pc[c] = "peek"
      BY <1>3, <2>2 DEF TrbBulk
    <3> QED
      BY <1>0, <1>1, <3>1
  <2> QED
    BY <2>1, <2>2
<1>4. ASSUME NEW c \in Ctxs, PushAddr(c) PROVE FetchInv'
  <2>1. /\ addr' = [addr EXCEPT ![head] = buf[c]] /\ pc[c] = "addr" /\ pc' = [pc EXCEPT ![c] = "head"]
        /\ UNCHANGED <<netbuf, hwo, head, buf>>
    BY <1>4 DEF PushAddr
  <2>2. \A d \in Ctxs : pc'[d] # "addr"
    BY <1>0, <2>1 DEF CriticalSection, Critical
  <2>3. hwo[head] => netbuf[head] = buf[c]
    BY <1>0, <2>1, OwnedHasBuffer DEF FetchInv
  <2> QED
    BY <1>0, <2>1, <2>2, <2>3 DEF FetchInv
<1>5. ASSUME NEW c \in Ctxs, PushHead(c) PROVE FetchInv'
  <2>1. /\ pc[c] = "head" /\ pc' = [pc EXCEPT ![c] = "full"]
        /\ UNCHANGED <<netbuf, hwo, addr, buf>>
    BY <1>5 DEF PushHead
  <2>2. \A d \in Ctxs : pc'[d] # "addr" /\ pc[d] # "addr"
    BY <1>0, <2>1 DEF CriticalSection, Critical
  <2> QED
    BY <1>0, <2>1, <2>2 DEF FetchInv
<1>6. ASSUME NEW c \in Ctxs, BufGet(c) PROVE FetchInv'
  <2>1. /\ pc[c] = "get" /\ pc' = [pc EXCEPT ![c] = "peek"] /\ buf' = [buf EXCEPT ![c] = NoBuf]
        /\ UNCHANGED <<netbuf, hwo, addr, head>>
    BY <1>6 DEF BufGet
  <2> QED
    BY <1>0, <2>1 DEF FetchInv
<1>7. CASE PopTrb
  <2>1. /\ pc[Worker] = "idle" /\ pc' = [pc EXCEPT ![Worker] = "submit"]
        /\ buf' = [buf EXCEPT ![Worker] = netbuf[tail]]
        /\ netbuf' = [netbuf EXCEPT ![tail] = NoBuf] /\ events > 0
        /\ UNCHANGED <<hwo, addr, head>>
    BY <1>7 DEF PopTrb
  <2>2. ~hwo[tail]
    BY <2>1, RingInvImpliesPop DEF Inv, PopFindsBuffer
  <2> QED
    BY <1>0, <2>1, <2>2 DEF FetchInv
<1>8. CASE Submit
  BY <1>0, <1>8 DEF Submit, FetchInv
<1>9. CASE HwComplete
  BY <1>0, <1>9 DEF HwComplete, FetchInv
<1>10. CASE HwFetch \/ HwStop
  BY <1>1, <1>10 DEF HwFetch, HwStop
<1>11. ASSUME NEW c \in Ctxs, FlushBegin(c) \/ FlushEnter(c) \/ PushFull(c) \/ UpdateXfer(c)
                              \/ FlushLeave(c) \/ FlushRecheck(c)
       PROVE  FetchInv'
  BY <1>0, <1>1, <1>11 DEF FlushBegin, FlushEnter, PushFull, UpdateXfer, FlushLeave, FlushRecheck
<1>12. ASSUME NEW c \in Callers, EpDequeue(c) \/ SetHalt(c) \/ ClearHalt(c) PROVE FetchInv'
  BY <1>1, <1>12 DEF EpDequeue, SetHalt, ClearHalt
<1>13. CASE UNCHANGED vars
  BY <1>1, <1>13 DEF vars
<1> QED
  BY <1>2, <1>3, <1>4, <1>5, <1>6, <1>7, <1>8, <1>9, <1>10, <1>11, <1>12, <1>13
     DEF HaltNext, Next, Transfer, Flush, Hw

LEMMA OnlyFetchStartsTransfer ==
    ASSUME [HaltNext]_vars, hwState = "walk", hwState' = "xfer"
    PROVE  HwFetch
BY DEF HaltNext, Next, Transfer, Flush, Hw, Enqueue, FlushBegin, FlushEnter, TrbBulk, PushAddr,
       PushHead, PushFull, UpdateXfer, BufGet, FlushLeave, FlushRecheck, PopTrb, Submit, HwStop,
       HwComplete, EpDequeue, SetHalt, ClearHalt, vars, hw

\* The controller never transfers to or from another buffer than the one that
\* net_buf[] records for its TRB, unless it reads the TRB between the two
\* stores of dwc3_push_trb(), whoever preempts the push or the pop.
THEOREM FetchesItsBuffer == HaltSpec => FetchOutsideWindow
<1>1. Init => FetchInv
  BY DEF Init, FetchInv, Ctxs, Slots
<1>2. Inv /\ FetchInv /\ [HaltNext]_vars
      => [hwState = "walk" /\ hwState' = "xfer" /\ (\A c \in Ctxs : pc[c] # "addr")
          => hwBuf' = netbuf[hwPos] /\ hwBuf' # NoBuf]_vars
  <2> SUFFICES ASSUME Inv, FetchInv, [HaltNext]_vars, hwState = "walk", hwState' = "xfer",
                      \A c \in Ctxs : pc[c] # "addr"
               PROVE  hwBuf' = netbuf[hwPos] /\ hwBuf' # NoBuf
    OBVIOUS
  <2>1. hwo[hwPos] /\ hwBuf' = addr[hwPos] /\ hwPos \in Slots
    BY OnlyFetchStartsTransfer DEF HwFetch, Inv, PlaceInv, TypeOK
  <2> QED
    BY <2>1, OwnedHasBuffer DEF FetchInv
<1> QED
  BY <1>1, <1>2, FetchKept, InvAlways, PTL DEF HaltSpec, FetchOutsideWindow

-----------------------------------------------------------------------------
(* What a halt stops *)

\* The endpoint is halted by a caller that is alone in the driver: nobody is
\* past the check of the flush before it is resumed.
HaltInv == halted => \A c \in Ctxs : pc[c] \in {"idle", "flush", "submit"}

LEMMA HaltStep == Inv /\ HaltInv /\ [HaltNext]_vars => HaltInv'
<1> SUFFICES ASSUME Inv, HaltInv, [HaltNext]_vars PROVE HaltInv'
  OBVIOUS
<1>0. pc \in [Ctxs -> Places] /\ Worker \in Ctxs /\ Callers \subseteq Ctxs
  BY DEF Inv, PlaceInv, TypeOK, Ctxs
<1> USE DEF HaltInv, At, Goto, Return
<1>1. ASSUME NEW c \in Callers, SetHalt(c) PROVE HaltInv'
  <2>1. \A d \in Ctxs : pc[d] = "idle"
    BY <1>1, ContextAssumption DEF SetHalt, ApiEntry, Runs, Inv, PlaceInv, LockInv, Ctxs
  <2> QED
    BY <1>1, <2>1 DEF SetHalt
<1>2. ASSUME NEW c \in Callers, ClearHalt(c) PROVE HaltInv'
  BY <1>2 DEF ClearHalt
<1>3. ASSUME NEW c \in Callers, NEW b \in Buffers, Enqueue(c, b) PROVE HaltInv'
  BY <1>0, <1>3 DEF Enqueue
<1>4. ASSUME NEW c \in Ctxs, FlushBegin(c) PROVE HaltInv'
  BY <1>0, <1>4 DEF FlushBegin
<1>5. ASSUME NEW c \in Ctxs, FlushEnter(c) \/ TrbBulk(c) \/ PushAddr(c) \/ PushHead(c) \/ PushFull(c)
                             \/ UpdateXfer(c) \/ BufGet(c) \/ FlushLeave(c) \/ FlushRecheck(c)
      PROVE  HaltInv'
  <2>1. pc[c] \notin {"idle", "flush", "submit"} /\ halted' = halted
    BY <1>5 DEF FlushEnter, TrbBulk, PushAddr, PushHead, PushFull, UpdateXfer, BufGet, FlushLeave,
                FlushRecheck
  <2> QED
    BY <2>1
<1>6. CASE PopTrb \/ Submit
  BY <1>0, <1>6 DEF PopTrb, Submit
<1>7. CASE Hw \/ UNCHANGED vars \/ \E c \in Callers : EpDequeue(c)
  BY <1>7 DEF Hw, HwFetch, HwStop, HwComplete, EpDequeue, vars
<1> QED
  BY <1>1, <1>2, <1>3, <1>4, <1>5, <1>6, <1>7 DEF HaltNext, Next, Transfer, Flush

\* Only TrbBulk() gives a TRB a buffer.
LEMMA OnlyBulkFills ==
    ASSUME Inv, [HaltNext]_vars, \A c \in Ctxs : pc[c] # "peek"
    PROVE  \A i \in Slots : netbuf'[i] \in {netbuf[i], NoBuf}
<1>1. netbuf \in [Slots -> Buffers \cup {NoBuf}] /\ tail \in Slots
  BY DEF Inv, PlaceInv, TypeOK
<1>2. CASE PopTrb
  BY <1>1, <1>2 DEF PopTrb
<1>3. CASE ~PopTrb
  <2>1. \A c \in Ctxs : ~TrbBulk(c)
    BY DEF TrbBulk, At
  <2>2. netbuf' = netbuf
    BY <1>3, <2>1
       DEF HaltNext, Next, Transfer, Flush, Hw, Enqueue, FlushBegin, FlushEnter, PushAddr, PushHead,
           PushFull, UpdateXfer, BufGet, FlushLeave, FlushRecheck, Submit, HwFetch, HwStop,
           HwComplete, EpDequeue, SetHalt, ClearHalt, vars
  <2> QED
    BY <2>2
<1> QED
  BY <1>2, <1>3

\* A halted endpoint hands no further buffer to the controller
\* (udc_dwc3.c:1316-1319), whichever context was flushing when it was halted.
THEOREM HaltStopsPush == HaltSpec => HaltBlocksPush
<1>1. Init => HaltInv
  BY DEF Init, HaltInv
<1>2. Inv /\ HaltInv /\ [HaltNext]_vars
      => [halted => \A i \in Slots : netbuf'[i] \in {netbuf[i], NoBuf}]_vars
  BY OnlyBulkFills DEF HaltInv
<1> QED
  BY <1>1, <1>2, HaltStep, InvAlways, PTL DEF HaltSpec, HaltBlocksPush

-----------------------------------------------------------------------------
(* Where the worker preempts no caller: what the full flag says *)

\* The buffer being pushed keeps its TRB until the push is over, and a ring
\* that is flagged full, or about to be, is full.
FlagInv ==
    /\ \A c \in Ctxs : pc[c] \in Movers => \E i \in Slots : netbuf[i] = buf[c]
    /\ \A c \in Ctxs : pc[c] \in {"addr", "head"} => netbuf[head] # NoBuf
    /\ full \/ (\E c \in Ctxs : pc[c] = "full" /\ seen[c]) => \A i \in Slots : netbuf[i] # NoBuf

\* The head that meets the tail right after a push has gone all the way round.
LEMMA MeetMeansFull ==
    ASSUME Inv, NEW c \in Ctxs, pc[c] = "head", netbuf[head] # NoBuf, RingInc(head) = tail
    PROVE  \A i \in Slots : netbuf[i] # NoBuf
<1>1. head \in Slots /\ tail \in Slots
  BY DEF Inv, PlaceInv, TypeOK
<1>2. PICK n \in 0 .. TrbNum - 1 : RingShape(n)
  BY DEF Inv, RingInv
<1>3. Wrap(tail + n) = tail
  BY <1>2 DEF RingShape, LastSlot, Pushing
<1>4. Off(head) < n /\ \A i \in Slots : Off(i) \in 0 .. TrbNum - 2
  BY <1>1, <1>2, WrapOff DEF RingShape
<1>5. n = TrbNum - 1
  BY <1>1, <1>3, <1>4, TrbNumAssumption DEF Wrap, Slots
<1> QED
  BY <1>2, <1>4, <1>5, TrbNumAssumption DEF RingShape

LEMMA FlagStep ==
    ASSUME Preemptible = {}
    PROVE  Inv /\ FlagInv /\ [HaltNext]_vars => FlagInv'
<1> SUFFICES ASSUME Inv, FlagInv, [HaltNext]_vars PROVE FlagInv'
  OBVIOUS
<1>0. /\ pc \in [Ctxs -> Places] /\ buf \in [Ctxs -> Buffers \cup {NoBuf}] /\ Worker \in Ctxs
      /\ netbuf \in [Slots -> Buffers \cup {NoBuf}] /\ seen \in [Ctxs -> BOOLEAN]
      /\ head \in Slots /\ tail \in Slots /\ CriticalSection /\ Callers \subseteq Ctxs
      /\ fifo \in Seq(Buffers)
  BY DEF Inv, PlaceInv, TypeOK, Ctxs
<1> USE DEF At, Goto, Return, ring, locals, hw, Movers
<1>1. ASSUME UNCHANGED <<netbuf, head, full, buf, seen>>,
             \A c \in Ctxs : pc'[c] # pc[c] => pc'[c] \notin {"addr", "head", "full", "update", "get"}
      PROVE  FlagInv'
  BY <1>1 DEF FlagInv
<1>2. ASSUME NEW c \in Callers, NEW b \in Buffers, Enqueue(c, b) PROVE FlagInv'
  BY <1>0, <1>1, <1>2 DEF Enqueue
<1>3. ASSUME NEW c \in Ctxs, TrbBulk(c) PROVE FlagInv'
  <2>1. CASE fifo # <<>> /\ Room
    <3>1. /\ netbuf' = [netbuf EXCEPT ![head] = Head(fifo)] /\ UNCHANGED <<head, full, seen>>
          /\ buf' = [buf EXCEPT ![c] = Head(fifo)] /\ pc' = [pc EXCEPT ![c] = "addr"]
          /\ pc[c] = "peek" /\ ~full
      BY <1>3, <2>1 DEF TrbBulk, Room
    <3>2. \A d \in Ctxs : d # c => pc[d] \notin Movers
      BY <1>0, <3>1 DEF CriticalSection, Critical
    <3>3. Head(fifo) # NoBuf
      BY <1>0, <2>1, BufferAssumption
    <3> QED
      BY <1>0, <3>1, <3>2, <3>3 DEF FlagInv
  <2>2. CASE ~(fifo # <<>> /\ Room)
    BY <1>0, <1>1, <1>3, <2>2 DEF TrbBulk
  <2> QED
    BY <2>1, <2>2
<1>4. ASSUME NEW c \in Ctxs, PushAddr(c) PROVE FlagInv'
  <2>1. /\ pc[c] = "addr" /\ pc' = [pc EXCEPT ![c] = "head"]
        /\ UNCHANGED <<netbuf, head, full, buf, seen>>
    BY <1>4 DEF PushAddr
  <2> QED
    BY <1>0, <2>1 DEF FlagInv
<1>5. ASSUME NEW c \in Ctxs, PushHead(c) PROVE FlagInv'
  <2>1. /\ pc[c] = "head" /\ pc' = [pc EXCEPT ![c] = "full"] /\ head' = RingInc(head)
        /\ seen' = [seen EXCEPT ![c] = (RingInc(head) = tail)]
        /\ UNCHANGED <<netbuf, full, buf>>
    BY <1>5 DEF PushHead
  <2>2. \A d \in Ctxs : d # c => pc[d] \notin Movers
    BY <1>0, <2>1 DEF CriticalSection, Critical
  <2>3. RingInc(head) = tail => \A i \in Slots : netbuf[i] # NoBuf
    BY <2>1, MeetMeansFull DEF FlagInv
  <2> QED
    BY <1>0, <2>1, <2>2, <2>3 DEF FlagInv
<1>6. ASSUME NEW c \in Ctxs, PushFull(c) PROVE FlagInv'
  <2>1. /\ pc[c] = "full" /\ pc' = [pc EXCEPT ![c] = "update"] /\ full' = seen[c]
        /\ UNCHANGED <<netbuf, head, buf, seen>>
    BY <1>6 DEF PushFull
  <2> QED
    BY <1>0, <2>1 DEF FlagInv
<1>7. ASSUME NEW c \in Ctxs, UpdateXfer(c) PROVE FlagInv'
  <2>1. /\ pc[c] = "update" /\ pc' = [pc EXCEPT ![c] = "get"]
        /\ UNCHANGED <<netbuf, head, full, buf, seen>>
    BY <1>7 DEF UpdateXfer
  <2> QED
    BY <1>0, <2>1 DEF FlagInv
<1>8. ASSUME NEW c \in Ctxs, BufGet(c) PROVE FlagInv'
  <2>1. /\ pc[c] = "get" /\ pc' = [pc EXCEPT ![c] = "peek"] /\ buf' = [buf EXCEPT ![c] = NoBuf]
        /\ UNCHANGED <<netbuf, head, full, seen>>
    BY <1>8 DEF BufGet
  <2> QED
    BY <1>0, <2>1 DEF FlagInv
<1>9. CASE PopTrb
  \* No caller is in the driver, as the worker preempts none.
  <2>1. \A c \in Ctxs : pc[c] = "idle"
    BY <1>9, ContextAssumption DEF PopTrb, Runs, Ctxs
  <2>2. /\ pc' = [pc EXCEPT ![Worker] = "submit"] /\ full' = PopFull(netbuf[tail])
        /\ netbuf[tail] # NoBuf
    BY <1>9, RingInvImpliesPop DEF PopTrb, Inv, PopFindsBuffer
  <2> QED
    BY <1>0, <2>1, <2>2 DEF FlagInv, PopFull
<1>10. CASE Submit
  <2>1. /\ pc[Worker] = "submit" /\ pc' = [pc EXCEPT ![Worker] = "flush"]
        /\ buf' = [buf EXCEPT ![Worker] = NoBuf] /\ UNCHANGED <<netbuf, head, full, seen>>
    BY <1>10 DEF Submit
  <2> QED
    BY <1>0, <2>1 DEF FlagInv
<1>11. ASSUME NEW c \in Ctxs, FlushBegin(c) \/ FlushEnter(c) \/ FlushLeave(c) \/ FlushRecheck(c)
       PROVE  FlagInv'
  BY <1>0, <1>1, <1>11 DEF FlushBegin, FlushEnter, FlushLeave, FlushRecheck
<1>12. CASE Hw
  BY <1>1, <1>12 DEF Hw, HwFetch, HwStop, HwComplete
<1>13. ASSUME NEW c \in Callers, EpDequeue(c) \/ SetHalt(c) \/ ClearHalt(c) PROVE FlagInv'
  BY <1>1, <1>13 DEF EpDequeue, SetHalt, ClearHalt
<1>14. CASE UNCHANGED vars
  BY <1>1, <1>14 DEF vars
<1> QED
  BY <1>2, <1>3, <1>4, <1>5, <1>6, <1>7, <1>8, <1>9, <1>10, <1>11, <1>12, <1>13, <1>14
     DEF HaltNext, Next, Transfer, Flush

LEMMA FlagInit == Init => FlagInv
BY DEF Init, FlagInv, Movers

\* Once everyone has left the driver, the full flag says exactly whether each
\* TRB is in use (udc_dwc3.h:581-582), where the worker preempts no caller.
THEOREM FullFlagIsExact ==
    ASSUME Preemptible = {}
    PROVE  HaltSpec => []FullFlagExact
<1>1. Inv /\ FlagInv => FullFlagExact
  <2> SUFFICES ASSUME Inv, FlagInv, Quiet PROVE full <=> Occupied = Slots
    BY DEF FullFlagExact
  <2>1. full => Occupied = Slots
    BY DEF FlagInv, Occupied
  <2>2. ASSUME Occupied = Slots PROVE full
    <3>1. PICK n \in 0 .. TrbNum - 1 : RingShape(n) /\ FullInv(n)
      BY DEF Inv, RingInv
    <3>2. LET i == Wrap(tail + (TrbNum - 2)) IN i \in Slots /\ Off(i) = TrbNum - 2
      <4>1. tail \in Slots /\ TrbNum - 1 \in 1 .. TrbNum - 1 /\ TrbNum - 1 - 1 = TrbNum - 2
        BY TrbNumAssumption DEF Inv, PlaceInv, TypeOK
      <4> QED
        BY <4>1, WrapOff
    <3>3. n = TrbNum - 1
      BY <2>2, <3>1, <3>2, TrbNumAssumption DEF RingShape, Occupied
    <3> QED
      BY <3>1, <3>3 DEF FullInv, Quiet
  <2> QED
    BY <2>1, <2>2
<1> QED
  BY <1>1, FlagInit, FlagStep, InvAlways, PTL DEF HaltSpec

-----------------------------------------------------------------------------
(* Where the worker preempts no caller: nothing is left behind *)

\* A controller that has stopped at a TRB of its own is about to be told.
StopInv ==
    hwState = "idle" /\ hwo[hwPos] => \E c \in Ctxs : pc[c] \in {"addr", "head", "full", "update"}

LEMMA StopStep == Inv /\ StopInv /\ [Next]_vars => StopInv'
<1> SUFFICES ASSUME Inv, StopInv, [Next]_vars PROVE StopInv'
  OBVIOUS
<1>0. pc \in [Ctxs -> Places] /\ Worker \in Ctxs /\ Callers \subseteq Ctxs
      /\ hwo \in [Slots -> BOOLEAN] /\ hwPos \in Slots /\ head \in Slots
  BY DEF Inv, PlaceInv, TypeOK, Ctxs
<1> USE DEF StopInv, At, Goto, Return, hw
<1>1. ASSUME UNCHANGED <<hw, hwo>>,
             \A c \in Ctxs : pc'[c] # pc[c] => pc[c] \notin {"addr", "head", "full", "update"}
      PROVE  StopInv'
  BY <1>1
<1>2. ASSUME NEW c \in Ctxs, TrbBulk(c) PROVE StopInv'
  BY <1>0, <1>1, <1>2 DEF TrbBulk
<1>3. ASSUME NEW c \in Ctxs, PushAddr(c) \/ PushHead(c) \/ PushFull(c) PROVE StopInv'
  BY <1>0, <1>3 DEF PushAddr, PushHead, PushFull
<1>4. ASSUME NEW c \in Ctxs, UpdateXfer(c) PROVE StopInv'
  BY <1>0, <1>4 DEF UpdateXfer
<1>5. ASSUME NEW c \in Ctxs, FlushBegin(c) \/ FlushEnter(c) \/ BufGet(c) \/ FlushLeave(c)
                             \/ FlushRecheck(c)
      PROVE  StopInv'
  BY <1>0, <1>1, <1>5 DEF FlushBegin, FlushEnter, BufGet, FlushLeave, FlushRecheck
<1>6. CASE Hw
  BY <1>0, <1>6 DEF Hw, HwFetch, HwStop, HwComplete
<1>7. ASSUME NEW c \in Callers, NEW b \in Buffers, Enqueue(c, b) PROVE StopInv'
  BY <1>0, <1>1, <1>7 DEF Enqueue, ApiEntry
<1>8. CASE PopTrb \/ Submit
  BY <1>0, <1>1, <1>8 DEF PopTrb, Submit
<1>9. CASE UNCHANGED vars \/ \E c \in Callers : EpDequeue(c)
  BY <1>9 DEF EpDequeue, vars
<1> QED
  BY <1>2, <1>3, <1>4, <1>5, <1>6, <1>7, <1>8, <1>9 DEF Next, Transfer, Flush

\* Where the worker preempts no caller and no endpoint is halted or enabled
\* again, a driver and a controller that have both come to rest have nothing
\* left to transfer (usb_cdc_raw.h:48).
THEOREM NothingIsLeftBehind ==
    ASSUME Preemptible = {}
    PROVE  Spec => []NothingLeftBehind
<1>1. Inv /\ WakeInv /\ FlagInv /\ StopInv => NothingLeftBehind
  <2> SUFFICES ASSUME Inv, WakeInv, FlagInv, StopInv, Quiet, events = 0, hwState = "idle"
               PROVE  fifo = <<>> /\ Occupied = {}
    BY DEF NothingLeftBehind
  <2>1. ~hwo[hwPos] /\ tail \in Slots
    BY DEF StopInv, Quiet, Inv, PlaceInv, TypeOK
  <2>2. PICK n \in 0 .. TrbNum - 1 : RingShape(n)
    BY DEF Inv, RingInv
  <2>3. hwPos = tail /\ Off(tail) = 0
    BY <2>1, <2>2, TrbNumAssumption DEF RingShape, Wrap, Off, Slots
  <2>4. n = 0
    BY <2>1, <2>2, <2>3, TrbNumAssumption DEF RingShape
  <2>5. \A i \in Slots : netbuf[i] = NoBuf
    BY <2>1, <2>2, <2>4, WrapOff, TrbNumAssumption DEF RingShape
  <2>6. ~full
    BY <2>1, <2>5 DEF FlagInv
  <2> QED
    BY <2>5, <2>6 DEF WakeInv, Attends, Quiet, Occupied
<1>2. Init => Inv /\ StopInv
  BY PlaceInit, RingInit DEF Init, Inv, StopInv
<1>3. [Next]_vars => [HaltNext]_vars
  BY DEF HaltNext
<1>4. Inv /\ WakeInv /\ FlagInv /\ StopInv /\ [Next]_vars => (Inv /\ WakeInv /\ FlagInv /\ StopInv)'
  BY <1>3, HaltInvKept, WakeStep, FlagStep, StopStep DEF Inv
<1> QED
  BY <1>1, <1>2, <1>4, WakeInit, FlagInit, PTL DEF Spec

\* The same while the API also offers halts, for an endpoint on which none
\* is used: only a halt can leave a buffer stuck (udc_dwc3.c:1316-1319).
THEOREM NothingGetsStuck ==
    ASSUME Preemptible = {}
    PROVE  HaltSpec => NothingStuck
<1>1. ~halted /\ ~halted' /\ [HaltNext]_vars => [Next]_vars
  BY DEF HaltNext, SetHalt, ClearHalt
<1>2. HaltSpec /\ [](~halted) => Spec
  BY <1>1, PTL DEF HaltSpec, Spec
<1> QED
  BY <1>2, NothingIsLeftBehind, PTL DEF NothingStuck

-----------------------------------------------------------------------------
(* The abstract queue: one step of EndpointQueue *)

\* Every buffer is either in queue q, once, or with the application.
Distinct(q) == \A j, k \in 1 .. Len(q) : q[j] = q[k] => j = k
Owned(q, a) ==
    /\ q \in Seq(Buffers) /\ Distinct(q)
    /\ a \cap ToSet(q) = {} /\ a \cup ToSet(q) = Buffers

LEMMA ToSetIs ==
    ASSUME NEW S, NEW q \in Seq(S)
    PROVE  /\ \A x : x \in ToSet(q) <=> \E k \in 1 .. Len(q) : q[k] = x
           /\ ToSet(q) \subseteq S
<1>1. DOMAIN q = 1 .. Len(q) /\ \A k \in 1 .. Len(q) : q[k] \in S
  BY ElementOfSeq
<1> QED
  BY <1>1 DEF ToSet

LEMMA SubmitKeeps ==
    ASSUME NEW q, NEW a, Owned(q, a), NEW b \in a
    PROVE  Owned(Append(q, b), a \ {b})
<1> DEFINE r == Append(q, b)
<1>1. q \in Seq(Buffers) /\ Len(q) \in Nat /\ b \in Buffers
  BY DEF Owned
<1>2. /\ r \in Seq(Buffers) /\ Len(r) = Len(q) + 1 /\ r[Len(q) + 1] = b
      /\ \A k \in 1 .. Len(q) : r[k] = q[k]
  BY <1>1, AppendProperties
<1>3. \A k \in 1 .. Len(q) : q[k] # b
  BY <1>1, ToSetIs DEF Owned
<1> HIDE DEF r
<1>4. Distinct(r)
  BY <1>1, <1>2, <1>3 DEF Distinct, Owned
<1>5. \A x : x \in ToSet(r) <=> x \in ToSet(q) \/ x = b
  <2>1. \A x : x \in ToSet(r) <=> \E k \in 1 .. Len(q) + 1 : r[k] = x
    BY <1>2, ToSetIs
  <2>2. \A x : x \in ToSet(q) <=> \E k \in 1 .. Len(q) : q[k] = x
    BY <1>1, ToSetIs
  <2> QED
    BY <1>1, <1>2, <2>1, <2>2
<1> QED
  BY <1>1, <1>2, <1>4, <1>5 DEF Owned, r

LEMMA CompleteKeeps ==
    ASSUME NEW q, NEW a, Owned(q, a), q # <<>>
    PROVE  Owned(Tail(q), a \cup {Head(q)})
<1> DEFINE r == Tail(q)
<1>1. q \in Seq(Buffers) /\ Len(q) \in Nat \ {0} /\ Head(q) = q[1]
  BY EmptySeq, HeadTailProperties DEF Owned
<1>2. /\ r \in Seq(Buffers) /\ Len(r) = Len(q) - 1
      /\ \A k \in 1 .. Len(q) - 1 : r[k] = q[k + 1]
  BY <1>1, HeadTailProperties
<1> HIDE DEF r
<1>3. Distinct(r)
  BY <1>1, <1>2 DEF Distinct, Owned
<1>4. \A x : x \in ToSet(q) <=> x \in ToSet(r) \/ x = q[1]
  <2>1. \A x : x \in ToSet(r) <=> \E k \in 1 .. Len(q) - 1 : r[k] = x
    BY <1>2, ToSetIs
  <2>2. \A x : x \in ToSet(q) <=> \E k \in 1 .. Len(q) : q[k] = x
    BY <1>1, ToSetIs
  <2>3. ASSUME NEW k \in 1 .. Len(q), k # 1 PROVE q[k] \in ToSet(r)
    <3>1. k - 1 \in 1 .. Len(q) - 1 /\ (k - 1) + 1 = k
      BY <1>1, <2>3
    <3>2. r[k - 1] = q[k]
      BY <1>2, <3>1
    <3> QED
      BY <2>1, <3>1, <3>2
  <2>4. ASSUME NEW k \in 1 .. Len(q) - 1 PROVE r[k] \in ToSet(q)
    <3>1. k + 1 \in 1 .. Len(q) /\ r[k] = q[k + 1]
      BY <1>1, <1>2
    <3> QED
      BY <2>2, <3>1
  <2>5. q[1] \in ToSet(q)
    BY <1>1, <2>2
  <2> QED
    BY <2>1, <2>2, <2>3, <2>4, <2>5
<1>5. q[1] \notin ToSet(r)
  <2>1. \A k \in 1 .. Len(q) - 1 : r[k] # q[1]
    BY <1>1, <1>2 DEF Distinct, Owned
  <2> QED
    BY <1>2, <2>1, ToSetIs
<1> QED
  BY <1>1, <1>2, <1>3, <1>4, <1>5 DEF Owned, r

LEMMA AbortKeeps ==
    ASSUME NEW q, NEW a, Owned(q, a), NEW n \in 0 .. Len(q)
    PROVE  Owned(SubSeq(q, 1, n), a \cup ToSet(SubSeq(q, n + 1, Len(q))))
<1> DEFINE r == SubSeq(q, 1, n)
           s == SubSeq(q, n + 1, Len(q))
<1>1. /\ q \in Seq(Buffers) /\ Len(q) \in Nat /\ n \in Nat
      /\ \A k \in 1 .. Len(q) : q[k] \in Buffers
  BY ElementOfSeq DEF Owned
<1>2. r \in Seq(Buffers) /\ Len(r) = n /\ \A k \in 1 .. n : r[k] = q[k]
  <2>1. \A k \in 1 .. n : q[k] \in Buffers
    BY <1>1
  <2>2. /\ r \in Seq(Buffers) /\ Len(r) = IF 1 <= n THEN n - 1 + 1 ELSE 0
        /\ \A i \in 1 .. n - 1 + 1 : r[i] = q[1 + i - 1]
    BY <1>1, <2>1, SubSeqProperties
  <2> QED
    BY <1>1, <2>2
<1>3. s \in Seq(Buffers) /\ Len(s) = Len(q) - n /\ \A k \in 1 .. Len(q) - n : s[k] = q[n + k]
  <2>1. \A k \in n + 1 .. Len(q) : q[k] \in Buffers
    BY <1>1
  <2>2. LET m == n + 1
        IN  /\ s \in Seq(Buffers) /\ Len(s) = IF m <= Len(q) THEN Len(q) - m + 1 ELSE 0
            /\ \A i \in 1 .. Len(q) - m + 1 : s[i] = q[m + i - 1]
    BY <1>1, <2>1, SubSeqProperties
  <2> QED
    BY <1>1, <2>2
<1> HIDE DEF r, s
<1>4. Distinct(r)
  BY <1>1, <1>2 DEF Distinct, Owned
<1>5. /\ \A x : x \in ToSet(r) <=> \E k \in 1 .. n : r[k] = x
      /\ \A x : x \in ToSet(s) <=> \E k \in 1 .. Len(q) - n : s[k] = x
      /\ \A x : x \in ToSet(q) <=> \E k \in 1 .. Len(q) : q[k] = x
  <2>1. \A x : x \in ToSet(r) <=> \E k \in 1 .. n : r[k] = x
    BY <1>2, ToSetIs
  <2>2. \A x : x \in ToSet(s) <=> \E k \in 1 .. Len(q) - n : s[k] = x
    BY <1>3, ToSetIs
  <2>3. \A x : x \in ToSet(q) <=> \E k \in 1 .. Len(q) : q[k] = x
    BY <1>1, ToSetIs
  <2> QED
    BY <2>1, <2>2, <2>3
<1>6. ToSet(q) = ToSet(r) \cup ToSet(s)
  <2>1. ASSUME NEW k \in 1 .. Len(q) PROVE q[k] \in ToSet(r) \/ q[k] \in ToSet(s)
    <3>1. CASE k <= n
      BY <1>1, <1>2, <1>5, <3>1
    <3>2. CASE k > n
      <4>1. k - n \in 1 .. Len(q) - n /\ n + (k - n) = k
        BY <1>1, <3>2
      <4>2. s[k - n] = q[k]
        BY <1>3, <4>1
      <4> QED
        BY <1>5, <4>1, <4>2
    <3> QED
      BY <1>1, <3>1, <3>2
  <2>2. ASSUME NEW k \in 1 .. n PROVE r[k] \in ToSet(q)
    BY <1>1, <1>2, <1>5
  <2>3. ASSUME NEW k \in 1 .. Len(q) - n PROVE s[k] \in ToSet(q)
    <3>1. n + k \in 1 .. Len(q) /\ s[k] = q[n + k]
      BY <1>1, <1>3
    <3> QED
      BY <1>5, <3>1
  <2> QED
    BY <1>5, <2>1, <2>2, <2>3
<1>7. ToSet(r) \cap ToSet(s) = {}
  <2>1. ASSUME NEW j \in 1 .. n, NEW k \in 1 .. Len(q) - n PROVE r[j] # s[k]
    <3>1. j \in 1 .. Len(q) /\ n + k \in 1 .. Len(q) /\ j # n + k
      BY <1>1
    <3>2. q[j] # q[n + k]
      BY <3>1 DEF Distinct, Owned
    <3> QED
      BY <1>2, <1>3, <3>2
  <2> QED
    BY <1>5, <2>1
<1> QED
  BY <1>2, <1>4, <1>6, <1>7 DEF Owned, r, s

-----------------------------------------------------------------------------
(* The driver *)

LEMMA OwnedStep ==
    ASSUME Inv, Inv', Owned(QueueView, app), [HaltNext]_vars
    PROVE  Owned(QueueView, app)'
<1>1. CASE [Next]_vars
  <2>1. [Abstract!Next]_(Abstract!vars)
    BY <1>1, StepImplements
  <2>2. CASE UNCHANGED <<QueueView, app>>
    BY <2>2 DEF Owned
  <2>3. ASSUME NEW b \in Buffers, Abstract!Submit(b) PROVE Owned(QueueView, app)'
    <3>1. b \in app /\ QueueView' = Append(QueueView, b) /\ app' = app \ {b}
      BY <2>3 DEF Abstract!Submit
    <3>2. Owned(Append(QueueView, b), app \ {b})
      BY <3>1, SubmitKeeps
    <3> QED
      BY ONLY <3>1, <3>2 DEF Owned, Distinct
  <2>4. CASE Abstract!Complete
    <3>1. QueueView # <<>> /\ QueueView' = Tail(QueueView) /\ app' = app \cup {Head(QueueView)}
      BY <2>4 DEF Abstract!Complete
    <3>2. Owned(Tail(QueueView), app \cup {Head(QueueView)})
      BY <3>1, CompleteKeeps
    <3> QED
      BY ONLY <3>1, <3>2 DEF Owned, Distinct
  <2>5. CASE Abstract!Abort
    <3>1. PICK n \in 0 .. Len(QueueView) :
            /\ QueueView' = SubSeq(QueueView, 1, n)
            /\ app' = app \cup Abstract!ToSet(SubSeq(QueueView, n + 1, Len(QueueView)))
      BY <2>5 DEF Abstract!Abort
    <3>2. Owned(SubSeq(QueueView, 1, n), app \cup ToSet(SubSeq(QueueView, n + 1, Len(QueueView))))
      BY <3>1, AbortKeeps
    <3>3. app' = app \cup ToSet(SubSeq(QueueView, n + 1, Len(QueueView)))
      BY <3>1 DEF ToSet, Abstract!ToSet
    <3> QED
      BY ONLY <3>1, <3>2, <3>3 DEF Owned, Distinct
  <2> QED
    BY <2>1, <2>2, <2>3, <2>4, <2>5 DEF Abstract!Next, Abstract!vars
<1>2. ASSUME NEW c \in Callers, SetHalt(c) \/ ClearHalt(c) PROVE Owned(QueueView, app)'
  <2>1. UNCHANGED <<pc, buf, fifo, netbuf, tail, app>>
    BY <1>2 DEF SetHalt, ClearHalt, ring, locals
  <2>2. Popped' = Popped /\ Waiting' = Waiting
    BY <2>1 DEF Popped, Waiting, Moving
  <2> QED
    BY <2>1, <2>2, ViewKept DEF Owned
<1> QED
  BY <1>1, <1>2 DEF HaltNext

LEMMA OwnedInit == Init => Owned(QueueView, app)
<1> SUFFICES ASSUME Init PROVE Owned(QueueView, app)
  OBVIOUS
<1>1. QueueView = <<>> /\ app = Buffers
  BY InitImplements DEF Abstract!Init
<1>2. Len(<<>>) = 0 /\ <<>> \in Seq(Buffers)
  BY EmptySeq
<1>3. ToSet(<<>>) = {}
  <2>1. DOMAIN <<>> = {}
    OBVIOUS
  <2> QED
    BY <2>1 DEF ToSet
<1> QED
  BY <1>1, <1>2, <1>3 DEF Owned, Distinct

-----------------------------------------------------------------------------
(* The parts of the queue *)

LEMMA ConcatSets ==
    ASSUME NEW S, NEW u \in Seq(S), NEW v \in Seq(S), Distinct(u \o v)
    PROVE  /\ u \o v \in Seq(S)
           /\ ToSet(u \o v) = ToSet(u) \cup ToSet(v) /\ ToSet(u) \cap ToSet(v) = {}
           /\ Distinct(u) /\ Distinct(v)
<1> DEFINE w == u \o v
<1>1. /\ w \in Seq(S) /\ Len(w) = Len(u) + Len(v) /\ Len(u) \in Nat /\ Len(v) \in Nat
      /\ \A i \in 1 .. Len(u) + Len(v) : w[i] = IF i <= Len(u) THEN u[i] ELSE v[i - Len(u)]
  BY ConcatProperties
<1>2. \A i, j \in 1 .. Len(w) : w[i] = w[j] => i = j
  BY DEF Distinct
<1> HIDE DEF w
<1>3. ASSUME NEW k \in 1 .. Len(u) PROVE k \in 1 .. Len(w) /\ w[k] = u[k]
  BY <1>1
<1>4. ASSUME NEW k \in 1 .. Len(v) PROVE Len(u) + k \in 1 .. Len(w) /\ w[Len(u) + k] = v[k]
  <2>1. Len(u) + k \in 1 .. Len(u) + Len(v) /\ ~(Len(u) + k <= Len(u)) /\ (Len(u) + k) - Len(u) = k
    BY <1>1
  <2> QED
    BY <1>1, <2>1
<1>5. Distinct(u)
  BY <1>2, <1>3 DEF Distinct
<1>6. Distinct(v)
  <2> SUFFICES ASSUME NEW j \in 1 .. Len(v), NEW k \in 1 .. Len(v), v[j] = v[k] PROVE j = k
    BY DEF Distinct
  <2>1. Len(u) + j = Len(u) + k
    BY <1>2, <1>4
  <2> QED
    BY <1>1, <2>1
<1>7. /\ \A x : x \in ToSet(u) <=> \E k \in 1 .. Len(u) : u[k] = x
      /\ \A x : x \in ToSet(v) <=> \E k \in 1 .. Len(v) : v[k] = x
      /\ \A x : x \in ToSet(w) <=> \E k \in 1 .. Len(w) : w[k] = x
  <2>1. \A q \in Seq(S) : \A x : x \in ToSet(q) <=> \E k \in 1 .. Len(q) : q[k] = x
    BY ToSetIs
  <2> QED
    BY <1>1, <2>1
<1>8. ASSUME NEW i \in 1 .. Len(w) PROVE w[i] \in ToSet(u) \cup ToSet(v)
  <2>1. CASE i <= Len(u)
    <3>1. i \in 1 .. Len(u) /\ w[i] = u[i]
      BY <1>1, <2>1
    <3> QED
      BY <1>7, <3>1
  <2>2. CASE i > Len(u)
    <3>1. i - Len(u) \in 1 .. Len(v) /\ w[i] = v[i - Len(u)]
      BY <1>1, <2>2
    <3> QED
      BY <1>7, <3>1
  <2> QED
    BY <1>1, <2>1, <2>2
<1>9. ToSet(w) = ToSet(u) \cup ToSet(v)
  <2>1. ASSUME NEW x \in ToSet(w) PROVE x \in ToSet(u) \cup ToSet(v)
    BY <1>7, <1>8
  <2>2. ASSUME NEW x \in ToSet(u) PROVE x \in ToSet(w)
    BY <1>3, <1>7
  <2>3. ASSUME NEW x \in ToSet(v) PROVE x \in ToSet(w)
    <3>1. PICK k \in 1 .. Len(v) : v[k] = x
      BY <1>7
    <3>2. Len(u) + k \in 1 .. Len(w) /\ w[Len(u) + k] = x
      BY <1>4, <3>1
    <3> QED
      BY <1>7, <3>2
  <2> QED
    BY <2>1, <2>2, <2>3
<1>10. ToSet(u) \cap ToSet(v) = {}
  <2>1. ASSUME NEW j \in 1 .. Len(u), NEW k \in 1 .. Len(v) PROVE u[j] # v[k]
    <3>1. j # Len(u) + k
      BY <1>1
    <3> QED
      BY <1>2, <1>3, <1>4, <3>1
  <2> QED
    BY <1>7, <2>1
<1> QED
  BY <1>1, <1>5, <1>6, <1>9, <1>10 DEF w

LEMMA DistinctCount ==
    ASSUME NEW S, NEW q \in Seq(S), Distinct(q)
    PROVE  IsFiniteSet(ToSet(q)) /\ Cardinality(ToSet(q)) = Len(q)
<1>1. /\ Len(q) \in Nat /\ q \in [1 .. Len(q) -> S]
      /\ \A x : x \in ToSet(q) <=> \E k \in 1 .. Len(q) : q[k] = x
  BY ToSetIs
<1>2. q \in [1 .. Len(q) -> ToSet(q)]
  BY <1>1
<1>3. q \in Bijection(1 .. Len(q), ToSet(q))
  BY <1>1, <1>2 DEF Bijection, Injection, Surjection, IsInjective, Distinct
<1>4. ExistsBijection(1 .. Len(q), ToSet(q))
  BY <1>3 DEF ExistsBijection
<1>5. IsFiniteSet(1 .. Len(q)) /\ Cardinality(1 .. Len(q)) = Len(q)
  <2>1. Len(q) \in Int /\ Len(q) >= 0
    BY <1>1
  <2> QED
    BY <2>1, FS_Interval
<1> QED
  BY <1>4, <1>5, FS_Bijection

LEMMA RingSeqIsRing ==
    ASSUME Inv, NEW n \in 0 .. TrbNum - 1, RingShape(n)
    PROVE  ToSet(RingSeq(n)) = InRing
<1>1. /\ RingSeq(n) \in Seq(Buffers) /\ Len(RingSeq(n)) = n /\ n \in Nat
      /\ \A k \in 1 .. n : RingSeq(n)[k] = netbuf[Wrap(tail + (k - 1))]
  BY RingSeqType DEF Inv, PlaceInv
<1>2. tail \in Slots
  BY DEF Inv, PlaceInv, TypeOK
<1>3. \A x : x \in ToSet(RingSeq(n)) <=> \E k \in 1 .. n : RingSeq(n)[k] = x
  BY <1>1, ToSetIs
<1>4. ASSUME NEW k \in 1 .. n PROVE RingSeq(n)[k] \in InRing
  <2>1. k \in 1 .. TrbNum - 1 /\ k - 1 < n
    BY <1>1, TrbNumAssumption
  <2>2. Wrap(tail + (k - 1)) \in Occupied
    BY <1>2, <2>1, WrapOff DEF RingShape, Occupied
  <2> QED
    BY <1>1, <2>2 DEF InRing
<1>5. ASSUME NEW i \in Occupied PROVE netbuf[i] \in ToSet(RingSeq(n))
  <2>1. i \in Slots /\ Off(i) \in 0 .. TrbNum - 2 /\ Wrap(tail + Off(i)) = i /\ Off(i) < n
    BY <1>2, WrapOff DEF RingShape, Occupied
  <2>2. Off(i) + 1 \in 1 .. n /\ (Off(i) + 1) - 1 = Off(i)
    BY <1>1, <2>1, TrbNumAssumption
  <2>3. RingSeq(n)[Off(i) + 1] = netbuf[i]
    BY <1>1, <2>1, <2>2
  <2> QED
    BY <1>3, <2>2, <2>3
<1> QED
  BY <1>3, <1>4, <1>5 DEF InRing

LEMMA WaitingIsQueued ==
    ASSUME Inv
    PROVE  /\ ToSet(Waiting) = Queued
           /\ ToSet(fifo) = IF Moving THEN Queued \cup {Head(fifo)} ELSE Queued
<1>1. /\ fifo \in Seq(Buffers) /\ Waiting \in Seq(Buffers) /\ Len(fifo) \in Nat
      /\ Moving => fifo # <<>>
  BY ViewParts
<1>2. \A x : x \in ToSet(fifo) <=> \E k \in 1 .. Len(fifo) : fifo[k] = x
  BY <1>1, ToSetIs
<1>3. CASE ~Moving
  <2>1. Queued = {fifo[k] : k \in 1 .. Len(fifo)} /\ Waiting = fifo
    BY <1>3 DEF Queued, Waiting
  <2> QED
    BY <1>2, <1>3, <2>1
<1>4. CASE Moving
  <2>1. Queued = {fifo[k] : k \in 2 .. Len(fifo)} /\ Waiting = Tail(fifo)
    BY <1>4 DEF Queued, Waiting
  <2>2. /\ Len(Tail(fifo)) = Len(fifo) - 1 /\ Head(fifo) = fifo[1] /\ Len(fifo) >= 1
        /\ \A k \in 1 .. Len(fifo) - 1 : Tail(fifo)[k] = fifo[k + 1]
    BY <1>1, <1>4, HeadTailProperties
  <2>3. \A x : x \in ToSet(Waiting) <=> \E k \in 1 .. Len(fifo) - 1 : Waiting[k] = x
    <3>1. \A x : x \in ToSet(Waiting) <=> \E k \in 1 .. Len(Waiting) : Waiting[k] = x
      BY <1>1, ToSetIs
    <3>2. Len(Waiting) = Len(fifo) - 1
      BY <2>1, <2>2
    <3> QED
      BY <3>1, <3>2
  <2>4. ASSUME NEW k \in 1 .. Len(fifo) - 1 PROVE Waiting[k] \in Queued
    <3>1. k + 1 \in 2 .. Len(fifo)
      BY <1>1
    <3> QED
      BY <2>1, <2>2, <3>1
  <2>5. ASSUME NEW k \in 2 .. Len(fifo) PROVE fifo[k] \in ToSet(Waiting)
    <3>1. k - 1 \in 1 .. Len(fifo) - 1 /\ (k - 1) + 1 = k
      BY <1>1
    <3>2. Waiting[k - 1] = fifo[k]
      BY <2>1, <2>2, <3>1
    <3> QED
      BY <2>3, <3>1, <3>2
  <2>6. ToSet(Waiting) = Queued
    BY <2>1, <2>3, <2>4, <2>5
  <2>7. \A k \in 1 .. Len(fifo) : k = 1 \/ k \in 2 .. Len(fifo)
    BY <1>1
  <2>8. \A k \in 2 .. Len(fifo) : k \in 1 .. Len(fifo)
    BY <1>1
  <2>9. ToSet(fifo) = Queued \cup {Head(fifo)}
    BY <1>1, <1>2, <2>1, <2>2, <2>7, <2>8
  <2> QED
    BY <1>4, <2>6, <2>9
<1> QED
  BY <1>3, <1>4

LEMMA DisjointCount ==
    ASSUME NEW S, NEW T, IsFiniteSet(S), IsFiniteSet(T), S \cap T = {}
    PROVE  /\ IsFiniteSet(S \cup T) /\ Cardinality(S) \in Nat /\ Cardinality(T) \in Nat
           /\ Cardinality(S \cup T) = Cardinality(S) + Cardinality(T)
<1>1. Cardinality(S \cap T) = 0
  BY FS_EmptySet
<1>2. Cardinality(S) \in Nat /\ Cardinality(T) \in Nat
  BY FS_CardinalityType
<1>3. /\ IsFiniteSet(S \cup T)
      /\ Cardinality(S \cup T) = Cardinality(S) + Cardinality(T) - Cardinality(S \cap T)
  BY FS_Union
<1> QED
  BY <1>1, <1>2, <1>3

PoppedSet == {b \in {buf[Worker]} : pc[Worker] = "submit"}

\* The queue is what the worker popped, then the ring, then what waits.
LEMMA QueueParts ==
    ASSUME Inv, Owned(QueueView, app)
    PROVE  /\ app \cup PoppedSet \cup InRing \cup Queued = Buffers
           /\ app \cap (PoppedSet \cup InRing \cup Queued) = {}
           /\ PoppedSet \cap InRing = {} /\ (PoppedSet \cup InRing) \cap Queued = {}
           /\ IsFiniteSet(PoppedSet) /\ IsFiniteSet(InRing) /\ IsFiniteSet(Queued)
           /\ Cardinality(InRing) = Cardinality(Occupied)
           /\ Queued \subseteq ToSet(fifo) /\ ToSet(fifo) \subseteq Buffers
<1>1. PICK n \in 0 .. TrbNum - 1 : RingShape(n)
  BY DEF Inv, RingInv
<1>2. /\ Popped \in Seq(Buffers) /\ RingSeq(n) \in Seq(Buffers) /\ Waiting \in Seq(Buffers)
      /\ QueueView = (Popped \o RingSeq(n)) \o Waiting
  BY <1>1, ViewIs, ViewParts
<1>3. PICK p \in Seq(Buffers), r \in Seq(Buffers), w \in Seq(Buffers) :
        p = Popped /\ r = RingSeq(n) /\ w = Waiting
  BY <1>2
<1>4. PICK u \in Seq(Buffers) : u = p \o r
  BY ConcatProperties
<1>5. /\ Distinct(u \o w) /\ app \cap ToSet(u \o w) = {} /\ app \cup ToSet(u \o w) = Buffers
  BY <1>2, <1>3, <1>4 DEF Owned
<1>6. /\ ToSet(u \o w) = ToSet(u) \cup ToSet(w) /\ ToSet(u) \cap ToSet(w) = {}
      /\ Distinct(u) /\ Distinct(w)
  BY <1>5, ConcatSets
<1>7. /\ ToSet(u) = ToSet(p) \cup ToSet(r) /\ ToSet(p) \cap ToSet(r) = {} /\ Distinct(p) /\ Distinct(r)
  BY <1>4, <1>6, ConcatSets
<1>8. ToSet(r) = InRing /\ ToSet(w) = Queued
  BY <1>1, <1>3, RingSeqIsRing, WaitingIsQueued
<1>9. ToSet(p) = PoppedSet
  <2>1. CASE pc[Worker] = "submit"
    <3>1. p = <<buf[Worker]>> /\ Len(<<buf[Worker]>>) = 1 /\ <<buf[Worker]>>[1] = buf[Worker]
      BY <1>3, <2>1 DEF Popped
    <3>2. \A x : x \in ToSet(p) <=> \E k \in 1 .. Len(p) : p[k] = x
      BY ToSetIs
    <3>3. \A x : x \in ToSet(p) <=> x = buf[Worker]
      BY <3>1, <3>2
    <3> QED
      BY <2>1, <3>3 DEF PoppedSet
  <2>2. CASE pc[Worker] # "submit"
    <3>1. p = <<>> /\ DOMAIN <<>> = {}
      BY <1>3, <2>2 DEF Popped
    <3> QED
      BY <2>2, <3>1 DEF PoppedSet, ToSet
  <2> QED
    BY <2>1, <2>2
<1>10. /\ IsFiniteSet(PoppedSet) /\ IsFiniteSet(InRing) /\ IsFiniteSet(Queued)
       /\ Cardinality(InRing) = Len(r)
  BY <1>6, <1>7, <1>8, <1>9, DistinctCount
<1>11. Cardinality(Occupied) = n /\ Len(r) = n
  BY <1>1, <1>3, CountIs, RingSeqType DEF Inv, PlaceInv
<1>12. Queued \subseteq ToSet(fifo) /\ ToSet(fifo) \subseteq Buffers
  <2>1. fifo \in Seq(Buffers)
    BY ViewParts
  <2> QED
    BY <2>1, WaitingIsQueued, ToSetIs
<1> QED
  BY <1>5, <1>6, <1>7, <1>8, <1>9, <1>10, <1>11, <1>12

\* The buffer on its way is in the ring until it is taken off the fifo.
LEMMA FifoParts ==
    ASSUME Inv, FlagInv
    PROVE  ToSet(fifo) \subseteq Queued \cup InRing
<1>1. CASE ~Moving
  BY <1>1, WaitingIsQueued
<1>2. CASE Moving
  <2>1. PICK c \in Ctxs : pc[c] \in Movers
    BY <1>2 DEF Moving, Movers
  <2>2. buf[c] = Head(fifo) /\ fifo # <<>> /\ fifo \in Seq(Buffers)
    BY <2>1, ViewParts DEF Movers, Inv, PlaceInv, HeldInv
  <2>3. Head(fifo) # NoBuf
    BY <2>2, HeadTailProperties, BufferAssumption
  <2>4. Head(fifo) \in InRing
    BY <2>1, <2>2, <2>3 DEF FlagInv, InRing, Occupied
  <2> QED
    BY <1>2, <2>4, WaitingIsQueued
<1> QED
  BY <1>1, <1>2

-----------------------------------------------------------------------------
(* Theorems *)

LEMMA OwnedAlways == HaltSpec => [](Inv /\ Owned(QueueView, app))
<1>1. Init => Inv
  BY PlaceInit, RingInit DEF Inv
<1>2. Inv /\ Owned(QueueView, app) /\ [HaltNext]_vars => (Inv /\ Owned(QueueView, app))'
  BY HaltInvKept, OwnedStep
<1> QED
  BY <1>1, <1>2, OwnedInit, PTL DEF HaltSpec

\* The application never gets back a buffer that the fifo or the ring still
\* refers to (usb_cdc_raw.h:49: "then free it").
THEOREM NoBufferDeliveredEarly ==
    ASSUME Preemptible = {}
    PROVE  HaltSpec => []NoEarlyDelivery
<1>1. Inv /\ FlagInv /\ Owned(QueueView, app) => NoEarlyDelivery
  BY QueueParts, FifoParts DEF NoEarlyDelivery
<1>2. Inv /\ FlagInv /\ [HaltNext]_vars => FlagInv'
  BY FlagStep
<1> QED
  BY <1>1, <1>2, FlagInit, OwnedAlways, PTL DEF HaltSpec

\* No buffer is lost and none is in two places, for every ring size, every
\* finite set of buffers, and every set of callers that the worker may preempt
\* (usb_cdc_raw.h:48-50).
THEOREM BuffersConserved ==
    ASSUME IsFiniteSet(Buffers)
    PROVE  HaltSpec => []Conserved
<1>1. Inv /\ Owned(QueueView, app) => Conserved
  <2> SUFFICES ASSUME Inv, Owned(QueueView, app) PROVE Conserved
    OBVIOUS
  <2>1. app \cup ToSet(fifo) \cup InRing \cup PoppedSet = Buffers
    BY QueueParts
  <2>2. /\ IsFiniteSet(app) /\ IsFiniteSet(PoppedSet) /\ IsFiniteSet(InRing) /\ IsFiniteSet(Queued)
        /\ Cardinality(InRing) = Cardinality(Occupied)
    <3>1. app \in SUBSET Buffers
      BY QueueParts
    <3> QED
      BY <3>1, QueueParts, FS_Subset
  <2> DEFINE R == PoppedSet \cup InRing
             Q == R \cup Queued
  <2>3. IsFiniteSet(R) /\ Cardinality(R) = Cardinality(PoppedSet) + Cardinality(InRing)
    BY <2>2, QueueParts, DisjointCount
  <2>4. IsFiniteSet(Q) /\ Cardinality(Q) = Cardinality(R) + Cardinality(Queued)
    BY <2>2, <2>3, QueueParts, DisjointCount
  <2>5. Cardinality(app \cup Q) = Cardinality(app) + Cardinality(Q) /\ app \cup Q = Buffers
    BY <2>2, <2>4, QueueParts, DisjointCount
  <2>6. /\ Cardinality(app) \in Nat /\ Cardinality(PoppedSet) \in Nat
        /\ Cardinality(InRing) \in Nat /\ Cardinality(Queued) \in Nat
    BY <2>2, FS_CardinalityType
  <2> HIDE DEF R, Q
  <2>7. Cardinality(app) + Cardinality(Queued) + Cardinality(Occupied) + Cardinality(PoppedSet)
          = Cardinality(Buffers)
    <3>1. Cardinality(Buffers) = Cardinality(app) + Cardinality(Q)
      BY <2>5, Zenon
    <3>2. PICK a \in Nat, p \in Nat, r \in Nat, w \in Nat :
            /\ a = Cardinality(app) /\ p = Cardinality(PoppedSet)
            /\ r = Cardinality(InRing) /\ w = Cardinality(Queued)
      BY <2>6
    <3>3. Cardinality(Buffers) = a + ((p + r) + w) /\ Cardinality(Occupied) = r
      BY <2>2, <2>3, <2>4, <3>1, <3>2, Zenon
    <3> QED
      BY <3>2, <3>3
  <2> QED
    BY <2>1, <2>7 DEF Conserved, PoppedSet
<1> QED
  BY <1>1, OwnedAlways, PTL
=============================================================================
