--------------------------- MODULE Dwc3BulkProofs ---------------------------
(***************************************************************************)
(* Dwc3Bulk for every ring size, every set of buffers and every set of     *)
(* callers, preemptible or not.                                            *)
(***************************************************************************)
EXTENDS Dwc3Bulk, TLAPS

-----------------------------------------------------------------------------
(* Who is where: the mutex, the BUSY flag, and the fifo's first buffer      *)

\* The mutex is held exactly by the caller that is in the driver.
LockInv ==
    /\ \A c \in Callers : pc[c] # "idle" <=> lock = c
    /\ \A c \in Callers : pc[c] # "submit"

\* The BUSY flag is set exactly while a context is in the critical section.
BusyInv == busy <=> \E c \in Ctxs : pc[c] \in Critical

\* The buffer being pushed stays at the head of the fifo until it is removed.
HeldInv ==
    \A c \in Ctxs : pc[c] \in {"addr", "head", "full", "update", "get"} =>
        fifo # <<>> /\ buf[c] = Head(fifo)

PlaceInv == TypeOK /\ LockInv /\ BusyInv /\ CriticalSection /\ HeldInv

\* The ring index stays below the LINK TRB (dwc3_ring_inc()).
LEMMA RingIncInSlots == \A i \in Slots : RingInc(i) \in Slots
BY TrbNumAssumption DEF Slots, RingInc

LEMMA PlaceInit == Init => PlaceInv
<1> SUFFICES ASSUME Init PROVE PlaceInv
  OBVIOUS
<1> USE ContextAssumption, TrbNumAssumption DEF Init, Ctxs, Places, Critical
<1>1. TypeOK
  <2>1. 0 \in Slots
    BY DEF Slots
  <2>2. fifo \in Seq(Buffers) /\ events \in Nat /\ app \subseteq Buffers
    OBVIOUS
  <2>3. pc \in [Ctxs -> Places] /\ buf \in [Ctxs -> Buffers \cup {NoBuf}]
    OBVIOUS
  <2>4. hwo \in [Slots -> BOOLEAN] /\ seen \in [Ctxs -> BOOLEAN]
    OBVIOUS
  <2>5. netbuf \in [Slots -> Buffers \cup {NoBuf}] /\ addr \in [Slots -> Buffers \cup {NoBuf}]
    OBVIOUS
  <2> QED
    BY <2>1, <2>2, <2>3, <2>4, <2>5 DEF TypeOK
<1>2. LockInv /\ BusyInv /\ CriticalSection /\ HeldInv
  BY DEF LockInv, BusyInv, CriticalSection, HeldInv
<1> QED
  BY <1>1, <1>2 DEF PlaceInv

LEMMA PlaceStep == PlaceInv /\ [Next]_vars => PlaceInv'
<1> SUFFICES ASSUME PlaceInv, [Next]_vars PROVE PlaceInv'
  OBVIOUS
<1> USE ContextAssumption DEF PlaceInv, TypeOK, LockInv, BusyInv, CriticalSection, HeldInv,
      Ctxs, Places, Critical, At, Runs, Goto, Return, ApiEntry, ring, locals, hw
<1>1. ASSUME NEW c \in Callers, NEW b \in Buffers, Enqueue(c, b) PROVE PlaceInv'
  <2>1. TypeOK'
    BY <1>1 DEF Enqueue
  <2>2. LockInv'
    BY <1>1 DEF Enqueue
  <2>3. BusyInv'
    BY <1>1 DEF Enqueue
  <2>4. CriticalSection'
    BY <1>1 DEF Enqueue
  <2>5. HeldInv'
    BY <1>1 DEF Enqueue
  <2> QED
    BY <2>1, <2>2, <2>3, <2>4, <2>5
<1>2. ASSUME NEW c \in Ctxs, FlushBegin(c) PROVE PlaceInv'
  <2>1. TypeOK'
    BY <1>2 DEF FlushBegin
  <2>2. LockInv'
    BY <1>2 DEF FlushBegin
  <2>3. BusyInv'
    BY <1>2 DEF FlushBegin
  <2>4. CriticalSection'
    BY <1>2 DEF FlushBegin
  <2>5. HeldInv'
    BY <1>2 DEF FlushBegin
  <2> QED
    BY <2>1, <2>2, <2>3, <2>4, <2>5
<1>3. ASSUME NEW c \in Ctxs, FlushEnter(c) PROVE PlaceInv'
  <2>1. TypeOK'
    BY <1>3 DEF FlushEnter
  <2>2. LockInv'
    BY <1>3 DEF FlushEnter
  <2>3. BusyInv'
    BY <1>3 DEF FlushEnter
  <2>4. CriticalSection'
    BY <1>3 DEF FlushEnter
  <2>5. HeldInv'
    BY <1>3 DEF FlushEnter
  <2> QED
    BY <2>1, <2>2, <2>3, <2>4, <2>5
<1>4. ASSUME NEW c \in Ctxs, TrbBulk(c) PROVE PlaceInv'
  <2>1. CASE fifo # <<>> /\ Room
    <3>1. Head(fifo) \in Buffers
      BY <2>1
    <3>2. TypeOK'
      <4>1. netbuf' \in [Slots -> Buffers \cup {NoBuf}] /\ hwo' \in [Slots -> BOOLEAN]
        <5>1. netbuf' = [netbuf EXCEPT ![head] = Head(fifo)]
          BY <1>4, <2>1 DEF TrbBulk
        <5>2. hwo' = [hwo EXCEPT ![head] = TRUE]
          BY <1>4, <2>1 DEF TrbBulk
        <5> QED
          BY <3>1, <5>1, <5>2
      <4>2. buf' \in [Ctxs -> Buffers \cup {NoBuf}] /\ pc' \in [Ctxs -> Places]
        BY <1>4, <2>1, <3>1 DEF TrbBulk
      <4> QED
        BY <1>4, <4>1, <4>2 DEF TrbBulk
    <3>3. LockInv' /\ BusyInv' /\ CriticalSection' /\ HeldInv'
      BY <1>4, <2>1, <3>1 DEF TrbBulk
    <3> QED
      BY <3>2, <3>3
  <2>2. CASE ~(fifo # <<>> /\ Room)
    BY <1>4, <2>2 DEF TrbBulk
  <2> QED
    BY <2>1, <2>2
<1>5. ASSUME NEW c \in Ctxs, PushAddr(c) PROVE PlaceInv'
  BY <1>5 DEF PushAddr
<1>6. ASSUME NEW c \in Ctxs, PushHead(c) PROVE PlaceInv'
  BY <1>6, RingIncInSlots DEF PushHead
<1>7. ASSUME NEW c \in Ctxs, PushFull(c) PROVE PlaceInv'
  BY <1>7 DEF PushFull
<1>8. ASSUME NEW c \in Ctxs, UpdateXfer(c) PROVE PlaceInv'
  BY <1>8 DEF UpdateXfer
<1>9. ASSUME NEW c \in Ctxs, BufGet(c) PROVE PlaceInv'
  BY <1>9 DEF BufGet
<1>10. ASSUME NEW c \in Ctxs, FlushLeave(c) PROVE PlaceInv'
  <2>1. TypeOK'
    BY <1>10 DEF FlushLeave
  <2>2. LockInv'
    BY <1>10 DEF FlushLeave
  <2>3. BusyInv'
    BY <1>10 DEF FlushLeave
  <2>4. CriticalSection'
    BY <1>10 DEF FlushLeave
  <2>5. HeldInv'
    BY <1>10 DEF FlushLeave
  <2> QED
    BY <2>1, <2>2, <2>3, <2>4, <2>5
<1>11. ASSUME NEW c \in Ctxs, FlushRecheck(c) PROVE PlaceInv'
  <2>1. TypeOK'
    BY <1>11 DEF FlushRecheck
  <2>2. LockInv'
    BY <1>11 DEF FlushRecheck
  <2>3. BusyInv'
    BY <1>11 DEF FlushRecheck
  <2>4. CriticalSection'
    BY <1>11 DEF FlushRecheck
  <2>5. HeldInv'
    BY <1>11 DEF FlushRecheck
  <2> QED
    BY <2>1, <2>2, <2>3, <2>4, <2>5
<1>12. CASE PopTrb
  <2>1. events' \in Nat
    BY <1>12 DEF PopTrb
  <2>2. tail' \in Slots /\ full' \in BOOLEAN
    BY <1>12, RingIncInSlots DEF PopTrb, PopFull
  <2>3. netbuf' \in [Slots -> Buffers \cup {NoBuf}] /\ buf' \in [Ctxs -> Buffers \cup {NoBuf}]
    BY <1>12 DEF PopTrb
  <2>4. pc' \in [Ctxs -> Places]
    BY <1>12 DEF PopTrb
  <2>5. TypeOK'
    BY <1>12, <2>1, <2>2, <2>3, <2>4 DEF PopTrb
  <2>6. LockInv' /\ BusyInv' /\ CriticalSection' /\ HeldInv'
    BY <1>12 DEF PopTrb
  <2> QED
    BY <2>5, <2>6
<1>13. CASE Submit
  BY <1>13 DEF Submit
<1>14. CASE Hw
  <2>1. hwo' \in [Slots -> BOOLEAN]
    BY <1>14 DEF Hw, HwFetch, HwStop, HwComplete
  <2>2. hwPos' \in Slots /\ hwState' \in {"off", "walk", "idle", "xfer"}
    BY <1>14, RingIncInSlots DEF Hw, HwFetch, HwStop, HwComplete
  <2>3. hwBuf' \in Buffers \cup {NoBuf} /\ events' \in Nat
    BY <1>14 DEF Hw, HwFetch, HwStop, HwComplete
  <2>4. UNCHANGED <<fifo, netbuf, addr, ring, busy, extra, halted, lock, pc, locals, app>>
    BY <1>14 DEF Hw, HwFetch, HwStop, HwComplete
  <2>5. TypeOK'
    BY <2>1, <2>2, <2>3, <2>4
  <2>6. LockInv' /\ BusyInv' /\ CriticalSection' /\ HeldInv'
    BY <2>4
  <2> QED
    BY <2>5, <2>6
<1>15. ASSUME NEW c \in Callers, EpDequeue(c) PROVE PlaceInv'
  BY <1>15 DEF EpDequeue, ToSet
<1>16. CASE UNCHANGED vars
  BY <1>16 DEF vars
<1> QED
  BY <1>1, <1>2, <1>3, <1>4, <1>5, <1>6, <1>7, <1>8, <1>9, <1>10, <1>11, <1>12, <1>13,
     <1>14, <1>15, <1>16 DEF Next, Transfer, Flush

\* Every variable keeps its type, whatever the ring size: the indices shared
\* with the controller never reach the LINK TRB (udc_dwc3.c:60-65).
THEOREM TypeCorrect == Spec => []TypeOK
<1>1. PlaceInv => TypeOK
  BY DEF PlaceInv
<1> QED
  BY <1>1, PlaceInit, PlaceStep, PTL DEF Spec

\* Two contexts are never in the critical section of the flush together,
\* for any number of callers and any choice of those that are preempted.
THEOREM MutualExclusion == Spec => []CriticalSection
<1>1. PlaceInv => CriticalSection
  BY DEF PlaceInv
<1> QED
  BY <1>1, PlaceInit, PlaceStep, PTL DEF Spec

-----------------------------------------------------------------------------
(* No lost wake-up                                                          *)

\* Someone still has to look at the fifo whenever the ring has room.
Attends(c) ==
    \/ pc[c] \in {"submit", "flush", "tas", "peek", "addr", "head", "full", "update", "get"}
    \/ extra /\ pc[c] \in {"leave", "recheck"}

\* The worker is refused only where its EXTRA_CHECK request is pending.
WakeInv ==
    /\ ~halted
    /\ fifo # <<>> /\ ~full => \E c \in Ctxs : Attends(c)
    /\ pc[Worker] = "tas" /\ busy => extra
    /\ pc[Worker] = "recheck" => ~busy

LEMMA WakeInit == Init => WakeInv
BY DEF Init, WakeInv, Ctxs

LEMMA WakeStep == PlaceInv /\ WakeInv /\ [Next]_vars => WakeInv'
<1> SUFFICES ASSUME PlaceInv, WakeInv, [Next]_vars PROVE WakeInv'
  OBVIOUS
<1> USE ContextAssumption DEF PlaceInv, TypeOK, LockInv, BusyInv, CriticalSection,
      WakeInv, Attends, Ctxs, Places, Critical, At, Runs, Goto, Return, ApiEntry, ring, locals, hw
<1>1. ASSUME NEW c \in Callers, NEW b \in Buffers, Enqueue(c, b) PROVE WakeInv'
  BY <1>1 DEF Enqueue
<1>2. ASSUME NEW c \in Ctxs, FlushBegin(c) PROVE WakeInv'
  BY <1>2 DEF FlushBegin
<1>3. ASSUME NEW c \in Ctxs, FlushEnter(c) PROVE WakeInv'
  <2>1. CASE ~busy
    BY <1>3, <2>1 DEF FlushEnter
  <2>2. CASE busy
    \* Only the worker is refused: callers hold the mutex, and run when the
    \* worker does not.
    <3>1. PICK d \in Ctxs : pc[d] \in Critical
      BY <2>2
    <3>2. c = Worker /\ d \in Callers
      BY <1>3, <3>1 DEF FlushEnter
    <3>3. extra /\ Attends(d)
      BY <1>3, <2>2, <3>1, <3>2 DEF FlushEnter
    <3> QED
      BY <1>3, <2>2, <3>1, <3>2, <3>3 DEF FlushEnter
  <2> QED
    BY <2>1, <2>2
<1>4. ASSUME NEW c \in Ctxs, TrbBulk(c) PROVE WakeInv'
  BY <1>4 DEF TrbBulk, Room
<1>5. ASSUME NEW c \in Ctxs, PushAddr(c) PROVE WakeInv'
  BY <1>5 DEF PushAddr
<1>6. ASSUME NEW c \in Ctxs, PushHead(c) PROVE WakeInv'
  BY <1>6 DEF PushHead
<1>7. ASSUME NEW c \in Ctxs, PushFull(c) PROVE WakeInv'
  BY <1>7 DEF PushFull
<1>8. ASSUME NEW c \in Ctxs, UpdateXfer(c) PROVE WakeInv'
  BY <1>8 DEF UpdateXfer
<1>9. ASSUME NEW c \in Ctxs, BufGet(c) PROVE WakeInv'
  BY <1>9 DEF BufGet
<1>10. ASSUME NEW c \in Ctxs, FlushLeave(c) PROVE WakeInv'
  BY <1>10 DEF FlushLeave
<1>11. ASSUME NEW c \in Ctxs, FlushRecheck(c) PROVE WakeInv'
  BY <1>11 DEF FlushRecheck
<1>12. CASE PopTrb
  BY <1>12 DEF PopTrb
<1>13. CASE Submit
  BY <1>13 DEF Submit
<1>14. CASE Hw
  BY <1>14 DEF Hw, HwFetch, HwStop, HwComplete
<1>15. ASSUME NEW c \in Callers, EpDequeue(c) PROVE WakeInv'
  BY <1>15 DEF EpDequeue
<1>16. CASE UNCHANGED vars
  BY <1>16 DEF vars
<1> QED
  BY <1>1, <1>2, <1>3, <1>4, <1>5, <1>6, <1>7, <1>8, <1>9, <1>10, <1>11, <1>12, <1>13,
     <1>14, <1>15, <1>16 DEF Next, Transfer, Flush

\* The BUSY and EXTRA_CHECK protocol loses no wake-up, however the worker
\* interrupts its callers (udc_dwc3.c:1321-1351).
THEOREM NoLostWakeup == Spec => []NoStranded
<1>1. WakeInv => NoStranded
  BY DEF WakeInv, NoStranded, Quiet, Attends
<1> QED
  BY <1>1, PlaceInit, PlaceStep, WakeInit, WakeStep, PTL DEF Spec

-----------------------------------------------------------------------------
(* The shape of the ring                                                    *)

Wrap(k) == IF k >= TrbNum - 1 THEN k - (TrbNum - 1) ELSE k

\* Moving the start by one is counting one slot less.
LEMMA WrapInc ==
    \A t \in Slots : \A k \in 1 .. TrbNum - 1 : Wrap(RingInc(t) + (k - 1)) = Wrap(t + k)
BY TrbNumAssumption DEF Wrap, RingInc, Slots

\* How far a slot is from the tail.
Off(i) == IF i >= tail THEN i - tail ELSE i - tail + (TrbNum - 1)

\* n TRBs are in use from the tail on: first those that completed, one event
\* each, then those the controller owns, up to the last slot.
RingShape(n) ==
    /\ events <= n
    /\ LastSlot = Wrap(tail + n)
    /\ hwPos = Wrap(tail + events)
    /\ \A i \in Slots : netbuf[i] # NoBuf <=> Off(i) < n
    /\ \A i \in Slots : hwo[i] <=> events <= Off(i) /\ Off(i) < n

\* A ring with no room left is flagged full, or is about to be.
FullInv(n) ==
    n = TrbNum - 1 =>
        /\ \A c \in Ctxs : pc[c] = "full" => seen[c]
        /\ full \/ \E c \in Ctxs : pc[c] \in {"addr", "head", "full"}

RingInv ==
    /\ \E n \in 0 .. TrbNum - 1 : RingShape(n) /\ FullInv(n)
    /\ hwState # "off"
    /\ hwState = "xfer" => hwo[hwPos]
    /\ pc[Worker] = "submit" => buf[Worker] # NoBuf

\* Steps that touch neither the ring nor the places where it is in between.
LEMMA RingFrame ==
    ASSUME RingInv,
           UNCHANGED <<netbuf, hwo, ring, seen, events, hwPos>>,
           \A c \in Ctxs : pc'[c] \in {"addr", "head"} <=> pc[c] \in {"addr", "head"},
           \A c \in Ctxs : pc'[c] = "full" <=> pc[c] = "full"
    PROVE  \E n \in 0 .. TrbNum - 1 : RingShape(n)' /\ FullInv(n)'
<1>1. PICK n \in 0 .. TrbNum - 1 : RingShape(n) /\ FullInv(n)
  BY DEF RingInv
<1>2. LastSlot' = LastSlot
  BY DEF LastSlot, Pushing, ring, RingInc
<1>3. RingShape(n)'
  BY <1>1, <1>2 DEF RingShape, Off, Wrap, ring
<1>4. FullInv(n)'
  BY <1>1 DEF FullInv, ring
<1> QED
  BY <1>3, <1>4

LEMMA RingInit == Init => RingInv
<1> SUFFICES ASSUME Init PROVE RingInv
  OBVIOUS
<1> USE TrbNumAssumption, ContextAssumption DEF Init
<1>1. ~Pushing
  BY DEF Pushing, Ctxs
<1>2. RingShape(0)
  BY <1>1 DEF RingShape, LastSlot, Wrap, Off, Slots
<1>3. FullInv(0)
  BY DEF FullInv
<1>4. 0 \in 0 .. TrbNum - 1
  OBVIOUS
<1> QED
  BY <1>2, <1>3, <1>4 DEF RingInv, Ctxs

LEMMA RingStep == PlaceInv /\ RingInv /\ [Next]_vars => RingInv'
<1> SUFFICES ASSUME PlaceInv, RingInv, [Next]_vars PROVE RingInv'
  OBVIOUS
<1> USE ContextAssumption DEF PlaceInv, TypeOK, Ctxs, Places, Critical, At, Goto, Return,
      ApiEntry, ring, locals, hw
<1>1. ASSUME NEW c \in Callers, NEW b \in Buffers, Enqueue(c, b) PROVE RingInv'
  BY <1>1, RingFrame DEF Enqueue, RingInv
<1>2. ASSUME NEW c \in Ctxs, FlushBegin(c) PROVE RingInv'
  BY <1>2, RingFrame DEF FlushBegin, RingInv
<1>3. ASSUME NEW c \in Ctxs, FlushEnter(c) PROVE RingInv'
  BY <1>3, RingFrame DEF FlushEnter, RingInv
<1>5. ASSUME NEW c \in Ctxs, PushAddr(c) PROVE RingInv'
  BY <1>5, RingFrame DEF PushAddr, RingInv
<1>8. ASSUME NEW c \in Ctxs, UpdateXfer(c) PROVE RingInv'
  BY <1>8, RingFrame DEF UpdateXfer, RingInv
<1>9. ASSUME NEW c \in Ctxs, BufGet(c) PROVE RingInv'
  BY <1>9, RingFrame DEF BufGet, RingInv
<1>10. ASSUME NEW c \in Ctxs, FlushLeave(c) PROVE RingInv'
  BY <1>10, RingFrame DEF FlushLeave, RingInv
<1>11. ASSUME NEW c \in Ctxs, FlushRecheck(c) PROVE RingInv'
  BY <1>11, RingFrame DEF FlushRecheck, RingInv
<1>13. CASE Submit
  BY <1>13, RingFrame DEF Submit, RingInv
<1>15. ASSUME NEW c \in Callers, EpDequeue(c) PROVE RingInv'
  BY <1>15, RingFrame DEF EpDequeue, RingInv
<1>16. CASE UNCHANGED vars
  BY <1>16, RingFrame DEF vars, RingInv
<1>17. CASE HwFetch
  BY <1>17, RingFrame DEF HwFetch, RingInv
<1>18. CASE HwStop
  BY <1>18, RingFrame DEF HwStop, RingInv
<1>4. ASSUME NEW c \in Ctxs, TrbBulk(c) PROVE RingInv'
  <2>1. CASE fifo # <<>> /\ Room
    \* The slot at the head, n slots after the tail, is free: n + 1 are in use.
    <3>1. PICK n \in 0 .. TrbNum - 1 : RingShape(n) /\ FullInv(n)
      BY DEF RingInv
    <3>2. \A d \in Ctxs : pc[d] \notin {"addr", "head", "full"}
      BY <1>4 DEF TrbBulk, CriticalSection
    <3>3. n + 1 \in 0 .. TrbNum - 1
      BY <2>1, <3>1, <3>2, TrbNumAssumption DEF FullInv, Room
    <3>4. LastSlot = head
      BY <3>2 DEF LastSlot, Pushing
    <3>5. /\ netbuf' = [netbuf EXCEPT ![head] = Head(fifo)]
          /\ hwo' = [hwo EXCEPT ![head] = TRUE]
          /\ pc' = [pc EXCEPT ![c] = "addr"]
          /\ UNCHANGED <<head, tail, events, hwPos, hwState>>
      BY <1>4, <2>1 DEF TrbBulk
    <3>6. LastSlot' = RingInc(head)
      BY <3>5 DEF LastSlot, Pushing, RingInc
    <3>7. Head(fifo) # NoBuf
      BY <2>1, BufferAssumption
    <3>8. RingShape(n + 1)'
      <4>1. LastSlot' = Wrap(tail + (n + 1))' /\ hwPos' = Wrap(tail + events)' /\ events' <= n + 1
        BY <3>1, <3>3, <3>4, <3>5, <3>6, TrbNumAssumption DEF RingShape, Wrap, RingInc, Slots
      <4>2. \A i \in Slots : Off(i)' = Off(i) /\ (Off(i) = n <=> i = head)
        <5>1. head = IF tail + n >= TrbNum - 1 THEN tail + n - (TrbNum - 1) ELSE tail + n
          BY <3>1, <3>4, TrbNumAssumption DEF RingShape, Wrap, Slots
        <5>2. \A i \in Slots : Off(i) = n <=> i = head
          BY <3>3, <5>1, TrbNumAssumption DEF Off, Slots
        <5> QED
          BY <3>5, <5>2 DEF Off
      <4>3. \A i \in Slots : netbuf'[i] # NoBuf <=> i = head \/ netbuf[i] # NoBuf
        BY <3>5, <3>7
      <4>4. \A i \in Slots : hwo'[i] <=> i = head \/ hwo[i]
        BY <3>5
      <4>5. \A i \in Slots : Off(i) \in Nat
        BY TrbNumAssumption DEF Off, Slots
      <4>6. \A i \in Slots : netbuf'[i] # NoBuf <=> Off(i)' < n + 1
        BY <3>1, <4>2, <4>3, <4>5 DEF RingShape
      <4>7. \A i \in Slots : hwo'[i] <=> events' <= Off(i)' /\ Off(i)' < n + 1
        BY <3>1, <3>5, <4>2, <4>4, <4>5 DEF RingShape
      <4> QED
        BY <4>1, <4>6, <4>7 DEF RingShape
    <3>9. FullInv(n + 1)'
      BY <3>2, <3>5 DEF FullInv
    <3> QED
      BY <1>4, <3>3, <3>5, <3>8, <3>9 DEF RingInv, TrbBulk
  <2>2. CASE ~(fifo # <<>> /\ Room)
    BY <1>4, <2>2, RingFrame DEF TrbBulk, RingInv
  <2> QED
    BY <2>1, <2>2
<1>6. ASSUME NEW c \in Ctxs, PushHead(c) PROVE RingInv'
  \* The head moves on to where the last slot already was.
  <2>1. PICK n \in 0 .. TrbNum - 1 : RingShape(n) /\ FullInv(n)
    BY DEF RingInv
  <2>2. LastSlot = RingInc(head)
    BY <1>6 DEF PushHead, LastSlot, Pushing
  <2>3. head' = RingInc(head) /\ seen'[c] = (head' = tail) /\ pc' = [pc EXCEPT ![c] = "full"]
    BY <1>6 DEF PushHead
  <2>4. \A d \in Ctxs : pc'[d] \notin {"addr", "head"} /\ (pc'[d] = "full" <=> d = c)
    BY <1>6, <2>3 DEF PushHead, CriticalSection
  <2>5. LastSlot' = LastSlot
    BY <2>2, <2>3, <2>4 DEF LastSlot, Pushing
  <2>6. RingShape(n)'
    BY <1>6, <2>1, <2>5 DEF PushHead, RingShape, Off, Wrap
  <2>7. n = TrbNum - 1 => LastSlot = tail
    BY <2>1, TrbNumAssumption DEF RingShape, Wrap, Slots
  <2>8. FullInv(n)'
    BY <2>2, <2>3, <2>4, <2>7 DEF FullInv
  <2> QED
    BY <1>6, <2>6, <2>8 DEF PushHead, RingInv
<1>7. ASSUME NEW c \in Ctxs, PushFull(c) PROVE RingInv'
  <2>1. PICK n \in 0 .. TrbNum - 1 : RingShape(n) /\ FullInv(n)
    BY DEF RingInv
  <2>2. \A d \in Ctxs : pc'[d] \notin {"addr", "head", "full"}
    BY <1>7 DEF PushFull, CriticalSection
  <2>3. \A d \in Ctxs : pc[d] \notin {"addr", "head"}
    BY <1>7 DEF PushFull, CriticalSection
  <2>4. LastSlot' = LastSlot
    BY <1>7, <2>2, <2>3 DEF PushFull, LastSlot, Pushing
  <2>5. RingShape(n)'
    BY <1>7, <2>1, <2>4 DEF PushFull, RingShape, Off, Wrap
  <2>6. FullInv(n)'
    BY <1>7, <2>1, <2>2 DEF PushFull, FullInv
  <2> QED
    BY <1>7, <2>5, <2>6 DEF PushFull, RingInv
<1>12. CASE PopTrb
  \* The tail moves past a completed TRB: n - 1 are left in use.
  <2>1. PICK n \in 0 .. TrbNum - 1 : RingShape(n) /\ FullInv(n)
    BY DEF RingInv
  <2>2. /\ events > 0 /\ events' = events - 1
        /\ netbuf' = [netbuf EXCEPT ![tail] = NoBuf]
        /\ tail' = RingInc(tail)
        /\ pc' = [pc EXCEPT ![Worker] = "submit"] /\ pc[Worker] = "idle"
        /\ buf'[Worker] = netbuf[tail]
        /\ UNCHANGED <<hwo, head, seen, hwPos, hwState>>
    BY <1>12 DEF PopTrb
  <2>3. n - 1 \in 0 .. TrbNum - 1
    BY <2>1, <2>2, TrbNumAssumption DEF RingShape
  <2>4. netbuf[tail] # NoBuf /\ ~hwo[tail]
    <3>1. Off(tail) = 0
      BY DEF Off, Slots
    <3> QED
      BY <2>1, <2>2, <2>3, <3>1 DEF RingShape
  <2>5. LastSlot' = LastSlot
    BY <2>2 DEF LastSlot, Pushing, RingInc
  <2>6. \A i \in Slots : i # tail => Off(i) > 0 /\ Off(i)' = Off(i) - 1
    BY <2>2, TrbNumAssumption DEF Off, RingInc, Slots
  <2>7. \A i \in Slots : i = tail => Off(i)' = TrbNum - 2
    BY <2>2, TrbNumAssumption DEF Off, RingInc, Slots
  <2>8. RingShape(n - 1)'
    <3>0. \A i \in Slots : Off(i) \in Nat
      BY TrbNumAssumption DEF Off, Slots
    <3>1. events' <= n - 1
      BY <2>1, <2>2 DEF RingShape
    <3>2. LastSlot' = Wrap(tail + (n - 1))'
      <4>1. Wrap(tail + (n - 1))' = Wrap(tail + n)
        <5>1. n \in 1 .. TrbNum - 1
          BY <2>1, <2>3, TrbNumAssumption
        <5> QED
          BY <2>2, <5>1, WrapInc
      <4> QED
        BY <2>1, <2>5, <4>1 DEF RingShape
    <3>3. hwPos' = Wrap(tail + events)'
      <4>1. Wrap(tail + events)' = Wrap(tail + events)
        <5>1. events \in 1 .. TrbNum - 1
          BY <2>1, <2>2, TrbNumAssumption DEF RingShape
        <5> QED
          BY <2>2, <5>1, WrapInc
      <4> QED
        BY <2>1, <2>2, <4>1 DEF RingShape
    <3>4. \A i \in Slots : netbuf'[i] # NoBuf <=> Off(i)' < n - 1
      <4> SUFFICES ASSUME NEW i \in Slots PROVE netbuf'[i] # NoBuf <=> Off(i)' < n - 1
        OBVIOUS
      <4>1. CASE i = tail
        <5>1. netbuf'[i] = NoBuf
          BY <2>2, <4>1
        <5>2. Off(i)' = TrbNum - 2
          BY <2>7, <4>1
        <5> QED
          BY <2>3, <5>1, <5>2, TrbNumAssumption
      <4>2. CASE i # tail
        <5>1. netbuf'[i] = netbuf[i]
          BY <2>2, <4>2
        <5>2. Off(i) > 0 /\ Off(i)' = Off(i) - 1 /\ Off(i) \in Nat
          BY <2>6, <3>0, <4>2
        <5>3. netbuf[i] # NoBuf <=> Off(i) < n
          BY <2>1 DEF RingShape
        <5> QED
          BY <2>1, <5>1, <5>2, <5>3
      <4> QED
        BY <4>1, <4>2
    <3>5. \A i \in Slots : hwo'[i] <=> events' <= Off(i)' /\ Off(i)' < n - 1
      <4> SUFFICES ASSUME NEW i \in Slots
                   PROVE  hwo'[i] <=> events' <= Off(i)' /\ Off(i)' < n - 1
        OBVIOUS
      <4>1. CASE i = tail
        <5>1. ~hwo'[i]
          BY <2>2, <2>4, <4>1
        <5>2. Off(i)' = TrbNum - 2
          BY <2>7, <4>1
        <5> QED
          BY <2>3, <5>1, <5>2, TrbNumAssumption
      <4>2. CASE i # tail
        <5>1. hwo'[i] = hwo[i] /\ events' = events - 1 /\ events \in Nat
          BY <2>2, <4>2
        <5>2. Off(i) > 0 /\ Off(i)' = Off(i) - 1 /\ Off(i) \in Nat
          BY <2>6, <3>0, <4>2
        <5>3. hwo[i] <=> events <= Off(i) /\ Off(i) < n
          BY <2>1 DEF RingShape
        <5> QED
          BY <2>1, <5>1, <5>2, <5>3
      <4> QED
        BY <4>1, <4>2
    <3> QED
      BY <3>1, <3>2, <3>3, <3>4, <3>5 DEF RingShape
  <2>9. FullInv(n - 1)'
    BY <2>3, TrbNumAssumption DEF FullInv
  <2> QED
    BY <2>2, <2>3, <2>4, <2>8, <2>9 DEF RingInv
<1>19. CASE HwComplete
  <2>1. PICK n \in 0 .. TrbNum - 1 : RingShape(n) /\ FullInv(n)
    BY DEF RingInv
  <2>2. hwo[hwPos]
    BY <1>19 DEF HwComplete, RingInv
  <2>3. /\ hwo' = [hwo EXCEPT ![hwPos] = FALSE]
        /\ hwPos' = RingInc(hwPos) /\ hwState' = "walk" /\ events' = events + 1
        /\ UNCHANGED <<netbuf, head, tail, full, pc, seen, buf>>
    BY <1>19 DEF HwComplete
  <2>4. events + 1 <= n
    BY <2>1, <2>2, TrbNumAssumption DEF RingShape, Off, Wrap, Slots
  <2>5. \A i \in Slots : Off(i)' = Off(i) /\ (Off(i) = events <=> i = hwPos)
    BY <2>1, <2>3, <2>4, TrbNumAssumption DEF RingShape, Off, Wrap, Slots
  <2>6. RingShape(n)'
    <3>1. LastSlot' = Wrap(tail + n)'
      BY <2>1, <2>3 DEF RingShape, LastSlot, Pushing, Wrap, RingInc
    <3>2. hwPos' = Wrap(tail + events)'
      BY <2>1, <2>3, <2>4, TrbNumAssumption DEF RingShape, Wrap, RingInc, Slots
    <3>3. \A i \in Slots : netbuf'[i] # NoBuf <=> Off(i)' < n
      BY <2>1, <2>3, <2>5 DEF RingShape
    <3>4. \A i \in Slots : Off(i) \in Nat
      BY TrbNumAssumption DEF Off, Slots
    <3>5. \A i \in Slots : hwo'[i] <=> events' <= Off(i)' /\ Off(i)' < n
      BY <2>1, <2>3, <2>5, <3>4 DEF RingShape
    <3> QED
      BY <2>3, <2>4, <3>1, <3>2, <3>3, <3>5 DEF RingShape
  <2>7. FullInv(n)'
    BY <2>1, <2>3 DEF FullInv
  <2> QED
    BY <2>3, <2>6, <2>7 DEF RingInv
<1> QED
  BY <1>1, <1>2, <1>3, <1>4, <1>5, <1>6, <1>7, <1>8, <1>9, <1>10, <1>11, <1>12, <1>13,
     <1>15, <1>16, <1>17, <1>18, <1>19 DEF Next, Transfer, Flush, Hw

LEMMA RingInvImpliesExact == PlaceInv /\ RingInv => RingExact
<1> SUFFICES ASSUME PlaceInv, RingInv, NEW i \in Slots
    PROVE netbuf[i] # NoBuf <=>
        \/ tail <= i /\ i < LastSlot
        \/ LastSlot < tail /\ (tail <= i \/ i < LastSlot)
        \/ tail = LastSlot /\ Occupied # {}
  BY DEF RingExact
<1> USE TrbNumAssumption DEF PlaceInv, TypeOK, Slots
<1>1. PICK n \in 0 .. TrbNum - 1 : RingShape(n)
  BY DEF RingInv
<1>2. netbuf[i] # NoBuf <=> Off(i) < n
  BY <1>1 DEF RingShape
<1>3. LastSlot = Wrap(tail + n)
  BY <1>1 DEF RingShape
<1>4. Off(tail) = 0
  BY DEF Off
<1>5. n = 0 => Occupied = {}
  BY <1>1 DEF Occupied, RingShape, Off
<1>6. n > 0 => Occupied # {}
  BY <1>1, <1>4 DEF Occupied, RingShape
<1>7. CASE n = 0
  BY <1>2, <1>3, <1>5, <1>7 DEF Off, Wrap
<1>8. CASE n = TrbNum - 1
  BY <1>2, <1>3, <1>6, <1>8 DEF Off, Wrap
<1>9. CASE 0 < n /\ n < TrbNum - 1
  BY <1>2, <1>3, <1>9 DEF Off, Wrap
<1> QED
  BY <1>7, <1>8, <1>9

\* The TRBs in use are those between the tail and the head, for every ring
\* size and every interleaving of pushes, pops and transfers.
THEOREM RingIsExact == Spec => []RingExact
BY PlaceInit, PlaceStep, RingInit, RingStep, RingInvImpliesExact, PTL DEF Spec

LEMMA RingInvImpliesPop == PlaceInv /\ RingInv => PopFindsBuffer
<1> SUFFICES ASSUME PlaceInv, RingInv, events > 0 PROVE netbuf[tail] # NoBuf /\ ~hwo[tail]
  BY DEF PopFindsBuffer, RingInv
<1> USE TrbNumAssumption DEF PlaceInv, TypeOK, Slots
<1>1. PICK n \in 0 .. TrbNum - 1 : RingShape(n)
  BY DEF RingInv
<1>2. Off(tail) = 0
  BY DEF Off
<1> QED
  BY <1>1, <1>2 DEF RingShape

\* Every completion event finds its buffer: the assertion of
\* dwc3_on_xfer_done_norm() (udc_dwc3.c:977) never fails.
THEOREM EveryPopFindsBuffer == Spec => []PopFindsBuffer
BY PlaceInit, PlaceStep, RingInit, RingStep, RingInvImpliesPop, PTL DEF Spec

LEMMA PushNeedsFreeSlot ==
    ASSUME PlaceInv, RingInv, NEW c \in Ctxs, pc[c] = "peek", Room
    PROVE  netbuf[head] = NoBuf
<1> USE TrbNumAssumption DEF PlaceInv, TypeOK, Slots
<1>1. PICK n \in 0 .. TrbNum - 1 : RingShape(n) /\ FullInv(n)
  BY DEF RingInv
<1>2. \A d \in Ctxs : pc[d] \notin {"addr", "head", "full"}
  BY DEF CriticalSection, Critical
<1>3. n < TrbNum - 1
  BY <1>1, <1>2 DEF FullInv, Room
<1>4. head = Wrap(tail + n)
  BY <1>1, <1>2 DEF RingShape, LastSlot, Pushing
<1>5. Off(head) = n
  BY <1>3, <1>4 DEF Off, Wrap
<1> QED
  BY <1>1, <1>5 DEF RingShape

\* No TRB is reused before its buffer went back: the assertion of
\* dwc3_push_trb() (udc_dwc3.c:75) says so, and the full flag, even set too
\* late or cleared too early, ensures it.
THEOREM NoTrbOverwritten == Spec => NoOverwrite
<1> DEFINE Kept == \A i \in Slots : netbuf'[i] # netbuf[i] => NoBuf \in {netbuf[i], netbuf'[i]}
<1>1. PlaceInv /\ RingInv /\ [Next]_vars => [Kept]_vars
  <2> SUFFICES ASSUME PlaceInv, RingInv, Next PROVE Kept
    OBVIOUS
  <2> USE DEF PlaceInv, TypeOK
  <2>1. ASSUME NEW c \in Ctxs, TrbBulk(c) PROVE Kept
    BY <2>1, PushNeedsFreeSlot DEF TrbBulk, At
  <2>2. CASE PopTrb
    BY <2>2 DEF PopTrb
  <2>3. CASE UNCHANGED netbuf
    BY <2>3
  <2> QED
    BY <2>1, <2>2, <2>3
    DEF Next, Transfer, Flush, Hw, Enqueue, FlushBegin, FlushEnter, PushAddr, PushHead, PushFull,
        UpdateXfer, BufGet, FlushLeave, FlushRecheck, Submit, HwFetch, HwStop, HwComplete, EpDequeue
<1> QED
  BY <1>1, PlaceInit, PlaceStep, RingInit, RingStep, PTL DEF Spec, NoOverwrite
=============================================================================
