-------------------------- MODULE Dwc3BulkRefinement --------------------------
(***************************************************************************)
(* Dwc3Bulk implements EndpointQueue, for every ring size, every set of    *)
(* buffers and every set of callers: whatever interrupts a push or a pop,  *)
(* the class sees one queue of buffers.                                    *)
(***************************************************************************)
EXTENDS Dwc3BulkProofs, FiniteSetTheorems, SequenceTheorems

-----------------------------------------------------------------------------
(* Sequences *)

LEMMA ConsTail ==
    ASSUME NEW S, NEW s \in Seq(S), s # <<>>
    PROVE  /\ <<Head(s)>> \in Seq(S) /\ Tail(s) \in Seq(S)
           /\ <<Head(s)>> \o Tail(s) = s
<1>1. Head(s) \in S /\ Head(s) = s[1] /\ Len(s) \in Nat \ {0}
  BY EmptySeq, HeadTailProperties
<1>2. /\ <<Head(s)>> \in Seq(S) /\ Len(<<Head(s)>>) = 1 /\ <<Head(s)>>[1] = s[1]
      /\ Tail(s) \in Seq(S) /\ Len(Tail(s)) = Len(s) - 1
      /\ \A i \in 1 .. Len(s) - 1 : Tail(s)[i] = s[i + 1]
  BY <1>1, HeadTailProperties
<1> DEFINE t == <<Head(s)>> \o Tail(s)
<1>3. t \in Seq(S) /\ Len(t) = Len(s)
      /\ \A i \in 1 .. Len(s) : t[i] = IF i <= 1 THEN <<Head(s)>>[i] ELSE Tail(s)[i - 1]
  BY <1>1, <1>2, ConcatProperties
<1>4. \A i \in 1 .. Len(s) : t[i] = s[i]
  BY <1>1, <1>2, <1>3
<1> QED
  BY <1>1, <1>2, <1>3, <1>4, SeqEqual

LEMMA ConsHeadTail ==
    ASSUME NEW S, NEW e \in S, NEW s \in Seq(S)
    PROVE  /\ <<e>> \in Seq(S)
           /\ <<e>> \o s # <<>> /\ Head(<<e>> \o s) = e /\ Tail(<<e>> \o s) = s
<1>1. <<e>> \in Seq(S) /\ Len(<<e>>) = 1 /\ <<e>>[1] = e /\ Len(s) \in Nat
  OBVIOUS
<1> DEFINE t == <<e>> \o s
<1>2. /\ t \in Seq(S) /\ Len(t) = 1 + Len(s)
      /\ \A i \in 1 .. 1 + Len(s) : t[i] = IF i <= 1 THEN <<e>>[i] ELSE s[i - 1]
  BY <1>1, ConcatProperties
<1>3. t # <<>> /\ Head(t) = e
  BY <1>1, <1>2
<1>4. Tail(t) \in Seq(S) /\ Len(Tail(t)) = Len(s) /\ \A i \in 1 .. Len(s) : Tail(t)[i] = t[i + 1]
  BY <1>1, <1>2, <1>3, HeadTailProperties
<1>5. \A i \in 1 .. Len(s) : Tail(t)[i] = s[i]
  BY <1>1, <1>2, <1>4
<1>6. Tail(t) = s
  BY <1>4, <1>5, SeqEqual
<1> QED
  BY <1>1, <1>3, <1>6

\* The two parts of a concatenation.
LEMMA ConcatParts ==
    ASSUME NEW S, NEW u \in Seq(S), NEW v \in Seq(S)
    PROVE  /\ Len(u) \in 0 .. Len(u \o v)
           /\ SubSeq(u \o v, 1, Len(u)) = u
           /\ SubSeq(u \o v, Len(u) + 1, Len(u \o v)) = v
<1> DEFINE w == u \o v
<1>1. /\ w \in Seq(S) /\ Len(w) = Len(u) + Len(v) /\ Len(u) \in Nat /\ Len(v) \in Nat
      /\ \A i \in 1 .. Len(u) + Len(v) : w[i] = IF i <= Len(u) THEN u[i] ELSE v[i - Len(u)]
  BY ConcatProperties
<1>2. \A i \in 1 .. Len(w) : w[i] \in S
  BY <1>1, ElementOfSeq
<1> HIDE DEF w
<1>3. SubSeq(w, 1, Len(u)) = u
  <2>1. /\ SubSeq(w, 1, Len(u)) \in Seq(S)
        /\ Len(SubSeq(w, 1, Len(u))) = Len(u)
        /\ \A i \in 1 .. Len(u) : SubSeq(w, 1, Len(u))[i] = w[i]
    <3>1. \A i \in 1 .. Len(u) : w[i] \in S
      BY <1>1, <1>2
    <3>2. /\ SubSeq(w, 1, Len(u)) \in Seq(S)
          /\ Len(SubSeq(w, 1, Len(u))) = IF 1 <= Len(u) THEN Len(u) - 1 + 1 ELSE 0
          /\ \A i \in 1 .. Len(u) - 1 + 1 : SubSeq(w, 1, Len(u))[i] = w[1 + i - 1]
      BY <1>1, <3>1, SubSeqProperties
    <3> QED
      BY <1>1, <3>2
  <2>2. \A i \in 1 .. Len(u) : SubSeq(w, 1, Len(u))[i] = u[i]
    BY <1>1, <2>1
  <2> QED
    BY <2>1, <2>2, SeqEqual
<1>4. SubSeq(w, Len(u) + 1, Len(w)) = v
  <2>1. PICK m \in Nat : m = Len(u) + 1
    BY <1>1
  <2>2. PICK z : z = SubSeq(w, m, Len(w))
    OBVIOUS
  <2>3. \A i \in m .. Len(w) : w[i] \in S
    BY <1>1, <1>2, <2>1
  <2>4. /\ z \in Seq(S)
        /\ Len(z) = IF m <= Len(w) THEN Len(w) - m + 1 ELSE 0
        /\ \A i \in 1 .. Len(w) - m + 1 : z[i] = w[m + i - 1]
    BY <1>1, <2>1, <2>2, <2>3, SubSeqProperties
  <2>5. Len(z) = Len(v) /\ 1 .. Len(w) - m + 1 = 1 .. Len(v)
    <3>1. Len(w) - m + 1 = Len(v) /\ (m <= Len(w) <=> Len(v) # 0)
      BY <1>1, <2>1
    <3> QED
      BY <1>1, <2>4, <3>1
  <2>6. ASSUME NEW i \in 1 .. Len(v) PROVE w[m + i - 1] = v[i]
    <3>1. PICK k \in Int : k = m + i - 1
      BY <2>1
    <3>2. k \in 1 .. Len(w) /\ ~(k <= Len(u)) /\ k - Len(u) = i
      BY <1>1, <2>1, <3>1
    <3>3. w[k] = v[i]
      BY <1>1, <3>2
    <3> QED
      BY <3>1, <3>3
  <2>7. ASSUME NEW i \in 1 .. Len(v) PROVE z[i] = v[i]
    <3>1. i \in 1 .. Len(w) - m + 1
      BY <2>5, Zenon
    <3>2. z[i] = w[m + i - 1]
      BY <2>4, <3>1
    <3> QED
      BY <2>6, <3>2
  <2>8. z = v
    BY <1>1, <2>4, <2>5, <2>7, SeqEqual
  <2> QED
    BY <2>1, <2>2, <2>8
<1> QED
  BY <1>1, <1>3, <1>4 DEF w

LEMMA ConcatRegroups ==
    \A a, b, c \in Seq(Buffers) : (a \o b) \o c = a \o (b \o c)
BY ConcatAssociative

\* A buffer that goes from the head of one part to the end of the other.
LEMMA MovedOver ==
    ASSUME NEW p \in Seq(Buffers), NEW r \in Seq(Buffers), NEW f \in Seq(Buffers), f # <<>>
    PROVE  (p \o Append(r, Head(f))) \o Tail(f) = (p \o r) \o f
<1>1. PICK h \in Seq(Buffers), t \in Seq(Buffers) : h = <<Head(f)>> /\ t = Tail(f) /\ h \o t = f
  BY ConsTail
<1>2. Append(r, Head(f)) = r \o h
  BY <1>1, HeadTailProperties, AppendIsConcat
<1>3. PICK q \in Seq(Buffers) : q = p \o r
  BY ConcatProperties
<1>4. q \o h = p \o (r \o h)
  <2>1. \A a, b, c \in Seq(Buffers) : (a \o b) \o c = a \o (b \o c)
    BY ConcatRegroups
  <2>2. (p \o r) \o h = p \o (r \o h)
    BY <1>3, <2>2
  <2> QED
    BY <1>3, <2>2, Zenon
<1>5. (q \o h) \o t = q \o (h \o t)
  <2>1. \A a, b, c \in Seq(Buffers) : (a \o b) \o c = a \o (b \o c)
    BY ConcatRegroups
  <2>2. q \in Seq(Buffers) /\ h \in Seq(Buffers) /\ t \in Seq(Buffers)
    BY <1>1, <1>3
  <2> QED
    BY <2>1, <2>2, Zenon
<1>6. p \o Append(r, Head(f)) = q \o h
  BY <1>2, <1>4
<1>7. (p \o r) \o f = q \o (h \o t)
  BY <1>1, <1>3
<1> QED
  BY <1>1, <1>5, <1>6, <1>7

-----------------------------------------------------------------------------
(* The ring as a sequence *)

LEMMA ModIsWrap ==
    \A t \in Slots : \A k \in 1 .. TrbNum - 1 : (t + k - 1) % (TrbNum - 1) = Wrap(t + (k - 1))
<1> SUFFICES ASSUME NEW t \in Slots, NEW k \in 1 .. TrbNum - 1
             PROVE  (t + k - 1) % (TrbNum - 1) = Wrap(t + (k - 1))
  OBVIOUS
<1> DEFINE x == t + k - 1  m == TrbNum - 1
<1>1. x \in 0 .. 2 * m - 1 /\ m \in Nat /\ m >= 2 /\ x = t + (k - 1)
  BY TrbNumAssumption DEF Slots
<1>2. x % m = IF x >= m THEN x - m ELSE x
  <2> HIDE DEF x, m
  <2>1. CASE x < m
    BY <1>1, <2>1
  <2>2. CASE x >= m
    BY <1>1, <2>2
  <2> QED
    BY <1>1, <2>1, <2>2
<1> QED
  BY <1>1, <1>2 DEF Wrap

\* The slots from the tail on, in their order.
LEMMA WrapOff ==
    ASSUME tail \in Slots
    PROVE  /\ \A k \in 1 .. TrbNum - 1 : Wrap(tail + (k - 1)) \in Slots
                                         /\ Off(Wrap(tail + (k - 1))) = k - 1
           /\ \A i \in Slots : Off(i) \in 0 .. TrbNum - 2 /\ Wrap(tail + Off(i)) = i
<1> USE TrbNumAssumption DEF Wrap, Off, Slots
<1>1. \A k \in 1 .. TrbNum - 1 : Wrap(tail + (k - 1)) \in Slots
                                         /\ Off(Wrap(tail + (k - 1))) = k - 1
  OBVIOUS
<1>2. \A i \in Slots : Off(i) \in 0 .. TrbNum - 2 /\ Wrap(tail + Off(i)) = i
  OBVIOUS
<1> QED
  BY <1>1, <1>2

LEMMA OccupiedCount ==
    ASSUME tail \in Slots, NEW n \in 0 .. TrbNum - 1, RingShape(n)
    PROVE  IsFiniteSet(Occupied) /\ Cardinality(Occupied) = n
<1> DEFINE f == [k \in 1 .. n |-> Wrap(tail + (k - 1))]
<1>1. \A k \in 1 .. n : k \in 1 .. TrbNum - 1 /\ n \in Nat
  BY TrbNumAssumption
<1>2. \A k \in 1 .. n : f[k] \in Occupied /\ Off(f[k]) = k - 1
  BY <1>1, WrapOff DEF RingShape, Occupied
<1>3. \A i \in Occupied : Off(i) + 1 \in 1 .. n /\ f[Off(i) + 1] = i
  BY WrapOff, TrbNumAssumption DEF RingShape, Occupied
<1>4. f \in Bijection(1 .. n, Occupied)
  <2>1. f \in [1 .. n -> Occupied]
    BY <1>2
  <2>2. \A j, k \in 1 .. n : f[j] = f[k] => j = k
    BY <1>2, TrbNumAssumption
  <2>3. \A i \in Occupied : \E k \in 1 .. n : f[k] = i
    BY <1>3
  <2> HIDE DEF f
  <2> QED
    BY <2>1, <2>2, <2>3 DEF Bijection, Injection, Surjection, IsInjective
<1>5. ExistsBijection(1 .. n, Occupied)
  BY <1>4 DEF ExistsBijection
<1>6. n \in Int /\ IsFiniteSet(1 .. n) /\ Cardinality(1 .. n) = n
  <2>1. n \in Int /\ n >= 0
    BY TrbNumAssumption
  <2> QED
    BY <2>1, FS_Interval
<1> QED
  BY <1>5, <1>6, FS_Bijection

\* The buffers of n TRBs from the tail on.
RingSeq(n) == [k \in 1 .. n |-> netbuf[Wrap(tail + (k - 1))]]

LEMMA RingSeqType ==
    ASSUME TypeOK, NEW n \in 0 .. TrbNum - 1, RingShape(n)
    PROVE  /\ RingSeq(n) \in Seq(Buffers) /\ Len(RingSeq(n)) = n /\ n \in Nat
           /\ \A k \in 1 .. n : RingSeq(n)[k] = netbuf[Wrap(tail + (k - 1))]
<1>1. tail \in Slots /\ netbuf \in [Slots -> Buffers \cup {NoBuf}]
  BY DEF TypeOK
<1>2. \A k \in 1 .. n : netbuf[Wrap(tail + (k - 1))] \in Buffers
  <2> TAKE k \in 1 .. n
  <2>1. k \in 1 .. TrbNum - 1 /\ k - 1 < n
    BY TrbNumAssumption
  <2> QED
    BY <1>1, <2>1, WrapOff DEF RingShape
<1>3. n \in Nat
  BY TrbNumAssumption
<1> QED
  BY <1>2, <1>3 DEF RingSeq

LEMMA RingFromTail ==
    TypeOK => \A n \in 0 .. TrbNum - 1 : RingShape(n) => RingFrom(tail) = RingSeq(n)
<1> SUFFICES ASSUME TypeOK, NEW n \in 0 .. TrbNum - 1, RingShape(n)
             PROVE  RingFrom(tail) = RingSeq(n)
  OBVIOUS
<1>1. tail \in Slots
  BY DEF TypeOK
<1>2. Cardinality(Occupied) = n
  BY <1>1, OccupiedCount
<1>3. \A k \in 1 .. n : (tail + k - 1) % (TrbNum - 1) = Wrap(tail + (k - 1))
  <2>1. \A k \in 1 .. n : k \in 1 .. TrbNum - 1
    BY TrbNumAssumption
  <2> QED
    BY <1>1, <2>1, ModIsWrap
<1> QED
  BY <1>2, <1>3 DEF RingFrom, RingSeq

LEMMA RingFromTailNext ==
    (TypeOK => \A n \in 0 .. TrbNum - 1 : RingShape(n) => RingFrom(tail) = RingSeq(n))'
BY RingFromTail, PTL

-----------------------------------------------------------------------------
(* The view of the class *)

\* What QueueView is made of, besides the ring: the buffer that the worker has
\* popped, and the buffers with no TRB.
Popped  == IF pc[Worker] = "submit" THEN <<buf[Worker]>> ELSE <<>>
Waiting == IF Moving THEN Tail(fifo) ELSE fifo

Inv == PlaceInv /\ RingInv

LEMMA ViewParts ==
    ASSUME Inv
    PROVE  /\ Popped \in Seq(Buffers) /\ Waiting \in Seq(Buffers)
           /\ fifo \in Seq(Buffers) /\ TypeOK
           /\ Moving => fifo # <<>>
<1>1. TypeOK /\ fifo \in Seq(Buffers) /\ buf \in [Ctxs -> Buffers \cup {NoBuf}] /\ Worker \in Ctxs
  BY DEF Inv, PlaceInv, TypeOK, Ctxs
<1>2. Popped \in Seq(Buffers)
  <2>1. CASE pc[Worker] = "submit"
    <3>1. buf[Worker] \in Buffers
      BY <1>1, <2>1 DEF Inv, RingInv
    <3> QED
      BY <2>1, <3>1 DEF Popped
  <2>2. CASE pc[Worker] # "submit"
    BY <2>2, EmptySeq DEF Popped
  <2> QED
    BY <2>1, <2>2
<1>3. Moving => fifo # <<>>
  BY DEF Moving, Inv, PlaceInv, HeldInv
<1>4. Waiting \in Seq(Buffers)
  BY <1>1, <1>3, HeadTailProperties DEF Waiting
<1> QED
  BY <1>1, <1>2, <1>3, <1>4

LEMMA ViewIs ==
    Inv => \A n \in 0 .. TrbNum - 1 : RingShape(n) =>
        /\ QueueView = (Popped \o RingSeq(n)) \o Waiting
        /\ RingSeq(n) \in Seq(Buffers) /\ QueueView \in Seq(Buffers)
<1> SUFFICES ASSUME Inv, NEW n \in 0 .. TrbNum - 1, RingShape(n)
             PROVE  /\ QueueView = (Popped \o RingSeq(n)) \o Waiting
                    /\ RingSeq(n) \in Seq(Buffers) /\ QueueView \in Seq(Buffers)
  OBVIOUS
<1>1. Popped \in Seq(Buffers) /\ Waiting \in Seq(Buffers) /\ TypeOK
  BY ViewParts
<1>2. RingFrom(tail) = RingSeq(n) /\ RingSeq(n) \in Seq(Buffers)
  BY <1>1, RingFromTail, RingSeqType
<1>3. QueueView = (Popped \o RingSeq(n)) \o Waiting
  BY <1>2 DEF QueueView, Popped, Waiting
<1>4. Popped \o RingSeq(n) \in Seq(Buffers)
  BY <1>1, <1>2, ConcatProperties
<1>5. (Popped \o RingSeq(n)) \o Waiting \in Seq(Buffers)
  BY <1>1, <1>4, ConcatProperties
<1> QED
  BY <1>2, <1>3, <1>5

LEMMA ViewIsNext ==
    (Inv => \A n \in 0 .. TrbNum - 1 : RingShape(n) =>
        /\ QueueView = (Popped \o RingSeq(n)) \o Waiting
        /\ RingSeq(n) \in Seq(Buffers) /\ QueueView \in Seq(Buffers))'
BY ViewIs, PTL

\* Steps that only move a context on, or the controller.
LEMMA ViewKept ==
    ASSUME UNCHANGED <<netbuf, tail>>, Popped' = Popped, Waiting' = Waiting
    PROVE  QueueView' = QueueView
<1>1. Occupied' = Occupied
  BY DEF Occupied
<1>2. RingFrom(tail)' = RingFrom(tail)
  BY <1>1 DEF RingFrom
<1>3. QueueView = (Popped \o RingFrom(tail)) \o Waiting
  BY DEF QueueView, Popped, Waiting
<1>4. QueueView' = (Popped' \o RingFrom(tail)') \o Waiting'
  BY DEF QueueView, Popped, Waiting
<1> QED
  BY <1>2, <1>3, <1>4

Movers == {"addr", "head", "full", "update", "get"}

LEMMA StepKept ==
    ASSUME Inv, NEW c \in Ctxs, NEW x, Goto(c, x), pc[c] \in Movers <=> x \in Movers,
           c # Worker \/ (pc[c] # "submit" /\ x # "submit"),
           UNCHANGED <<fifo, netbuf, tail>>, buf' = buf \/ pc[Worker] # "submit"
    PROVE  QueueView' = QueueView
<1>1. pc \in [Ctxs -> Places] /\ pc' = [pc EXCEPT ![c] = x] /\ Worker \in Ctxs
  BY DEF Inv, PlaceInv, TypeOK, Goto, Ctxs
<1>2. Moving' <=> Moving
  BY <1>1 DEF Moving, Movers
<1>3. Popped' = Popped
  BY <1>1 DEF Popped
<1>4. Waiting' = Waiting
  BY <1>2 DEF Waiting
<1> QED
  BY <1>3, <1>4, ViewKept

\* The number of TRBs in use, before and after a step.
LEMMA CountIs ==
    Inv => \A n \in 0 .. TrbNum - 1 : RingShape(n) => IsFiniteSet(Occupied) /\ Cardinality(Occupied) = n
BY OccupiedCount DEF Inv, PlaceInv, TypeOK

LEMMA CountIsNext ==
    (Inv => \A n \in 0 .. TrbNum - 1 : RingShape(n) => IsFiniteSet(Occupied) /\ Cardinality(Occupied) = n)'
BY CountIs, PTL

\* A caller that enters the driver finds nobody there.
LEMMA EntryAlone ==
    ASSUME Inv, NEW c, ApiEntry(c)
    PROVE  ~Moving /\ Popped = <<>> /\ pc[Worker] = "idle" /\ pc[c] = "idle" /\ c \in Ctxs
<1>1. \A d \in Callers : pc[d] = "idle"
  BY ContextAssumption DEF Inv, PlaceInv, LockInv, ApiEntry
<1>2. pc[Worker] = "idle" /\ c \in Callers
  BY ContextAssumption DEF ApiEntry, At, Runs
<1> QED
  BY <1>1, <1>2 DEF Moving, Popped, Ctxs

LEMMA EnqueueSubmits ==
    ASSUME Inv, NEW c \in Callers, NEW b \in Buffers, Enqueue(c, b)
    PROVE  Abstract!Submit(b)
<1>1. /\ ~Moving /\ Popped = <<>> /\ c \in Ctxs /\ pc[Worker] = "idle" /\ Worker \in Ctxs
      /\ pc \in [Ctxs -> Places] /\ c # Worker
  BY EntryAlone, ContextAssumption DEF Enqueue, Inv, PlaceInv, TypeOK, Ctxs
<1>2. /\ pc' = [pc EXCEPT ![c] = "flush"] /\ fifo' = Append(fifo, b)
      /\ UNCHANGED <<netbuf, tail, buf>>
      /\ app' = app \ {b} /\ b \in app
  BY DEF Enqueue, Goto, ring, locals
<1>3. ~Moving' /\ Popped' = <<>>
  BY <1>1, <1>2 DEF Moving, Popped
<1>4. PICK n \in 0 .. TrbNum - 1 : RingShape(n)
  BY DEF Inv, RingInv
<1>5. QueueView = (<<>> \o RingSeq(n)) \o fifo /\ RingSeq(n) \in Seq(Buffers) /\ fifo \in Seq(Buffers)
  BY <1>1, <1>4, ViewIs, ViewParts DEF Waiting
<1>6. Occupied' = Occupied
  BY <1>2 DEF Occupied
<1>7. RingFrom(tail)' = RingFrom(tail)
  BY <1>2, <1>6 DEF RingFrom
<1>8. RingFrom(tail) = RingSeq(n)
  BY <1>4, RingFromTail DEF Inv, PlaceInv
<1>9. QueueView' = (<<>> \o RingSeq(n)) \o Append(fifo, b)
  <2>1. QueueView' = (Popped' \o RingFrom(tail)') \o Waiting'
    BY DEF QueueView, Popped, Waiting
  <2> QED
    BY <1>2, <1>3, <1>7, <1>8, <2>1 DEF Waiting
<1>10. PICK u \in Seq(Buffers) : u = <<>> \o RingSeq(n)
  BY <1>5, ConcatEmptySeq
<1>11. u \o Append(fifo, b) = Append(u \o fifo, b)
  <2>0. <<b>> \in Seq(Buffers)
    OBVIOUS
  <2>1. PICK e \in Seq(Buffers) : e = <<b>>
    BY <2>0
  <2>2. Append(fifo, b) = fifo \o e /\ u \o fifo \in Seq(Buffers)
    BY <1>5, <2>1, AppendIsConcat, ConcatProperties
  <2>3. Append(u \o fifo, b) = (u \o fifo) \o e
    BY <2>1, <2>2, AppendIsConcat
  <2>4. (u \o fifo) \o e = u \o (fifo \o e)
    BY <1>5, ConcatAssociative
  <2> QED
    BY <2>2, <2>3, <2>4
<1> QED
  BY <1>2, <1>5, <1>9, <1>10, <1>11 DEF Abstract!Submit

LEMMA PushMoves ==
    ASSUME Inv, Inv', NEW c \in Ctxs, TrbBulk(c), fifo # <<>> /\ Room
    PROVE  UNCHANGED <<QueueView, app>>
<1> USE TrbNumAssumption
<1>1. /\ pc \in [Ctxs -> Places] /\ buf \in [Ctxs -> Buffers \cup {NoBuf}] /\ Worker \in Ctxs
      /\ netbuf \in [Slots -> Buffers \cup {NoBuf}] /\ head \in Slots /\ tail \in Slots
      /\ fifo \in Seq(Buffers) /\ TypeOK /\ CriticalSection
  BY DEF Inv, PlaceInv, TypeOK, Ctxs
<1>2. /\ pc[c] = "peek" /\ pc' = [pc EXCEPT ![c] = "addr"]
      /\ buf' = [buf EXCEPT ![c] = Head(fifo)]
      /\ netbuf' = [netbuf EXCEPT ![head] = Head(fifo)]
      /\ UNCHANGED <<fifo, head, tail, app>>
  BY DEF TrbBulk, At, Goto, ring
<1>3. \A d \in Ctxs : d # c => pc[d] \notin Critical
  BY <1>1, <1>2 DEF CriticalSection, Critical
<1>4. ~Moving /\ ~Pushing
  BY <1>2, <1>3 DEF Moving, Pushing, Critical
<1>5. Moving'
  BY <1>1, <1>2 DEF Moving
<1>6. Popped' = Popped
  BY <1>1, <1>2 DEF Popped
<1>7. PICK n \in 0 .. TrbNum - 1 : RingShape(n)
  BY DEF Inv, RingInv
<1>8. PICK m \in 0 .. TrbNum - 1 : RingShape(m)'
  BY DEF Inv, RingInv
<1>9. netbuf[head] = NoBuf /\ Head(fifo) \in Buffers /\ Head(fifo) # NoBuf
  BY <1>1, <1>2, PushNeedsFreeSlot, HeadTailProperties, BufferAssumption DEF Inv
<1>10. m = n + 1
  <2>1. Occupied' = Occupied \cup {head} /\ head \notin Occupied
    BY <1>1, <1>2, <1>9 DEF Occupied
  <2>2. IsFiniteSet(Occupied) /\ Cardinality(Occupied) = n /\ Cardinality(Occupied') = m
    BY <1>7, <1>8, CountIs, CountIsNext
  <2> QED
    BY <2>1, <2>2, FS_AddElement
<1>11. head = Wrap(tail + n)
  BY <1>4, <1>7 DEF RingShape, LastSlot
<1>12. /\ QueueView = (Popped \o RingSeq(n)) \o fifo
       /\ QueueView' = (Popped \o RingSeq(m)') \o Tail(fifo)
       /\ RingSeq(m)' \in Seq(Buffers)
       /\ Popped \in Seq(Buffers)
  BY <1>2, <1>4, <1>5, <1>6, <1>7, <1>8, ViewIs, ViewIsNext, ViewParts DEF Waiting
<1>13. /\ RingSeq(n) \in Seq(Buffers) /\ Len(RingSeq(n)) = n /\ n \in Nat
       /\ \A k \in 1 .. n : RingSeq(n)[k] = netbuf[Wrap(tail + (k - 1))]
  BY <1>1, <1>7, RingSeqType
<1>14. RingSeq(m)' = [k \in 1 .. n + 1 |-> netbuf'[Wrap(tail + (k - 1))]]
  BY <1>2, <1>10 DEF RingSeq, Wrap
<1>15. RingSeq(m)' = Append(RingSeq(n), Head(fifo))
  <2>1. \A k \in 1 .. n : netbuf'[Wrap(tail + (k - 1))] = RingSeq(n)[k]
    <3> TAKE k \in 1 .. n
    <3>1. k \in 1 .. TrbNum - 1 /\ n + 1 \in 1 .. TrbNum - 1 /\ (n + 1) - 1 = n
      BY <1>10
    <3>2. Wrap(tail + (k - 1)) \in Slots /\ Off(Wrap(tail + (k - 1))) = k - 1 /\ Off(head) = n
      BY <1>1, <1>11, <3>1, WrapOff
    <3>3. Wrap(tail + (k - 1)) # head
      BY <3>2
    <3> QED
      BY <1>1, <1>2, <1>13, <3>2, <3>3
  <2>2. netbuf'[Wrap(tail + n)] = Head(fifo)
    BY <1>1, <1>2, <1>11
  <2> DEFINE r == RingSeq(n)  a == Append(r, Head(fifo))  z == RingSeq(m)'
  <2>3. a \in Seq(Buffers) /\ Len(a) = n + 1 /\ a[n + 1] = Head(fifo) /\ \A k \in 1 .. n : a[k] = r[k]
    BY <1>9, <1>13, AppendProperties
  <2>4. z \in Seq(Buffers) /\ Len(z) = n + 1 /\ \A k \in 1 .. n + 1 : z[k] = netbuf'[Wrap(tail + (k - 1))]
    <3>1. n + 1 \in Nat
      BY <1>13
    <3> QED
      BY <1>12, <1>14, <3>1
  <2>5. \A k \in 1 .. n + 1 : z[k] = a[k]
    <3> TAKE k \in 1 .. n + 1
    <3> HIDE DEF a, z
    <3>1. CASE k = n + 1
      <4>1. tail + (k - 1) = tail + n
        BY <1>1, <1>13, <3>1
      <4> QED
        BY <2>2, <2>3, <2>4, <3>1, <4>1
    <3>2. CASE k # n + 1
      <4>1. k \in 1 .. n
        BY <1>13, <3>2
      <4> QED
        BY <2>1, <2>3, <2>4, <4>1
    <3> QED
      BY <3>1, <3>2
  <2> HIDE DEF a, z, r
  <2>6. z = a
    BY <2>3, <2>4, <2>5, SeqEqual
  <2> QED
    BY <2>6 DEF a, z, r
<1>16. (Popped \o Append(RingSeq(n), Head(fifo))) \o Tail(fifo) = (Popped \o RingSeq(n)) \o fifo
  <2>1. Popped \in Seq(Buffers) /\ RingSeq(n) \in Seq(Buffers) /\ fifo \in Seq(Buffers)
    BY <1>1, <1>12, <1>13
  <2>2. fifo # <<>>
    OBVIOUS
  <2> HIDE DEF Popped
  <2>3. PICK p, r : p = Popped /\ r = RingSeq(n)
    OBVIOUS
  <2>4. (p \o Append(r, Head(fifo))) \o Tail(fifo) = (p \o r) \o fifo
    <3>1. p \in Seq(Buffers) /\ r \in Seq(Buffers) /\ fifo \in Seq(Buffers)
      BY <2>1, <2>3
    <3> QED
      BY ONLY <2>2, <3>1, MovedOver
  <2> QED
    BY <2>3, <2>4, Zenon
<1> QED
  BY <1>2, <1>12, <1>15, <1>16

LEMMA PopMoves ==
    ASSUME Inv, Inv', PopTrb
    PROVE  UNCHANGED <<QueueView, app>>
<1> USE TrbNumAssumption
<1>1. /\ pc \in [Ctxs -> Places] /\ buf \in [Ctxs -> Buffers \cup {NoBuf}] /\ Worker \in Ctxs
      /\ netbuf \in [Slots -> Buffers \cup {NoBuf}] /\ tail \in Slots /\ TypeOK /\ PopFindsBuffer
  BY RingInvImpliesPop DEF Inv, PlaceInv, TypeOK, Ctxs
<1>2. /\ pc[Worker] = "idle" /\ pc' = [pc EXCEPT ![Worker] = "submit"]
      /\ buf' = [buf EXCEPT ![Worker] = netbuf[tail]]
      /\ netbuf' = [netbuf EXCEPT ![tail] = NoBuf]
      /\ tail' = RingInc(tail) /\ events > 0
      /\ UNCHANGED <<fifo, app>>
  BY DEF PopTrb, At, Goto
<1>3. netbuf[tail] \in Buffers
  BY <1>1, <1>2 DEF PopFindsBuffer
<1>4. Waiting' = Waiting
  BY <1>1, <1>2 DEF Waiting, Moving
<1>5. Popped = <<>> /\ Popped' = <<netbuf[tail]>>
  BY <1>1, <1>2 DEF Popped
<1>6. PICK n \in 0 .. TrbNum - 1 : RingShape(n)
  BY DEF Inv, RingInv
<1>7. PICK m \in 0 .. TrbNum - 1 : RingShape(m)'
  BY DEF Inv, RingInv
<1>8. m = n - 1
  <2>1. Occupied' = Occupied \ {tail} /\ tail \in Occupied
    BY <1>1, <1>2, <1>3, BufferAssumption DEF Occupied
  <2>2. IsFiniteSet(Occupied) /\ Cardinality(Occupied) = n /\ Cardinality(Occupied') = m
    BY <1>6, <1>7, CountIs, CountIsNext
  <2> QED
    BY <2>1, <2>2, FS_RemoveElement
<1>9. /\ RingSeq(n) \in Seq(Buffers) /\ Len(RingSeq(n)) = n /\ n \in Nat
      /\ \A k \in 1 .. n : RingSeq(n)[k] = netbuf[Wrap(tail + (k - 1))]
  BY <1>1, <1>6, RingSeqType
<1>10. /\ QueueView = (<<>> \o RingSeq(n)) \o Waiting
       /\ QueueView' = (<<netbuf[tail]>> \o RingSeq(m)') \o Waiting
       /\ RingSeq(m)' \in Seq(Buffers)
  BY <1>4, <1>5, <1>6, <1>7, ViewIs, ViewIsNext
<1>11. RingSeq(m)' = [k \in 1 .. n - 1 |-> netbuf'[Wrap(tail' + (k - 1))]]
  BY <1>8 DEF RingSeq, Wrap
<1>12. n >= 1 /\ RingSeq(n) # <<>> /\ Head(RingSeq(n)) = netbuf[tail]
  <2>1. n >= 1
    BY <1>7, <1>8
  <2>2. Wrap(tail + (1 - 1)) = tail
    BY <1>1 DEF Wrap, Slots
  <2>3. RingSeq(n)[1] = netbuf[tail]
    <3>1. 1 \in 1 .. n
      BY <1>9, <2>1
    <3> QED
      BY <1>9, <2>2, <3>1
  <2>4. RingSeq(n) # <<>>
    BY <1>9, <2>1, EmptySeq
  <2> QED
    BY <1>9, <2>1, <2>3, <2>4
<1>13. RingSeq(m)' = Tail(RingSeq(n))
  <2>1. \A k \in 1 .. n - 1 : netbuf'[Wrap(tail' + (k - 1))] = netbuf[Wrap(tail + k)]
    <3> TAKE k \in 1 .. n - 1
    <3>1. k \in 1 .. TrbNum - 1 /\ k + 1 \in 1 .. TrbNum - 1 /\ (k + 1) - 1 = k /\ k # 0
      BY <1>6
    <3>2. Wrap(tail' + (k - 1)) = Wrap(tail + k)
      BY <1>1, <1>2, <3>1, WrapInc
    <3>3. Wrap(tail + k) \in Slots /\ Off(Wrap(tail + k)) = k
      BY <1>1, <3>1, WrapOff
    <3>4. Off(tail) = 0
      BY <1>1 DEF Off, Slots
    <3> QED
      BY <1>1, <1>2, <3>1, <3>2, <3>3, <3>4
  <2> DEFINE r == RingSeq(n)  z == RingSeq(m)'
  <2>2. /\ Tail(r) \in Seq(Buffers) /\ Len(Tail(r)) = n - 1
        /\ \A k \in 1 .. n - 1 : Tail(r)[k] = r[k + 1]
    BY <1>9, <1>12, HeadTailProperties
  <2>3. \A k \in 1 .. n - 1 : Tail(r)[k] = netbuf[Wrap(tail + k)]
    <3> TAKE k \in 1 .. n - 1
    <3>1. k + 1 \in 1 .. n /\ (k + 1) - 1 = k
      BY <1>9
    <3> QED
      BY <1>9, <2>2, <3>1
  <2>4. z \in Seq(Buffers) /\ Len(z) = n - 1 /\ \A k \in 1 .. n - 1 : z[k] = netbuf'[Wrap(tail' + (k - 1))]
    <3>1. n - 1 \in Nat
      BY <1>9, <1>12
    <3> QED
      BY <1>10, <1>11, <3>1
  <2> HIDE DEF r, z
  <2>5. \A k \in 1 .. n - 1 : z[k] = Tail(r)[k]
    BY <2>1, <2>3, <2>4
  <2>6. z = Tail(r)
    BY <2>2, <2>4, <2>5, SeqEqual
  <2> QED
    BY <2>6 DEF r, z
<1>14. <<netbuf[tail]>> \o Tail(RingSeq(n)) = RingSeq(n)
  BY <1>9, <1>12, ConsTail
<1>15. <<>> \o RingSeq(n) = RingSeq(n)
  BY <1>9, ConcatEmptySeq
<1> QED
  BY <1>2, <1>10, <1>13, <1>14, <1>15

LEMMA SubmitCompletes ==
    ASSUME Inv, Submit
    PROVE  Abstract!Complete
<1>1. /\ pc \in [Ctxs -> Places] /\ buf \in [Ctxs -> Buffers \cup {NoBuf}] /\ Worker \in Ctxs
  BY DEF Inv, PlaceInv, TypeOK, Ctxs
<1>2. /\ pc[Worker] = "submit" /\ pc' = [pc EXCEPT ![Worker] = "flush"]
      /\ buf[Worker] # NoBuf
      /\ UNCHANGED <<fifo, netbuf, tail>> /\ app' = app \cup {buf[Worker]}
  BY DEF Submit, At, Goto, ring
<1>3. Popped = <<buf[Worker]>> /\ Popped' = <<>> /\ buf[Worker] \in Buffers
  BY <1>1, <1>2 DEF Popped
<1>4. Waiting' = Waiting
  BY <1>1, <1>2 DEF Waiting, Moving
<1>5. PICK n \in 0 .. TrbNum - 1 : RingShape(n)
  BY DEF Inv, RingInv
<1>6. RingFrom(tail)' = RingFrom(tail) /\ RingFrom(tail) = RingSeq(n)
  <2>1. Occupied' = Occupied
    BY <1>2 DEF Occupied
  <2> QED
    BY <1>2, <1>5, <2>1, RingFromTail DEF RingFrom, Inv, PlaceInv
<1>7. RingSeq(n) \in Seq(Buffers) /\ Waiting \in Seq(Buffers)
  BY <1>5, ViewIs, ViewParts
<1>8. PICK r \in Seq(Buffers), w \in Seq(Buffers) : r = RingSeq(n) /\ w = Waiting
  BY <1>7
<1>9. QueueView = (<<buf[Worker]>> \o r) \o w /\ QueueView' = (<<>> \o r) \o w
  <2>1. QueueView = (Popped \o RingFrom(tail)) \o Waiting
    BY DEF QueueView, Popped, Waiting
  <2>2. QueueView' = (Popped' \o RingFrom(tail)') \o Waiting'
    BY DEF QueueView, Popped, Waiting
  <2> QED
    BY <1>3, <1>4, <1>6, <1>8, <2>1, <2>2
<1>10. PICK p \in Seq(Buffers) : p = <<buf[Worker]>>
  BY <1>3, ConsHeadTail
<1>11. (p \o r) \o w = p \o (r \o w) /\ r \o w \in Seq(Buffers) /\ <<>> \o r = r
  BY ConcatAssociative, ConcatProperties, ConcatEmptySeq
<1>12. LET v == <<buf[Worker]>> \o (r \o w)
       IN v # <<>> /\ Head(v) = buf[Worker] /\ Tail(v) = r \o w
  BY <1>3, <1>11, ConsHeadTail
<1> QED
  BY <1>2, <1>9, <1>10, <1>11, <1>12 DEF Abstract!Complete

LEMMA DequeueAborts ==
    ASSUME Inv, NEW c \in Callers, EpDequeue(c)
    PROVE  Abstract!Abort
<1>1. ~Moving /\ Popped = <<>>
  BY EntryAlone DEF EpDequeue
<1>2. /\ UNCHANGED <<pc, buf, netbuf, tail>> /\ fifo' = <<>>
      /\ app' = app \cup ToSet(fifo)
  BY DEF EpDequeue, ring, locals
<1>3. ~Moving' /\ Popped' = Popped
  BY <1>1, <1>2 DEF Moving, Popped
<1>4. PICK n \in 0 .. TrbNum - 1 : RingShape(n)
  BY DEF Inv, RingInv
<1>5. RingFrom(tail)' = RingFrom(tail) /\ RingFrom(tail) = RingSeq(n)
  <2>1. Occupied' = Occupied
    BY <1>2 DEF Occupied
  <2> QED
    BY <1>2, <1>4, <2>1, RingFromTail DEF RingFrom, Inv, PlaceInv
<1>6. RingSeq(n) \in Seq(Buffers) /\ Popped \in Seq(Buffers) /\ fifo \in Seq(Buffers)
  BY <1>4, ViewIs, ViewParts
<1>7. Popped \o RingSeq(n) \in Seq(Buffers)
  BY <1>6, ConcatProperties
<1>8. PICK u \in Seq(Buffers), v \in Seq(Buffers) : u = Popped \o RingSeq(n) /\ v = fifo
  BY <1>6, <1>7
<1>9. QueueView = u \o v /\ QueueView' = u
  <2>1. QueueView = (Popped \o RingFrom(tail)) \o Waiting /\ Waiting = fifo
    BY <1>1 DEF QueueView, Popped, Waiting
  <2>2. QueueView' = (Popped' \o RingFrom(tail)') \o Waiting' /\ Waiting' = <<>>
    BY <1>2, <1>3 DEF QueueView, Popped, Waiting
  <2>3. u \o <<>> = u
    BY ConcatEmptySeq
  <2> QED
    BY <1>3, <1>5, <1>8, <2>1, <2>2, <2>3
<1>10. /\ Len(u) \in 0 .. Len(u \o v)
       /\ SubSeq(u \o v, 1, Len(u)) = u
       /\ SubSeq(u \o v, Len(u) + 1, Len(u \o v)) = v
  BY ConcatParts
<1>11. /\ Len(u) \in 0 .. Len(QueueView) /\ QueueView' = SubSeq(QueueView, 1, Len(u))
       /\ SubSeq(QueueView, Len(u) + 1, Len(QueueView)) = fifo
  BY <1>8, <1>9, <1>10
<1>12. Abstract!ToSet(fifo) = ToSet(fifo)
  BY DEF Abstract!ToSet, ToSet
<1>13. app' = app \cup Abstract!ToSet(SubSeq(QueueView, Len(u) + 1, Len(QueueView)))
  BY <1>2, <1>11, <1>12
<1> QED
  BY ONLY <1>11, <1>13 DEF Abstract!Abort

LEMMA GetKeepsView ==
    ASSUME Inv, NEW c \in Ctxs, BufGet(c)
    PROVE  UNCHANGED <<QueueView, app>>
<1>1. /\ pc \in [Ctxs -> Places] /\ Worker \in Ctxs /\ CriticalSection
  BY DEF Inv, PlaceInv, TypeOK, Ctxs
<1>2. /\ pc[c] = "get" /\ pc' = [pc EXCEPT ![c] = "peek"]
      /\ buf' = [buf EXCEPT ![c] = NoBuf]
      /\ fifo' = Tail(fifo) /\ UNCHANGED <<netbuf, tail, app>>
  BY DEF BufGet, At, Goto, ring
<1>3. Moving
  BY <1>2 DEF Moving
<1>4. ~Moving'
  BY <1>1, <1>2 DEF Moving, CriticalSection, Critical
<1>5. Waiting' = Waiting
  BY <1>2, <1>3, <1>4 DEF Waiting
<1>6. Popped' = Popped
  <2>1. buf \in [Ctxs -> Buffers \cup {NoBuf}]
    BY DEF Inv, PlaceInv, TypeOK
  <2> QED
    BY <1>1, <1>2, <2>1 DEF Popped
<1> QED
  BY <1>2, <1>5, <1>6, ViewKept

-----------------------------------------------------------------------------
(* The implementation *)

LEMMA FlushKeepsView ==
    ASSUME Inv, Inv', NEW c \in Ctxs, Flush(c)
    PROVE  UNCHANGED <<QueueView, app>>
<1> USE DEF Movers, Return, At, ring, locals
<1>0. pc \in [Ctxs -> Places]
  BY DEF Inv, PlaceInv, TypeOK
<1>1. CASE FlushBegin(c)
  <2>1. UNCHANGED <<fifo, netbuf, tail, buf, app>> /\ pc[c] = "flush"
    BY <1>1 DEF FlushBegin
  <2>2. Goto(c, "idle") \/ Goto(c, "tas")
    BY <1>1 DEF FlushBegin
  <2> QED
    BY <2>1, <2>2, StepKept
<1>2. CASE FlushEnter(c)
  <2>1. UNCHANGED <<fifo, netbuf, tail, buf, app>> /\ pc[c] = "tas"
    BY <1>2 DEF FlushEnter
  <2>2. Goto(c, "idle") \/ Goto(c, "peek")
    BY <1>2 DEF FlushEnter
  <2> QED
    BY <2>1, <2>2, StepKept
<1>3. CASE TrbBulk(c) /\ fifo # <<>> /\ Room
  BY <1>3, PushMoves
<1>4. CASE TrbBulk(c) /\ ~(fifo # <<>> /\ Room)
  <2>1. UNCHANGED <<fifo, netbuf, tail, buf, app>> /\ pc[c] = "peek" /\ Goto(c, "leave")
    BY <1>4 DEF TrbBulk
  <2> QED
    BY <2>1, StepKept
<1>5. CASE PushAddr(c)
  BY <1>5, StepKept DEF PushAddr
<1>6. CASE PushHead(c)
  BY <1>6, StepKept DEF PushHead
<1>7. CASE PushFull(c)
  BY <1>7, StepKept DEF PushFull
<1>8. CASE UpdateXfer(c)
  BY <1>8, StepKept DEF UpdateXfer
<1>9. CASE BufGet(c)
  BY <1>9, GetKeepsView
<1>10. CASE FlushLeave(c)
  BY <1>10, StepKept DEF FlushLeave
<1>11. CASE FlushRecheck(c)
  <2>1. UNCHANGED <<fifo, netbuf, tail, buf, app>> /\ pc[c] = "recheck"
    BY <1>11 DEF FlushRecheck
  <2>2. Goto(c, "idle") \/ Goto(c, "tas")
    BY <1>11 DEF FlushRecheck
  <2> QED
    BY <2>1, <2>2, StepKept
<1> QED
  BY <1>1, <1>2, <1>3, <1>4, <1>5, <1>6, <1>7, <1>8, <1>9, <1>10, <1>11 DEF Flush

LEMMA StepImplements ==
    ASSUME Inv, Inv', [Next]_vars
    PROVE  [Abstract!Next]_(Abstract!vars)
<1> USE DEF Abstract!Next, Abstract!vars
<1>1. ASSUME NEW c \in Callers, NEW b \in Buffers, Enqueue(c, b)
      PROVE  [Abstract!Next]_(Abstract!vars)
  BY <1>1, EnqueueSubmits
<1>2. ASSUME NEW c \in Ctxs, Flush(c) PROVE UNCHANGED <<QueueView, app>>
  BY <1>2, FlushKeepsView
<1>3. CASE PopTrb
  BY <1>3, PopMoves
<1>4. CASE Submit
  BY <1>4, SubmitCompletes
<1>5. CASE Hw \/ UNCHANGED vars
  <2>1. UNCHANGED <<pc, buf, fifo, netbuf, tail, app>>
    BY <1>5 DEF Hw, HwFetch, HwStop, HwComplete, vars, ring, locals
  <2>2. Popped' = Popped /\ Waiting' = Waiting
    BY <2>1 DEF Popped, Waiting, Moving
  <2> QED
    BY <2>1, <2>2, ViewKept
<1>6. ASSUME NEW c \in Callers, EpDequeue(c) PROVE [Abstract!Next]_(Abstract!vars)
  BY <1>6, DequeueAborts
<1> QED
  BY <1>1, <1>2, <1>3, <1>4, <1>5, <1>6 DEF Next, Transfer

LEMMA InitImplements == Init => Abstract!Init
<1> SUFFICES ASSUME Init PROVE QueueView = <<>> /\ app = Buffers
  BY DEF Abstract!Init
<1>1. Occupied = {}
  BY DEF Init, Occupied
<1>2. RingFrom(tail) = <<>>
  <2>1. Cardinality(Occupied) = 0
    BY <1>1, FS_EmptySet
  <2> QED
    BY <2>1 DEF RingFrom
<1>3. ~Moving /\ pc[Worker] = "idle" /\ fifo = <<>> /\ app = Buffers
  BY ContextAssumption DEF Init, Moving, Ctxs
<1> QED
  BY <1>2, <1>3 DEF QueueView

\* The endpoint implements one first-in first-out queue: whatever callers,
\* worker and controller interrupt, each buffer comes back once, in the order
\* of the submissions, and a dequeue takes back only the youngest ones
\* (usb_cdc_raw.h:45-70, dwc3_push_trb() and dwc3_pop_trb()).
THEOREM Implements == Spec => AbstractSpec
<1>1. Spec => [](PlaceInv /\ RingInv)
  BY PlaceInit, PlaceStep, RingInit, RingStep, PTL DEF Spec
<1>2. (PlaceInv /\ RingInv) /\ (PlaceInv /\ RingInv)' /\ [Next]_vars => [Abstract!Next]_(Abstract!vars)
  BY StepImplements DEF Inv
<1> QED
  BY <1>1, <1>2, InitImplements, PTL DEF Spec, AbstractSpec, Abstract!Spec

=============================================================================
