---------------------------- MODULE Imx219Proofs ----------------------------
(***************************************************************************)
(* The safety of Imx219 for every set of formats, controls and values,     *)
(* every input clock and every number of failures.                         *)
(*                                                                         *)
(* The argument follows the plan of a call: the registers it writes with   *)
(* their values, and the format and the interval it keeps.  Each part of   *)
(* the plan is done or pending at every moment, so all of it is done when  *)
(* the call returns 0.                                                     *)
(***************************************************************************)
EXTENDS Imx219, SequenceTheorems, TLAPS

-----------------------------------------------------------------------------
(* What a call has to do: the plan *)

Writes == [do : {"write"}, reg : Regs, val : Nat]
KeepsOfFormat == [do : {"keep format"}, val : {f \in Formats \cup {DefaultFormat} : Supported(f)}]
KeepsOfInterval == [do : {"keep interval"}, val : Intervals]
Plain == [do : {"reset", "chip id", "refuse", "controls"}]
Accesses == Writes \cup KeepsOfFormat \cup KeepsOfInterval \cup Plain

\* The accesses that a call has left.
MembersOf(s) == {s[i] : i \in 1 .. Len(s)}
Pending == MembersOf(todo)

\* The registers that a setter writes, with their values.
FormatVal(f) ==
    [format0 |-> Depth[f.pix], format1 |-> Depth[f.pix],
     xsta |-> (FullWidth - f.width) \div 2, xend |-> WindowEnd(FullWidth, f.width),
     ysta |-> (FullHeight - f.height) \div 2, yend |-> WindowEnd(FullHeight, f.height),
     xout |-> f.width, yout |-> f.height, frmlen |-> f.height + 20,
     tpwidth |-> f.width, tpheight |-> f.height]
IntervalVal(n) == [dividers |-> 1, vtmpy |-> n, opmpy |-> 50]
FormatDomain == {"format0", "format1", "xsta", "xend", "ysta", "yend", "xout", "yout",
                 "frmlen", "tpwidth", "tpheight"}
IntervalDomain == {"dividers", "vtmpy", "opmpy"}
InitVal ==
    [r \in Regs \ {"mode", "pattern", "pedestal"} |->
        IF r \in FormatDomain THEN FormatVal(DefaultFormat)[r]
        ELSE IF r \in IntervalDomain THEN IntervalVal(15)[r]
        ELSE IF r \in Controls THEN ControlDefault[r]
        ELSE IF r = "excfreq" THEN InputClock * 256 ELSE 1]

\* A plan: the kinds of accesses of a call, the registers it writes, the format and
\* the interval it keeps.
Plan(kinds, told, f, n) == [kinds |-> kinds, told |-> told, fmt |-> f, fps |-> n]
InitKinds == {"reset", "chip id", "refuse", "write", "keep format", "keep interval", "controls"}
PlansOf(c) ==
    IF c = "init" THEN {Plan(InitKinds, InitVal, DefaultFormat, 15)}
    ELSE IF c = "format" THEN {Plan({"write", "keep format"}, FormatVal(f), f, 15) :
                               f \in {f \in Formats : Supported(f)}}
    ELSE IF c = "interval" THEN {Plan({"write", "keep interval"}, IntervalVal(n), DefaultFormat, n) :
                                 n \in Intervals}
    ELSE IF c = "mode" THEN {Plan({"write"}, [mode |-> on], DefaultFormat, 15) : on \in {0, 1}}
    ELSE {Plan({"write"}, [r \in {c} |-> ctrl[c]], DefaultFormat, 15)}

\* What is pending is of the plan, and what the plan says is done or pending.
Fits(e, p) ==
    /\ e.do \in p.kinds
    /\ e.do = "write" => e.reg \in DOMAIN p.told /\ e.val = p.told[e.reg]
    /\ e.do = "keep format" => e.val = p.fmt
    /\ e.do = "keep interval" => e.val = p.fps
Planned(p) == \A e \in Pending : Fits(e, p)
WritePends(p, r) == Write(r, p.told[r]) \in Pending \/ [do |-> "refuse"] \in Pending
DoneOrPending(p) ==
    /\ \A r \in DOMAIN p.told : regs[r] = p.told[r] \/ WritePends(p, r)
    /\ "keep format" \in p.kinds => fmt = p.fmt \/ [do |-> "keep format", val |-> p.fmt] \in Pending
    /\ "keep interval" \in p.kinds =>
           fps = p.fps \/ [do |-> "keep interval", val |-> p.fps] \in Pending
    /\ "controls" \in p.kinds =>
           ctrl = ControlDefault \/ {[do |-> "controls"], [do |-> "refuse"]} \cap Pending # {}

\* The reset comes before everything that it would undo.
ResetFirst(p) ==
    /\ \A i \in 2 .. Len(todo) : todo[i].do # "reset"
    /\ [do |-> "reset"] \in Pending => \A r \in DOMAIN p.told : WritePends(p, r)
    /\ "reset" \in p.kinds =>
           [do |-> "reset"] \in Pending \/ (regs["mode"] = 0 /\ regs["pattern"] = 0)

PlanInv ==
    call \notin {"off", "idle", "dead"} =>
        \E p \in PlansOf(call) : Planned(p) /\ DoneOrPending(p) /\ ResetFirst(p)

TypeInv == TypeOK /\ todo \in Seq(Accesses) /\ regs \in [Regs -> Int] /\ ctrl \in [Controls -> Nat]

\* Told(v): the registers of v have its values.
Told(v) == \A r \in DOMAIN v : regs[r] = v[r]
AgreesAs(g) ==
    /\ g = "format" => Supported(fmt) /\ Told(FormatVal(fmt))
    /\ g = "interval" => Told(IntervalVal(fps))
    /\ g \in Controls => regs[g] = ctrl[g]

\* The groups that no call is about.
AgreeInv == Ready => \A g \in Groups \ untold : g # call => AgreesAs(g)

PedestalInv == call \in {"off", "init"} => "pedestal" \in untold

SensorInv == TypeInv /\ PlanInv /\ AgreeInv /\ PedestalInv /\ BayerPhase /\ ReadyIsSetUp

-----------------------------------------------------------------------------
(* Sequences of accesses *)

LEMMA ConcatMembers ==
    ASSUME NEW a \in Seq(Accesses), NEW b \in Seq(Accesses)
    PROVE  /\ a \o b \in Seq(Accesses) /\ Len(a \o b) = Len(a) + Len(b)
           /\ MembersOf(a \o b) = MembersOf(a) \cup MembersOf(b)
<1>1. PICK c \in Seq(Accesses) : c = a \o b
  BY ConcatProperties
<1>2. /\ Len(a) \in Nat /\ Len(b) \in Nat /\ Len(c) = Len(a) + Len(b)
      /\ \A i \in 1 .. Len(a) + Len(b) : c[i] = IF i <= Len(a) THEN a[i] ELSE b[i - Len(a)]
  BY <1>1, ConcatProperties, LenProperties
<1>3. ASSUME NEW e \in MembersOf(c) PROVE e \in MembersOf(a) \cup MembersOf(b)
  <2>1. PICK i \in 1 .. Len(c) : e = c[i]
    BY <1>3 DEF MembersOf
  <2>2. CASE i <= Len(a)
    BY <1>2, <2>1, <2>2 DEF MembersOf
  <2>3. CASE ~(i <= Len(a))
    <3>0. Len(a) \in Nat /\ i \in Int
      BY <1>2
    <3>1. PICK j \in Int : j = i - Len(a)
      BY <3>0
    <3>2. j \in 1 .. Len(b) /\ i \in 1 .. Len(a) + Len(b)
      BY <1>2, <2>3, <3>1
    <3>3. c[i] = b[j]
      BY <1>2, <2>3, <3>1, <3>2
    <3> QED
      BY <2>1, <3>2, <3>3 DEF MembersOf
  <2> QED
    BY <2>2, <2>3
<1>4. ASSUME NEW e \in MembersOf(a) PROVE e \in MembersOf(c)
  <2>1. PICK i \in 1 .. Len(a) : e = a[i]
    BY <1>4 DEF MembersOf
  <2>2. i \in 1 .. Len(c) /\ c[i] = a[i]
    BY <1>2
  <2> QED
    BY <2>1, <2>2 DEF MembersOf
<1>5. ASSUME NEW e \in MembersOf(b) PROVE e \in MembersOf(c)
  <2>1. PICK i \in 1 .. Len(b) : e = b[i]
    BY <1>5 DEF MembersOf
  <2>2. PICK j \in Int : j = i + Len(a)
    BY <1>2
  <2>3. j \in 1 .. Len(c) /\ ~(j <= Len(a)) /\ j - Len(a) = i
    BY <1>2, <2>2
  <2>4. c[j] = b[i]
    BY <1>2, <2>3
  <2> QED
    BY <2>1, <2>3, <2>4 DEF MembersOf
<1>6. MembersOf(c) = MembersOf(a) \cup MembersOf(b)
  BY <1>3, <1>4, <1>5
<1> QED
  BY <1>1, <1>2, <1>6

LEMMA AccessKinds ==
    ASSUME NEW e \in Accesses
    PROVE  /\ e.do = "write" => e = Write(e.reg, e.val) /\ e.reg \in Regs /\ e.val \in Nat
           /\ e.do = "keep format" =>
                e = [do |-> "keep format", val |-> e.val] /\ Supported(e.val)
           /\ e.do = "keep interval" =>
                e = [do |-> "keep interval", val |-> e.val] /\ e.val \in Intervals
           /\ e.do \in {"reset", "chip id", "refuse", "controls"} => e = [do |-> e.do]
<1>1. CASE e \in Writes
  BY <1>1 DEF Writes, Write
<1>2. CASE e \in KeepsOfFormat
  BY <1>2 DEF KeepsOfFormat
<1>3. CASE e \in KeepsOfInterval
  BY <1>3 DEF KeepsOfInterval
<1>4. CASE e \in Plain
  BY <1>4 DEF Plain
<1> QED
  BY <1>1, <1>2, <1>3, <1>4 DEF Accesses

LEMMA Popped ==
    ASSUME todo \in Seq(Accesses), todo # <<>>, todo' = Tail(todo)
    PROVE  /\ todo' \in Seq(Accesses)
           /\ Head(todo) \in Accesses /\ Head(todo) \in Pending
           /\ Pending' \subseteq Pending
           /\ \A e \in Pending : e = Head(todo) \/ e \in Pending'
<1>1. /\ todo' \in Seq(Accesses) /\ Head(todo) = todo[1] /\ Head(todo) \in Accesses
      /\ Len(todo) \in Nat /\ Len(todo) >= 1 /\ Len(todo') = Len(todo) - 1
      /\ \A i \in 1 .. Len(todo) - 1 : todo'[i] = todo[i + 1]
  BY HeadTailProperties, LenProperties, EmptySeq
<1>2. Head(todo) \in Pending
  BY <1>1 DEF Pending, MembersOf
<1>3. ASSUME NEW e \in Pending' PROVE e \in Pending
  <2>1. PICK i \in 1 .. Len(todo') : e = todo'[i]
    BY <1>3 DEF Pending, MembersOf
  <2>2. i + 1 \in 1 .. Len(todo) /\ todo[i + 1] = e
    BY <1>1, <2>1
  <2> QED
    BY <2>2 DEF Pending, MembersOf
<1>4. ASSUME NEW e \in Pending, e # Head(todo) PROVE e \in Pending'
  <2>1. PICK i \in 1 .. Len(todo) : e = todo[i]
    BY <1>4 DEF Pending, MembersOf
  <2>2. PICK j \in Int : j = i - 1
    OBVIOUS
  <2>3. j \in 1 .. Len(todo') /\ todo'[j] = e
    BY <1>1, <1>4, <2>1, <2>2
  <2> QED
    BY <2>3 DEF Pending, MembersOf
<1> QED
  BY <1>1, <1>2, <1>3, <1>4

\* A reset that is the first access at most is gone after an access.
LEMMA ResetGone ==
    ASSUME todo \in Seq(Accesses), todo # <<>>, todo' = Tail(todo),
           \A i \in 2 .. Len(todo) : todo[i].do # "reset"
    PROVE  /\ \A i \in 2 .. Len(todo') : todo'[i].do # "reset"
           /\ [do |-> "reset"] \notin Pending'
           /\ Head(todo).do # "reset" => [do |-> "reset"] \notin Pending
<1>1. /\ Head(todo) = todo[1]
      /\ Len(todo) \in Nat /\ Len(todo) >= 1 /\ Len(todo') = Len(todo) - 1
      /\ \A i \in 1 .. Len(todo) - 1 : todo'[i] = todo[i + 1]
  BY HeadTailProperties, LenProperties, EmptySeq
<1>2. \A i \in 1 .. Len(todo') : todo'[i].do # "reset"
  <2>1. TAKE i \in 1 .. Len(todo')
  <2>2. PICK j \in Int : j = i + 1
    OBVIOUS
  <2>3. j \in 2 .. Len(todo) /\ todo'[i] = todo[j]
    BY <1>1, <2>2
  <2> QED
    BY <2>3
<1>3. \A i \in 2 .. Len(todo') : todo'[i].do # "reset"
  BY <1>1, <1>2
<1>4. [do |-> "reset"] \notin Pending'
  BY <1>2 DEF Pending, MembersOf
<1>5. ASSUME Head(todo).do # "reset" PROVE [do |-> "reset"] \notin Pending
  <2>1. \A i \in 1 .. Len(todo) : todo[i].do # "reset"
    BY <1>1, <1>5
  <2> QED
    BY <2>1 DEF Pending, MembersOf
<1> QED
  BY <1>3, <1>4, <1>5

-----------------------------------------------------------------------------
(* The values of the plans *)

LEMMA DefaultSupported == Supported(DefaultFormat) /\ 15 \in Intervals
BY DEF Supported, SizeFits, DefaultFormat, Depth, FullWidth, FullHeight, Intervals

\* The window of a supported format is in the middle of the pixel array.
LEMMA Centred ==
    ASSUME NEW n, NEW full \in {FullWidth, FullHeight}, SizeFits(n, full)
    PROVE  /\ n \in Nat /\ n >= 4
           /\ (full - n) \div 2 \in Nat /\ ((full - n) \div 2) % 2 = 0
           /\ WindowEnd(full, n) \in Nat /\ WindowEnd(full, n) < full
           /\ WindowEnd(full, n) - (full - n) \div 2 + 1 = n
<1>1. n \in Nat /\ n >= 4 /\ n <= full /\ (n - 4) % 4 = 0
  BY DEF SizeFits, FullWidth, FullHeight
<1>2. PICK m \in Int : n - 4 = 4 * m
  <2>1. PICK k \in Int : k = n - 4
    BY <1>1
  <2>2. k % 4 = 0
    BY <1>1, <2>1
  <2>3. \E m \in Int : k = 4 * m
    BY <2>2
  <2> QED
    BY <2>1, <2>3
<1>3. full - n = 2 * (full \div 2 - 2 * m - 2) /\ full + n = 2 * (full \div 2 + 2 * m + 2)
  BY <1>1, <1>2 DEF FullWidth, FullHeight
<1>4. (full - n) \div 2 = full \div 2 - 2 * m - 2 /\ (full + n) \div 2 = full \div 2 + 2 * m + 2
  BY <1>1, <1>2, <1>3 DEF FullWidth, FullHeight
<1>5. (full - n) \div 2 \in Nat
  BY <1>1, <1>2, <1>4 DEF FullWidth, FullHeight
<1>6. ((full - n) \div 2) % 2 = 0
  BY <1>2, <1>4 DEF FullWidth, FullHeight
<1>7. /\ WindowEnd(full, n) \in Nat /\ WindowEnd(full, n) < full
      /\ WindowEnd(full, n) - (full - n) \div 2 + 1 = n
  BY <1>1, <1>2, <1>4 DEF WindowEnd, FullWidth, FullHeight
<1> QED
  BY <1>1, <1>5, <1>6, <1>7

LEMMA FormatValues ==
    ASSUME NEW f, Supported(f)
    PROVE  /\ FormatVal(f) \in [FormatDomain -> Nat]
           /\ FormatVal(f)["xsta"] % 2 = 0 /\ FormatVal(f)["ysta"] % 2 = 0
<1>1. SizeFits(f.width, FullWidth) /\ SizeFits(f.height, FullHeight) /\ Depth[f.pix] \in Nat
  BY DEF Supported, Depth
<1>2. PICK xs \in Nat : xs = (FullWidth - f.width) \div 2 /\ xs % 2 = 0
  BY <1>1, Centred
<1>3. PICK xe \in Nat : xe = WindowEnd(FullWidth, f.width)
  BY <1>1, Centred
<1>4. PICK ys \in Nat : ys = (FullHeight - f.height) \div 2 /\ ys % 2 = 0
  BY <1>1, Centred
<1>5. PICK ye \in Nat : ye = WindowEnd(FullHeight, f.height)
  BY <1>1, Centred
<1>6. PICK d \in Nat : d = Depth[f.pix]
  BY <1>1
<1>7. f.width \in Nat /\ f.height \in Nat /\ f.height + 20 \in Nat
  BY <1>1, Centred
<1>8. FormatVal(f) = [format0 |-> d, format1 |-> d, xsta |-> xs, xend |-> xe, ysta |-> ys,
                      yend |-> ye, xout |-> f.width, yout |-> f.height,
                      frmlen |-> f.height + 20, tpwidth |-> f.width, tpheight |-> f.height]
  BY <1>2, <1>3, <1>4, <1>5, <1>6 DEF FormatVal
<1> QED
  BY <1>2, <1>7, <1>8, <1>4 DEF FormatDomain

LEMMA IntervalValues == \A n \in Intervals : IntervalVal(n) \in [IntervalDomain -> Nat]
BY DEF IntervalVal, IntervalDomain, Intervals

LEMMA InitValues ==
    /\ InitVal \in [Regs \ {"mode", "pattern", "pedestal"} -> Nat]
    /\ \A r \in FormatDomain : InitVal[r] = FormatVal(DefaultFormat)[r]
    /\ \A r \in IntervalDomain : InitVal[r] = IntervalVal(15)[r]
    /\ FormatDomain \cup IntervalDomain \subseteq DOMAIN InitVal
    /\ \A c \in {"exposure", "again", "dgain"} :
           c \in DOMAIN InitVal /\ InitVal[c] = ControlDefault[c]
    /\ InitVal["excfreq"] = InputClock * 256 /\ InitVal["vendor"] = 1 /\ InitVal["timing"] = 1
<1>1. \A r \in FormatDomain : FormatVal(DefaultFormat)[r] \in Nat
  BY DefaultSupported, FormatValues
<1>2. \A r \in IntervalDomain : IntervalVal(15)[r] \in Nat
  BY DefaultSupported, IntervalValues
<1>3. \A r \in Controls : ControlDefault[r] \in Nat
  BY DEF Controls, ControlDefault
<1>4. InputClock * 256 \in Nat
  BY SensorAssumption
<1>5. FormatDomain \cup IntervalDomain \subseteq Regs \ {"mode", "pattern", "pedestal"}
  BY DEF FormatDomain, IntervalDomain, Regs
<1>6. FormatDomain \cap IntervalDomain = {} /\ Controls \cap (FormatDomain \cup IntervalDomain) = {}
      /\ \A r \in {"excfreq", "vendor", "timing"} :
            r \notin FormatDomain /\ r \notin IntervalDomain /\ r \notin Controls
  BY DEF FormatDomain, IntervalDomain, Controls
<1>7. {"exposure", "again", "dgain"} \subseteq Controls /\
      {"exposure", "again", "dgain", "excfreq", "vendor", "timing"}
          \subseteq Regs \ {"mode", "pattern", "pedestal"}
  BY DEF Controls, Regs
<1> HIDE DEF FormatDomain
<1>8. InitVal \in [Regs \ {"mode", "pattern", "pedestal"} -> Nat]
  BY <1>1, <1>2, <1>3, <1>4 DEF InitVal
<1>9. \A r \in FormatDomain : InitVal[r] = FormatVal(DefaultFormat)[r]
  BY <1>5 DEF InitVal
<1>10. \A r \in IntervalDomain : InitVal[r] = IntervalVal(15)[r]
  BY <1>5, <1>6 DEF InitVal
<1>11. \A c \in {"exposure", "again", "dgain"} :
          c \in DOMAIN InitVal /\ InitVal[c] = ControlDefault[c]
  BY <1>6, <1>7 DEF InitVal
<1>12. InitVal["excfreq"] = InputClock * 256 /\ InitVal["vendor"] = 1 /\ InitVal["timing"] = 1
  BY <1>6, <1>7 DEF InitVal
<1> QED
  BY <1>5, <1>8, <1>9, <1>10, <1>11, <1>12

-----------------------------------------------------------------------------
(* The accesses of each call are what its plan says *)

LEMMA MembersOfOne ==
    ASSUME NEW a \in Accesses
    PROVE  <<a>> \in Seq(Accesses) /\ Len(<<a>>) = 1 /\ MembersOf(<<a>>) = {a}
BY DEF MembersOf

LEMMA MembersOfTwo ==
    ASSUME NEW a \in Accesses, NEW b \in Accesses
    PROVE  <<a, b>> \in Seq(Accesses) /\ Len(<<a, b>>) = 2 /\ MembersOf(<<a, b>>) = {a, b}
BY DEF MembersOf

LEMMA MembersOfThree ==
    ASSUME NEW a \in Accesses, NEW b \in Accesses, NEW c \in Accesses
    PROVE  <<a, b, c>> \in Seq(Accesses) /\ MembersOf(<<a, b, c>>) = {a, b, c}
BY DEF MembersOf

WritesOf(v) == {Write(r, v[r]) : r \in DOMAIN v}

LEMMA WriteTypes ==
    \A r \in Regs, n \in Nat :
        /\ Write(r, n) \in Accesses
        /\ Write(r, n).do = "write" /\ Write(r, n).reg = r /\ Write(r, n).val = n
BY DEF Write, Accesses, Writes

LEMMA FormatWrites ==
    ASSUME NEW f, Supported(f)
    PROVE  /\ FormatRegs(f) \in Seq(Accesses) /\ CropRegs(f) \in Seq(Accesses)
           /\ MembersOf(FormatRegs(f)) \cup MembersOf(CropRegs(f)) = WritesOf(FormatVal(f))
<1>1. PICK v : v = FormatVal(f)
  OBVIOUS
<1>2. v \in [FormatDomain -> Nat]
  BY <1>1, FormatValues
<1>3. /\ FormatRegs(f) = <<Write("format0", v["format0"]), Write("format1", v["format1"])>>
      /\ CropRegs(f) =
            << Write("xsta", v["xsta"]), Write("xend", v["xend"]), Write("ysta", v["ysta"]),
               Write("yend", v["yend"]), Write("xout", v["xout"]), Write("yout", v["yout"]),
               Write("frmlen", v["frmlen"]), Write("tpwidth", v["tpwidth"]),
               Write("tpheight", v["tpheight"]) >>
  BY <1>1 DEF FormatVal, FormatRegs, CropRegs
<1>4. FormatDomain \subseteq Regs
  BY DEF FormatDomain, Regs
<1>5. \A r \in FormatDomain : Write(r, v[r]) \in Accesses
  BY <1>2, <1>4, WriteTypes
<1>6. /\ FormatRegs(f) \in Seq(Accesses)
      /\ MembersOf(FormatRegs(f)) = {Write("format0", v["format0"]), Write("format1", v["format1"])}
  <2>1. PICK a \in Accesses, b \in Accesses :
          a = Write("format0", v["format0"]) /\ b = Write("format1", v["format1"])
    BY <1>5 DEF FormatDomain
  <2>2. <<a, b>> \in Seq(Accesses) /\ MembersOf(<<a, b>>) = {a, b}
    BY MembersOfTwo, Zenon
  <2>3. FormatRegs(f) = <<a, b>>
    BY <1>3, <2>1
  <2> QED
    BY <2>1, <2>2, <2>3, Zenon
<1>7. /\ CropRegs(f) \in Seq(Accesses)
      /\ MembersOf(CropRegs(f)) =
            { Write("xsta", v["xsta"]), Write("xend", v["xend"]), Write("ysta", v["ysta"]),
              Write("yend", v["yend"]), Write("xout", v["xout"]), Write("yout", v["yout"]),
              Write("frmlen", v["frmlen"]), Write("tpwidth", v["tpwidth"]),
              Write("tpheight", v["tpheight"]) }
  <2>1. PICK a \in Accesses, b \in Accesses, c \in Accesses, d \in Accesses :
          /\ a = Write("xsta", v["xsta"]) /\ b = Write("xend", v["xend"])
          /\ c = Write("ysta", v["ysta"]) /\ d = Write("yend", v["yend"])
    BY <1>5 DEF FormatDomain
  <2>2. PICK e \in Accesses, g \in Accesses :
          e = Write("xout", v["xout"]) /\ g = Write("yout", v["yout"])
    BY <1>5 DEF FormatDomain
  <2>3. PICK h \in Accesses, i \in Accesses, j \in Accesses :
          /\ h = Write("frmlen", v["frmlen"]) /\ i = Write("tpwidth", v["tpwidth"])
          /\ j = Write("tpheight", v["tpheight"])
    BY <1>5 DEF FormatDomain
  <2>4. CropRegs(f) = <<a, b, c, d, e, g, h, i, j>>
    BY <1>3, <2>1, <2>2, <2>3
  <2>5. /\ <<a, b, c, d, e, g, h, i, j>> \in Seq(Accesses)
        /\ MembersOf(<<a, b, c, d, e, g, h, i, j>>) = {a, b, c, d, e, g, h, i, j}
    BY DEF MembersOf
  <2>6. /\ CropRegs(f) \in Seq(Accesses)
        /\ MembersOf(CropRegs(f)) = {a, b, c, d, e, g, h, i, j}
    BY <2>4, <2>5, Zenon
  <2> QED
    BY <2>1, <2>2, <2>3, <2>6
<1>8. DOMAIN v = {"format0", "format1", "xsta", "xend", "ysta", "yend", "xout", "yout",
                  "frmlen", "tpwidth", "tpheight"}
  BY <1>2 DEF FormatDomain
<1>9. WritesOf(v) = MembersOf(FormatRegs(f)) \cup MembersOf(CropRegs(f))
  BY <1>6, <1>7, <1>8 DEF WritesOf
<1> QED
  BY <1>1, <1>6, <1>7, <1>9

LEMMA IntervalWrites ==
    ASSUME NEW n \in Intervals
    PROVE  /\ IntervalRegs(n) \in Seq(Accesses)
           /\ MembersOf(IntervalRegs(n)) = WritesOf(IntervalVal(n))
<1>1. PICK v : v = IntervalVal(n)
  OBVIOUS
<1>2. /\ v \in [IntervalDomain -> Nat] /\ DOMAIN v = {"dividers", "vtmpy", "opmpy"}
  BY <1>1, IntervalValues DEF IntervalDomain
<1>3. IntervalRegs(n) = << Write("dividers", v["dividers"]), Write("vtmpy", v["vtmpy"]),
                           Write("opmpy", v["opmpy"]) >>
  BY <1>1 DEF IntervalRegs, IntervalVal
<1>4. IntervalDomain \subseteq Regs
  BY DEF IntervalDomain, Regs
<1>5. \A r \in IntervalDomain : Write(r, v[r]) \in Accesses
  BY <1>2, <1>4, WriteTypes
<1>6. PICK a \in Accesses, b \in Accesses, c \in Accesses :
        /\ a = Write("dividers", v["dividers"]) /\ b = Write("vtmpy", v["vtmpy"])
        /\ c = Write("opmpy", v["opmpy"])
  BY <1>5 DEF IntervalDomain
<1>7. IntervalRegs(n) \in Seq(Accesses) /\ MembersOf(IntervalRegs(n)) = {a, b, c}
  <2>1. <<a, b, c>> \in Seq(Accesses) /\ MembersOf(<<a, b, c>>) = {a, b, c}
    BY MembersOfThree, Zenon
  <2>2. IntervalRegs(n) = <<a, b, c>>
    BY <1>3, <1>6
  <2> QED
    BY <2>1, <2>2, Zenon
<1>8. WritesOf(v) = {a, b, c}
  BY <1>2, <1>6 DEF WritesOf
<1> QED
  BY <1>1, <1>7, <1>8

LEMMA KeepTypes ==
    /\ \A f \in Formats \cup {DefaultFormat} :
           Supported(f) => [do |-> "keep format", val |-> f] \in Accesses
    /\ \A n \in Intervals : [do |-> "keep interval", val |-> n] \in Accesses
    /\ \A k \in {"reset", "chip id", "refuse", "controls"} : [do |-> k] \in Accesses
BY DEF Accesses, KeepsOfFormat, KeepsOfInterval, Plain

LEMMA FormatMembers ==
    ASSUME NEW f \in Formats \cup {DefaultFormat}, Supported(f)
    PROVE  /\ FormatAccesses(f) \in Seq(Accesses)
           /\ MembersOf(FormatAccesses(f)) =
                  WritesOf(FormatVal(f)) \cup {[do |-> "keep format", val |-> f]}
<1>1. PICK k \in Accesses : k = [do |-> "keep format", val |-> f]
  BY KeepTypes
<1>2. PICK a \in Seq(Accesses), b \in Seq(Accesses) : a = FormatRegs(f) /\ b = CropRegs(f)
  BY FormatWrites
<1>3. PICK c \in Seq(Accesses) : c = <<k>>
  BY MembersOfOne
<1>4. MembersOf(c) = {k}
  BY <1>3, MembersOfOne
<1>5. PICK d \in Seq(Accesses) : d = a \o b
  BY ConcatMembers
<1>6. MembersOf(d) = WritesOf(FormatVal(f))
  <2>1. MembersOf(d) = MembersOf(a) \cup MembersOf(b)
    BY <1>5, ConcatMembers
  <2> QED
    BY <1>2, <2>1, FormatWrites
<1>7. d \o c \in Seq(Accesses) /\ MembersOf(d \o c) = MembersOf(d) \cup MembersOf(c)
  BY ConcatMembers
<1>8. FormatAccesses(f) = d \o c
  BY <1>1, <1>2, <1>3, <1>5 DEF FormatAccesses
<1> QED
  BY <1>1, <1>4, <1>6, <1>7, <1>8

LEMMA IntervalMembers ==
    ASSUME NEW n \in Intervals
    PROVE  /\ IntervalAccesses(n) \in Seq(Accesses)
           /\ MembersOf(IntervalAccesses(n)) =
                  WritesOf(IntervalVal(n)) \cup {[do |-> "keep interval", val |-> n]}
<1>1. PICK k \in Accesses : k = [do |-> "keep interval", val |-> n]
  BY KeepTypes
<1>2. PICK a \in Seq(Accesses) : a = IntervalRegs(n)
  BY IntervalWrites
<1>3. PICK c \in Seq(Accesses) : c = <<k>>
  BY MembersOfOne
<1>4. MembersOf(c) = {k}
  BY <1>3, MembersOfOne
<1>5. a \o c \in Seq(Accesses) /\ MembersOf(a \o c) = MembersOf(a) \cup MembersOf(c)
  BY ConcatMembers
<1>6. IntervalAccesses(n) = a \o c
  BY <1>1, <1>2, <1>3 DEF IntervalAccesses
<1> QED
  BY <1>1, <1>2, <1>4, <1>5, <1>6, IntervalWrites

\* A reset comes at most first.
ResetAtMostFirst(s) == Len(s) >= 1 /\ \A i \in 2 .. Len(s) : s[i].do # "reset"
NoReset(s) == \A e \in MembersOf(s) : e.do # "reset"

LEMMA ConcatReset ==
    ASSUME NEW a \in Seq(Accesses), NEW b \in Seq(Accesses), ResetAtMostFirst(a), NoReset(b)
    PROVE  ResetAtMostFirst(a \o b)
<1>1. PICK c \in Seq(Accesses) : c = a \o b
  BY ConcatProperties
<1>2. /\ Len(a) \in Nat /\ Len(b) \in Nat /\ Len(c) = Len(a) + Len(b)
      /\ \A i \in 1 .. Len(a) + Len(b) : c[i] = IF i <= Len(a) THEN a[i] ELSE b[i - Len(a)]
  BY <1>1, ConcatProperties, LenProperties
<1>3. Len(c) >= 1
  BY <1>2 DEF ResetAtMostFirst
<1>4. ASSUME NEW i \in 2 .. Len(c) PROVE c[i].do # "reset"
  <2>1. i \in 1 .. Len(a) + Len(b)
    BY <1>2
  <2>2. CASE i <= Len(a)
    BY <1>2, <2>1, <2>2 DEF ResetAtMostFirst
  <2>3. CASE ~(i <= Len(a))
    <3>0. Len(a) \in Nat /\ i \in Int
      BY <1>2
    <3>1. PICK j \in Int : j = i - Len(a)
      BY <3>0
    <3>2. j \in 1 .. Len(b)
      BY <1>2, <2>1, <2>3, <3>1
    <3>3. c[i] = b[j]
      BY <1>2, <2>1, <2>3, <3>1
    <3> QED
      BY <3>2, <3>3 DEF NoReset, MembersOf
  <2> QED
    BY <2>2, <2>3
<1> QED
  BY <1>1, <1>3, <1>4 DEF ResetAtMostFirst

\* One more part of a list of accesses.
LEMMA AddPart ==
    ASSUME NEW a \in Seq(Accesses), NEW b \in Seq(Accesses), ResetAtMostFirst(a), NoReset(b)
    PROVE  \E c \in Seq(Accesses) :
               /\ c = a \o b /\ ResetAtMostFirst(c)
               /\ MembersOf(c) = MembersOf(a) \cup MembersOf(b)
BY ConcatMembers, ConcatReset

LEMMA WritesNoReset == \A v : \A e \in WritesOf(v) : e.do = "write"
BY DEF WritesOf, Write

LEMMA ClockMembers ==
    /\ SetInputClk \in Seq(Accesses) /\ NoReset(SetInputClk)
    /\ MembersOf(SetInputClk) = {Write("excfreq", InputClock * 256)}
       \/ MembersOf(SetInputClk) = {[do |-> "refuse"]}
<1>1. CASE InputClock \in 6 .. 27
  <2>1. InputClock * 256 \in Nat /\ "excfreq" \in Regs
    BY SensorAssumption DEF Regs
  <2>2. PICK e \in Accesses : e = Write("excfreq", InputClock * 256) /\ e.do = "write"
    BY <2>1, WriteTypes
  <2>3. SetInputClk = <<e>>
    BY <1>1, <2>2 DEF SetInputClk
  <2>4. <<e>> \in Seq(Accesses) /\ MembersOf(<<e>>) = {e}
    BY MembersOfOne, Zenon
  <2> QED
    BY <2>2, <2>3, <2>4 DEF NoReset
<1>2. CASE InputClock \notin 6 .. 27
  <2>1. PICK e \in Accesses : e = [do |-> "refuse"] /\ e.do = "refuse"
    BY KeepTypes
  <2>2. SetInputClk = <<e>>
    BY <1>2, <2>1 DEF SetInputClk
  <2>3. <<e>> \in Seq(Accesses) /\ MembersOf(<<e>>) = {e}
    BY MembersOfOne, Zenon
  <2> QED
    BY <2>1, <2>2, <2>3 DEF NoReset
<1> QED
  BY <1>1, <1>2

LEMMA ControlsMembers ==
    /\ TakeControls \in Seq(Accesses) /\ NoReset(TakeControls)
    /\ MembersOf(TakeControls) =
           {[do |-> IF RangeChecked THEN "refuse" ELSE "controls"]}
<1>1. PICK k : k = IF RangeChecked THEN "refuse" ELSE "controls"
  OBVIOUS
<1>2. PICK e \in Accesses : e = [do |-> k] /\ e.do = k
  BY <1>1, KeepTypes
<1>3. TakeControls = <<e>>
  <2>1. "dgain" \in Controls /\ ControlDefault["dgain"] > ControlMax["dgain"]
    BY DEF Controls, ControlDefault, ControlMax
  <2> QED
    BY <1>1, <1>2, <2>1 DEF TakeControls
<1>4. <<e>> \in Seq(Accesses) /\ MembersOf(<<e>>) = {e}
  BY MembersOfOne, Zenon
<1>5. NoReset(TakeControls)
  BY <1>1, <1>2, <1>3, <1>4 DEF NoReset
<1> QED
  BY <1>1, <1>2, <1>3, <1>4, <1>5

LEMMA InitMembers ==
    /\ InitAccesses \in Seq(Accesses) /\ ResetAtMostFirst(InitAccesses)
    /\ MembersOf(InitAccesses) =
           {[do |-> "reset"], [do |-> "chip id"]} \cup MembersOf(SetInputClk)
           \cup {Write("vendor", 1)}
           \cup { Write("timing", 1), Write("dgain", ControlDefault.dgain),
                   Write("again", ControlDefault.again), Write("exposure", ControlDefault.exposure) }
           \cup (WritesOf(FormatVal(DefaultFormat))
                  \cup {[do |-> "keep format", val |-> DefaultFormat]})
           \cup (WritesOf(IntervalVal(15)) \cup {[do |-> "keep interval", val |-> 15]})
           \cup MembersOf(TakeControls)
<1>1. PICK h \in Seq(Accesses) :
        /\ h = <<[do |-> "reset"], [do |-> "chip id"]>> /\ ResetAtMostFirst(h)
        /\ MembersOf(h) = {[do |-> "reset"], [do |-> "chip id"]}
  <2>1. PICK a \in Accesses, b \in Accesses : a = [do |-> "reset"] /\ b = [do |-> "chip id"]
    BY KeepTypes
  <2>2. <<a, b>> \in Seq(Accesses) /\ Len(<<a, b>>) = 2 /\ MembersOf(<<a, b>>) = {a, b}
    BY MembersOfTwo, Zenon
  <2>3. PICK h \in Seq(Accesses) : h = <<a, b>> /\ Len(h) = 2 /\ h[2] = b
    BY <2>2
  <2>4. b.do = "chip id"
    BY <2>1
  <2>5. ResetAtMostFirst(h)
    <3>1. \A i \in 2 .. Len(h) : i = 2
      BY <2>3
    <3>2. Len(h) >= 1
      BY <2>3
    <3>3. h[2] = b /\ b.do # "reset"
      BY <2>3, <2>4, Zenon
    <3> QED
      BY <3>1, <3>2, <3>3 DEF ResetAtMostFirst
  <2> QED
    BY <2>1, <2>2, <2>3, <2>5
<1>2. PICK k \in Seq(Accesses) : k = SetInputClk /\ NoReset(k)
  BY ClockMembers
<1>3. PICK v \in Seq(Accesses) : v = VendorRegs /\ NoReset(v) /\ MembersOf(v) = {Write("vendor", 1)}
  <2>1. PICK a \in Accesses : a = Write("vendor", 1) /\ a.do = "write"
    BY WriteTypes DEF Regs
  <2>2. <<a>> \in Seq(Accesses) /\ MembersOf(<<a>>) = {a}
    BY MembersOfOne, Zenon
  <2> QED
    BY <2>1, <2>2 DEF VendorRegs, NoReset
<1>4. PICK i \in Seq(Accesses) :
        /\ i = InitRegs /\ NoReset(i)
        /\ MembersOf(i) =
              { Write("timing", 1), Write("dgain", ControlDefault.dgain),
                Write("again", ControlDefault.again), Write("exposure", ControlDefault.exposure) }
  <2>1. PICK a \in Accesses : a = Write("timing", 1) /\ a.do = "write"
    BY WriteTypes DEF Regs
  <2>2. PICK b \in Accesses : b = Write("dgain", ControlDefault.dgain) /\ b.do = "write"
    BY WriteTypes DEF Regs, Controls, ControlDefault
  <2>3. PICK c \in Accesses : c = Write("again", ControlDefault.again) /\ c.do = "write"
    BY WriteTypes DEF Regs, Controls, ControlDefault
  <2>4. PICK d \in Accesses : d = Write("exposure", ControlDefault.exposure) /\ d.do = "write"
    BY WriteTypes DEF Regs, Controls, ControlDefault
  <2>5. <<a, b, c, d>> \in Seq(Accesses) /\ MembersOf(<<a, b, c, d>>) = {a, b, c, d}
    BY DEF MembersOf
  <2>6. NoReset(<<a, b, c, d>>)
    BY <2>1, <2>2, <2>3, <2>4, <2>5 DEF NoReset
  <2> QED
    BY <2>1, <2>2, <2>3, <2>4, <2>5, <2>6 DEF InitRegs
<1>5. PICK f \in Seq(Accesses) :
        /\ f = FormatAccesses(DefaultFormat) /\ NoReset(f)
        /\ MembersOf(f) = WritesOf(FormatVal(DefaultFormat))
                          \cup {[do |-> "keep format", val |-> DefaultFormat]}
  <2>1. PICK f \in Seq(Accesses) :
          /\ f = FormatAccesses(DefaultFormat)
          /\ MembersOf(f) = WritesOf(FormatVal(DefaultFormat))
                            \cup {[do |-> "keep format", val |-> DefaultFormat]}
    BY FormatMembers, DefaultSupported
  <2>2. ASSUME NEW e \in MembersOf(f) PROVE e.do # "reset"
    <3>1. CASE e \in WritesOf(FormatVal(DefaultFormat))
      <4>1. PICK w : w = FormatVal(DefaultFormat)
        OBVIOUS
      <4> QED
        BY <3>1, <4>1, WritesNoReset
    <3>2. CASE e = [do |-> "keep format", val |-> DefaultFormat]
      BY <3>2
    <3> QED
      BY <2>1, <2>2, <3>1, <3>2
  <2>3. NoReset(f)
    BY <2>2 DEF NoReset
  <2> QED
    BY <2>1, <2>3
<1>6. PICK n \in Seq(Accesses) :
        /\ n = IntervalAccesses(15) /\ NoReset(n)
        /\ MembersOf(n) = WritesOf(IntervalVal(15)) \cup {[do |-> "keep interval", val |-> 15]}
  <2>1. PICK n \in Seq(Accesses) :
          /\ n = IntervalAccesses(15)
          /\ MembersOf(n) = WritesOf(IntervalVal(15)) \cup {[do |-> "keep interval", val |-> 15]}
    BY IntervalMembers, DefaultSupported
  <2>2. ASSUME NEW e \in MembersOf(n) PROVE e.do # "reset"
    <3>1. CASE e \in WritesOf(IntervalVal(15))
      <4>1. PICK w : w = IntervalVal(15)
        OBVIOUS
      <4> QED
        BY <3>1, <4>1, WritesNoReset
    <3>2. CASE e = [do |-> "keep interval", val |-> 15]
      BY <3>2
    <3> QED
      BY <2>1, <2>2, <3>1, <3>2
  <2>3. NoReset(n)
    BY <2>2 DEF NoReset
  <2> QED
    BY <2>1, <2>3
<1>7. PICK c \in Seq(Accesses) : c = TakeControls /\ NoReset(c)
  <2>1. TakeControls \in Seq(Accesses) /\ NoReset(TakeControls)
    BY ControlsMembers
  <2> QED
    BY <2>1, Zenon
<1>8. PICK s \in Seq(Accesses) :
        s = h \o k /\ ResetAtMostFirst(s) /\ MembersOf(s) = MembersOf(h) \cup MembersOf(k)
  <2>1. ResetAtMostFirst(h)
    BY <1>1
  <2>2. NoReset(k)
    BY <1>2
  <2> QED
    BY <2>1, <2>2, AddPart
<1>9. PICK t \in Seq(Accesses) :
        t = s \o v /\ ResetAtMostFirst(t) /\ MembersOf(t) = MembersOf(s) \cup MembersOf(v)
  BY <1>3, <1>8, AddPart
<1>10. PICK u \in Seq(Accesses) :
        u = t \o i /\ ResetAtMostFirst(u) /\ MembersOf(u) = MembersOf(t) \cup MembersOf(i)
  BY <1>4, <1>9, AddPart
<1>11. PICK w \in Seq(Accesses) :
        w = u \o f /\ ResetAtMostFirst(w) /\ MembersOf(w) = MembersOf(u) \cup MembersOf(f)
  BY <1>5, <1>10, AddPart
<1>12. PICK x \in Seq(Accesses) :
        x = w \o n /\ ResetAtMostFirst(x) /\ MembersOf(x) = MembersOf(w) \cup MembersOf(n)
  BY <1>6, <1>11, AddPart
<1>13. PICK y \in Seq(Accesses) :
        y = x \o c /\ ResetAtMostFirst(y) /\ MembersOf(y) = MembersOf(x) \cup MembersOf(c)
  BY <1>7, <1>12, AddPart
<1>14. InitAccesses = y
  BY <1>1, <1>2, <1>3, <1>4, <1>5, <1>6, <1>7, <1>8, <1>9, <1>10, <1>11, <1>12, <1>13
     DEF InitAccesses
<1>15. MembersOf(y) = MembersOf(h) \cup MembersOf(k) \cup MembersOf(v) \cup MembersOf(i)
                      \cup MembersOf(f) \cup MembersOf(n) \cup MembersOf(c)
  BY <1>8, <1>9, <1>10, <1>11, <1>12, <1>13
<1> QED
  BY <1>1, <1>2, <1>3, <1>4, <1>5, <1>6, <1>7, <1>13, <1>14, <1>15

\* The accesses s do what the plan p says.
JobOf(s, p) ==
    /\ s \in Seq(Accesses) /\ ResetAtMostFirst(s)
    /\ \A e \in MembersOf(s) : Fits(e, p)
    /\ \A r \in DOMAIN p.told :
           Write(r, p.told[r]) \in MembersOf(s) \/ [do |-> "refuse"] \in MembersOf(s)
    /\ "keep format" \in p.kinds => [do |-> "keep format", val |-> p.fmt] \in MembersOf(s)
    /\ "keep interval" \in p.kinds => [do |-> "keep interval", val |-> p.fps] \in MembersOf(s)
    /\ "controls" \in p.kinds =>
           {[do |-> "controls"], [do |-> "refuse"]} \cap MembersOf(s) # {}
    /\ "reset" \in p.kinds => [do |-> "reset"] \in MembersOf(s)

LEMMA Begins ==
    ASSUME NEW s, NEW p, JobOf(s, p), todo' = s
    PROVE  todo' \in Seq(Accesses) /\ Planned(p)' /\ DoneOrPending(p)' /\ ResetFirst(p)'
<1>1. Pending' = MembersOf(s)
  BY DEF Pending, MembersOf
<1>2. todo' \in Seq(Accesses) /\ Planned(p)'
  BY <1>1 DEF JobOf, Planned
<1>3. \A r \in DOMAIN p.told : WritePends(p, r)'
  BY <1>1 DEF JobOf, WritePends
<1>4. DoneOrPending(p)'
  BY <1>1, <1>3 DEF JobOf, DoneOrPending
<1>5. ResetFirst(p)'
  BY <1>1, <1>3 DEF JobOf, ResetFirst, ResetAtMostFirst
<1> QED
  BY <1>2, <1>4, <1>5

LEMMA NoResetAtAll ==
    ASSUME NEW s \in Seq(Accesses), NoReset(s), MembersOf(s) # {} PROVE ResetAtMostFirst(s)
<1>1. PICK i \in 1 .. Len(s) : TRUE
  BY DEF MembersOf
<1>2. Len(s) \in Nat /\ Len(s) >= 1
  BY <1>1, LenProperties
<1>3. \A j \in 2 .. Len(s) : j \in 1 .. Len(s)
  BY <1>2
<1> QED
  BY <1>2, <1>3 DEF ResetAtMostFirst, NoReset, MembersOf

LEMMA PlanFields ==
    \A kinds, told, f, n :
        /\ Plan(kinds, told, f, n).kinds = kinds /\ Plan(kinds, told, f, n).told = told
        /\ Plan(kinds, told, f, n).fmt = f /\ Plan(kinds, told, f, n).fps = n
BY DEF Plan

LEMMA WriteFields ==
    \A r, n : Write(r, n).do = "write" /\ Write(r, n).reg = r /\ Write(r, n).val = n
BY DEF Write

LEMMA KeepFields ==
    /\ \A k, v : [do |-> k, val |-> v].do = k /\ [do |-> k, val |-> v].val = v
    /\ \A k : [do |-> k].do = k
OBVIOUS

LEMMA FormatJob ==
    ASSUME NEW f \in Formats, Supported(f)
    PROVE  JobOf(FormatAccesses(f), Plan({"write", "keep format"}, FormatVal(f), f, 15))
<1>0. PICK p, k : /\ p = Plan({"write", "keep format"}, FormatVal(f), f, 15)
                  /\ k = [do |-> "keep format", val |-> f]
  OBVIOUS
<1>1. p.kinds = {"write", "keep format"} /\ p.told = FormatVal(f) /\ p.fmt = f
  BY <1>0 DEF Plan
<1>2. k.do = "keep format" /\ k.val = f
  BY <1>0, KeepFields, Zenon
<1>3. PICK s \in Seq(Accesses) :
        s = FormatAccesses(f) /\ MembersOf(s) = WritesOf(p.told) \cup {k}
  BY <1>0, <1>1, FormatMembers
<1>4. \A e \in WritesOf(p.told) :
        e.do = "write" /\ e.reg \in DOMAIN p.told /\ e.val = p.told[e.reg]
  BY WriteFields DEF WritesOf
<1>5. \A e \in MembersOf(s) : Fits(e, p) /\ e.do # "reset"
  BY <1>1, <1>2, <1>3, <1>4 DEF Fits
<1>6. ResetAtMostFirst(s)
  BY <1>3, <1>5, NoResetAtAll DEF NoReset
<1>7. \A r \in DOMAIN p.told : Write(r, p.told[r]) \in MembersOf(s)
  BY <1>3 DEF WritesOf
<1>8. JobOf(s, p)
  BY <1>0, <1>1, <1>3, <1>5, <1>6, <1>7 DEF JobOf
<1> QED
  BY <1>0, <1>3, <1>8

LEMMA IntervalJob ==
    ASSUME NEW n \in Intervals
    PROVE  JobOf(IntervalAccesses(n),
                 Plan({"write", "keep interval"}, IntervalVal(n), DefaultFormat, n))
<1>0. PICK p, k : /\ p = Plan({"write", "keep interval"}, IntervalVal(n), DefaultFormat, n)
                  /\ k = [do |-> "keep interval", val |-> n]
  OBVIOUS
<1>1. p.kinds = {"write", "keep interval"} /\ p.told = IntervalVal(n) /\ p.fps = n
  BY <1>0 DEF Plan
<1>2. k.do = "keep interval" /\ k.val = n
  BY <1>0, KeepFields, Zenon
<1>3. PICK s \in Seq(Accesses) :
        s = IntervalAccesses(n) /\ MembersOf(s) = WritesOf(p.told) \cup {k}
  BY <1>0, <1>1, IntervalMembers
<1>4. \A e \in WritesOf(p.told) :
        e.do = "write" /\ e.reg \in DOMAIN p.told /\ e.val = p.told[e.reg]
  BY WriteFields DEF WritesOf
<1>5. \A e \in MembersOf(s) : Fits(e, p) /\ e.do # "reset"
  BY <1>1, <1>2, <1>3, <1>4 DEF Fits
<1>6. ResetAtMostFirst(s)
  BY <1>3, <1>5, NoResetAtAll DEF NoReset
<1>7. \A r \in DOMAIN p.told : Write(r, p.told[r]) \in MembersOf(s)
  BY <1>3 DEF WritesOf
<1>8. JobOf(s, p)
  BY <1>0, <1>1, <1>3, <1>5, <1>6, <1>7 DEF JobOf
<1> QED
  BY <1>0, <1>3, <1>8

LEMMA WriteJob ==
    ASSUME NEW c \in Regs, NEW n \in Nat, NEW told, told = [r \in {c} |-> n]
    PROVE  JobOf(<<Write(c, n)>>, Plan({"write"}, told, DefaultFormat, 15))
<1>0. PICK p : p = Plan({"write"}, told, DefaultFormat, 15)
  OBVIOUS
<1>1. p.kinds = {"write"} /\ p.told = told /\ DOMAIN told = {c} /\ told[c] = n
  BY <1>0 DEF Plan
<1>2. PICK w \in Accesses : w = Write(c, n) /\ w.do = "write" /\ w.reg = c /\ w.val = n
  BY WriteTypes
<1>3. <<w>> \in Seq(Accesses) /\ MembersOf(<<w>>) = {w}
  BY MembersOfOne, Zenon
<1>4. PICK s \in Seq(Accesses) : s = <<Write(c, n)>> /\ MembersOf(s) = {w}
  BY <1>2, <1>3
<1>5. \A e \in MembersOf(s) : Fits(e, p) /\ e.do # "reset"
  BY <1>1, <1>2, <1>4 DEF Fits
<1>6. ResetAtMostFirst(s)
  BY <1>4, <1>5, NoResetAtAll DEF NoReset
<1>7. \A r \in DOMAIN p.told : Write(r, p.told[r]) \in MembersOf(s)
  BY <1>1, <1>2, <1>4
<1>8. JobOf(s, p)
  BY <1>1, <1>5, <1>6, <1>7 DEF JobOf
<1> QED
  BY <1>0, <1>4, <1>8

LEMMA InitJob == JobOf(InitAccesses, Plan(InitKinds, InitVal, DefaultFormat, 15))
<1>1. PICK p : p = Plan(InitKinds, InitVal, DefaultFormat, 15)
  OBVIOUS
<1>2. p.kinds = InitKinds /\ p.told = InitVal /\ p.fmt = DefaultFormat /\ p.fps = 15
  BY <1>1 DEF Plan
<1>3. PICK v, fv, iv : v = InitVal /\ fv = FormatVal(DefaultFormat) /\ iv = IntervalVal(15)
  OBVIOUS
<1>4. /\ DOMAIN v = Regs \ {"mode", "pattern", "pedestal"}
      /\ DOMAIN fv = FormatDomain /\ DOMAIN iv = IntervalDomain
  BY <1>3, InitValues, DefaultSupported, FormatValues, IntervalValues
<1>5. /\ \A r \in FormatDomain : r \in DOMAIN v /\ v[r] = fv[r]
      /\ \A r \in IntervalDomain : r \in DOMAIN v /\ v[r] = iv[r]
      /\ \A c \in {"exposure", "again", "dgain"} : c \in DOMAIN v /\ v[c] = ControlDefault[c]
      /\ v["excfreq"] = InputClock * 256 /\ v["vendor"] = 1 /\ v["timing"] = 1
  BY <1>3, InitValues
<1>6. {"exposure", "again", "dgain", "excfreq", "vendor", "timing"} \subseteq DOMAIN v
  BY <1>4 DEF Regs, Controls
<1>7. DOMAIN v = FormatDomain \cup IntervalDomain \cup {"exposure", "again", "dgain"}
                 \cup {"excfreq", "vendor", "timing"}
  BY <1>4 DEF Regs, Controls, FormatDomain, IntervalDomain
<1>8. PICK kf, ki : /\ kf = [do |-> "keep format", val |-> DefaultFormat]
                    /\ ki = [do |-> "keep interval", val |-> 15]
  OBVIOUS
<1>9. kf.do = "keep format" /\ kf.val = DefaultFormat /\ ki.do = "keep interval" /\ ki.val = 15
  BY <1>8, KeepFields, Zenon
<1>10. PICK m : m = MembersOf(InitAccesses)
  OBVIOUS
<1>11. ControlDefault.dgain = v["dgain"] /\ ControlDefault.again = v["again"]
       /\ ControlDefault.exposure = v["exposure"]
  BY <1>5 DEF ControlDefault
<1>12. m = {[do |-> "reset"], [do |-> "chip id"]} \cup MembersOf(SetInputClk)
           \cup {Write("vendor", v["vendor"])}
           \cup { Write("timing", v["timing"]), Write("dgain", v["dgain"]),
                  Write("again", v["again"]), Write("exposure", v["exposure"]) }
           \cup (WritesOf(fv) \cup {kf}) \cup (WritesOf(iv) \cup {ki})
           \cup MembersOf(TakeControls)
  BY <1>3, <1>5, <1>8, <1>10, <1>11, InitMembers
<1>13. /\ [do |-> "reset"] \in m /\ kf \in m /\ ki \in m
       /\ WritesOf(fv) \subseteq m /\ WritesOf(iv) \subseteq m
       /\ \A c \in {"exposure", "again", "dgain"} : Write(c, v[c]) \in m
       /\ Write("vendor", v["vendor"]) \in m /\ Write("timing", v["timing"]) \in m
  BY <1>12
<1>14. Write("excfreq", v["excfreq"]) \in m \/ [do |-> "refuse"] \in m
  BY <1>5, <1>12, ClockMembers
<1>0. {[do |-> "controls"], [do |-> "refuse"]} \cap m # {}
  <2>1. MembersOf(TakeControls) \subseteq m
    BY <1>12
  <2> QED
    BY <2>1, ControlsMembers
<1>15. ASSUME NEW e \in m
       PROVE  \/ e.do \in {"reset", "chip id", "refuse", "controls"} \/ e = kf \/ e = ki
              \/ \E r \in DOMAIN v : e = Write(r, v[r])
  <2>1. CASE e \in WritesOf(fv)
    <3>1. PICK r \in FormatDomain : e = Write(r, fv[r])
      BY <1>4, <2>1 DEF WritesOf
    <3> QED
      BY <1>5, <3>1
  <2>2. CASE e \in WritesOf(iv)
    <3>1. PICK r \in IntervalDomain : e = Write(r, iv[r])
      BY <1>4, <2>2 DEF WritesOf
    <3> QED
      BY <1>5, <3>1
  <2>3. CASE e \in { Write("timing", v["timing"]), Write("dgain", v["dgain"]),
                     Write("again", v["again"]), Write("exposure", v["exposure"]),
                     Write("vendor", v["vendor"]), Write("excfreq", v["excfreq"]) }
    BY <1>6, <2>3
  <2>4. CASE e \in {[do |-> "reset"], [do |-> "chip id"], [do |-> "refuse"], [do |-> "controls"]}
    BY <2>4, KeepFields
  <2>5. \/ e \in WritesOf(fv) \/ e \in WritesOf(iv) \/ e = kf \/ e = ki
        \/ e \in {[do |-> "reset"], [do |-> "chip id"], [do |-> "refuse"], [do |-> "controls"]}
        \/ e \in { Write("timing", v["timing"]), Write("dgain", v["dgain"]),
                    Write("again", v["again"]), Write("exposure", v["exposure"]),
                    Write("vendor", v["vendor"]), Write("excfreq", v["excfreq"]) }
    <3>1. \/ MembersOf(TakeControls) = {[do |-> "refuse"]}
          \/ MembersOf(TakeControls) = {[do |-> "controls"]}
      BY ControlsMembers
    <3> QED
      BY <1>5, <1>12, <3>1, ClockMembers
  <2> QED
    BY <2>1, <2>2, <2>3, <2>4, <2>5
<1>16. \A e \in m : Fits(e, p)
  <2>1. TAKE e \in m
  <2>2. CASE e.do \in {"reset", "chip id", "refuse", "controls"}
    BY <1>2, <2>2 DEF Fits, InitKinds
  <2>3. CASE e = kf
    BY <1>2, <1>9, <2>3 DEF Fits, InitKinds
  <2>4. CASE e = ki
    BY <1>2, <1>9, <2>4 DEF Fits, InitKinds
  <2>5. ASSUME NEW r \in DOMAIN v, e = Write(r, v[r]) PROVE Fits(e, p)
    <3>1. e.do = "write" /\ e.reg = r /\ e.val = v[r]
      BY <2>5, WriteFields
    <3> QED
      BY <1>2, <1>3, <3>1 DEF Fits, InitKinds
  <2> QED
    BY <1>15, <2>2, <2>3, <2>4, <2>5
<1>17. ASSUME NEW r \in DOMAIN v PROVE Write(r, v[r]) \in m \/ [do |-> "refuse"] \in m
  <2>1. CASE r \in FormatDomain
    BY <1>4, <1>5, <1>13, <2>1 DEF WritesOf
  <2>2. CASE r \in IntervalDomain
    BY <1>4, <1>5, <1>13, <2>2 DEF WritesOf
  <2> QED
    BY <1>7, <1>13, <1>14, <2>1, <2>2
<1>18. JobOf(InitAccesses, p)
  BY <1>0, <1>2, <1>3, <1>8, <1>10, <1>13, <1>16, <1>17, InitMembers DEF JobOf
<1> QED
  BY <1>1, <1>18

-----------------------------------------------------------------------------
(* What the plans have in common *)

\* The registers of a group.
RegsOf(g) == IF g = "format" THEN FormatDomain ELSE IF g = "interval" THEN IntervalDomain ELSE {g}

\* A plan writes registers of the sensor, leaves alone those of the groups that the
\* call is not about, and keeps the Bayer pattern.
Sane(c, p) ==
    /\ DOMAIN p.told \subseteq Regs /\ \A r \in DOMAIN p.told : p.told[r] \in Nat
    /\ \A r \in {"xsta", "ysta"} \cap DOMAIN p.told : p.told[r] % 2 = 0
    /\ Supported(p.fmt) /\ p.fps \in Intervals
    /\ c # "init" =>
          /\ \A g \in Groups \ {c} : RegsOf(g) \cap DOMAIN p.told = {}
          /\ p.kinds \subseteq {"write", "keep format", "keep interval"}
          /\ "keep format" \in p.kinds <=> c = "format"
          /\ "keep interval" \in p.kinds <=> c = "interval"
    /\ c = "init" => p = Plan(InitKinds, InitVal, DefaultFormat, 15)
    /\ "reset" \in p.kinds <=> c = "init"

LEMMA PlansSane ==
    ASSUME NEW c \in {"init", "mode"} \cup Groups, ctrl \in [Controls -> Nat], NEW p \in PlansOf(c)
    PROVE  Sane(c, p)
<1>1. CASE c = "init"
  <2>1. p = Plan(InitKinds, InitVal, DefaultFormat, 15)
    BY <1>1 DEF PlansOf
  <2>2. p.kinds = InitKinds /\ p.told = InitVal /\ p.fmt = DefaultFormat /\ p.fps = 15
    BY <2>1 DEF Plan
  <2>3. PICK v : v = InitVal
    OBVIOUS
  <2>4. /\ DOMAIN v \subseteq Regs /\ \A r \in DOMAIN v : v[r] \in Nat
        /\ v["xsta"] % 2 = 0 /\ v["ysta"] % 2 = 0
    BY <2>3, InitValues, DefaultSupported, FormatValues DEF FormatDomain
  <2> QED
    BY <1>1, <2>1, <2>2, <2>3, <2>4, DefaultSupported DEF Sane, InitKinds
<1>2. CASE c = "format"
  <2>1. PICK f \in Formats : Supported(f) /\ p = Plan({"write", "keep format"}, FormatVal(f), f, 15)
    BY <1>2 DEF PlansOf
  <2>2. PICK v : v = FormatVal(f)
    OBVIOUS
  <2>3. p.kinds = {"write", "keep format"} /\ p.told = v /\ p.fmt = f /\ p.fps = 15
    BY <2>1, <2>2 DEF Plan
  <2>4. v \in [FormatDomain -> Nat] /\ v["xsta"] % 2 = 0 /\ v["ysta"] % 2 = 0
    BY <2>1, <2>2, FormatValues
  <2>5. FormatDomain \subseteq Regs /\ \A g \in Groups \ {c} : RegsOf(g) \cap FormatDomain = {}
    BY <1>2 DEF Groups, Controls, RegsOf, FormatDomain, IntervalDomain, Regs
  <2> QED
    BY <1>2, <2>1, <2>3, <2>4, <2>5, DefaultSupported DEF Sane
<1>3. CASE c = "interval"
  <2>1. PICK n \in Intervals : p = Plan({"write", "keep interval"}, IntervalVal(n), DefaultFormat, n)
    BY <1>3 DEF PlansOf
  <2>2. PICK v : v = IntervalVal(n)
    OBVIOUS
  <2>3. p.kinds = {"write", "keep interval"} /\ p.told = v /\ p.fmt = DefaultFormat /\ p.fps = n
    BY <2>1, <2>2 DEF Plan
  <2>4. v \in [IntervalDomain -> Nat] /\ {"xsta", "ysta"} \cap IntervalDomain = {}
    BY <2>2, IntervalValues DEF IntervalDomain
  <2>5. IntervalDomain \subseteq Regs /\ \A g \in Groups \ {c} : RegsOf(g) \cap IntervalDomain = {}
    BY <1>3 DEF Groups, Controls, RegsOf, FormatDomain, IntervalDomain, Regs
  <2> QED
    BY <1>3, <2>3, <2>4, <2>5, DefaultSupported DEF Sane
<1>4. CASE c \in {"mode"} \cup Controls
  <2>1. PICK n \in Nat : p = Plan({"write"}, [r \in {c} |-> n], DefaultFormat, 15)
    <3>1. CASE c = "mode"
      <4>1. PICK on \in {0, 1} : p = Plan({"write"}, [mode |-> on], DefaultFormat, 15)
        BY <3>1 DEF PlansOf
      <4>2. [mode |-> on] = [r \in {c} |-> on]
        BY <3>1
      <4> QED
        BY <4>1, <4>2
    <3>2. CASE c \in Controls
      <4>1. c \notin {"init", "format", "interval", "mode"}
        BY <3>2 DEF Controls
      <4>2. ctrl[c] \in Nat /\ p = Plan({"write"}, [r \in {c} |-> ctrl[c]], DefaultFormat, 15)
        BY <3>2, <4>1 DEF PlansOf
      <4> QED
        BY <4>2
    <3> QED
      BY <1>4, <3>1, <3>2
  <2>2. PICK v : v = [r \in {c} |-> n]
    OBVIOUS
  <2>3. p.kinds = {"write"} /\ p.told = v /\ p.fmt = DefaultFormat /\ p.fps = 15
    BY <2>1, <2>2 DEF Plan
  <2>4. DOMAIN v = {c} /\ v[c] \in Nat
    BY <2>2
  <2>5. c \in Regs /\ c \notin {"xsta", "ysta", "init", "format", "interval"}
    BY <1>4 DEF Controls, Regs
  <2>6. \A g \in Groups \ {c} : c \notin RegsOf(g)
    BY <1>4 DEF Groups, Controls, RegsOf, FormatDomain, IntervalDomain
  <2> QED
    BY <2>3, <2>4, <2>5, <2>6, DefaultSupported DEF Sane
<1> QED
  BY <1>1, <1>2, <1>3, <1>4 DEF Groups

\* An access of kind k leaves the list, and nothing else of the plan does.
Leaves(k, p) ==
    /\ Head(todo) \in Accesses /\ Head(todo).do = k /\ Fits(Head(todo), p)
    /\ todo' \in Seq(Accesses) /\ Planned(p)'
    /\ \A r \in DOMAIN p.told : WritePends(p, r) =>
           WritePends(p, r)' \/ (k = "write" /\ Head(todo) = Write(r, p.told[r]))
    /\ \A e \in Pending : e.do # k => e \in Pending'
    /\ \A i \in 2 .. Len(todo') : todo'[i].do # "reset"
    /\ [do |-> "reset"] \notin Pending'
    /\ k # "reset" => [do |-> "reset"] \notin Pending

LEMMA PopPlan ==
    ASSUME todo \in Seq(Accesses), NEW k, Next1(k), k # "refuse", todo' = Tail(todo),
           NEW p, Planned(p), ResetFirst(p)
    PROVE  Leaves(k, p)
<1>1. todo # <<>> /\ Head(todo).do = k
  BY DEF Next1
<1>2. /\ todo' \in Seq(Accesses) /\ Head(todo) \in Accesses /\ Head(todo) \in Pending
      /\ Pending' \subseteq Pending
      /\ \A e \in Pending : e = Head(todo) \/ e \in Pending'
  BY <1>1, Popped
<1>3. Planned(p)' /\ Fits(Head(todo), p)
  BY <1>2 DEF Planned
<1>4. \A e \in Pending : e.do # k => e \in Pending'
  BY <1>1, <1>2
<1>5. ASSUME NEW r \in DOMAIN p.told, WritePends(p, r)
      PROVE  WritePends(p, r)' \/ (k = "write" /\ Head(todo) = Write(r, p.told[r]))
  <2>1. CASE [do |-> "refuse"] \in Pending
    BY <1>4, <2>1, KeepFields DEF WritePends
  <2>2. CASE Write(r, p.told[r]) \in Pending
    <3>1. Write(r, p.told[r]).do = "write"
      BY WriteFields
    <3> QED
      BY <1>1, <1>2, <2>2, <3>1 DEF WritePends
  <2> QED
    BY <1>5, <2>1, <2>2 DEF WritePends
<1>6. /\ \A i \in 2 .. Len(todo') : todo'[i].do # "reset"
      /\ [do |-> "reset"] \notin Pending'
      /\ k # "reset" => [do |-> "reset"] \notin Pending
  BY <1>1, ResetGone DEF ResetFirst
<1> QED
  BY <1>1, <1>2, <1>3, <1>4, <1>5, <1>6 DEF Leaves

LEMMA ResetStaysFirst ==
    ASSUME NEW k, NEW p, Leaves(k, p), ResetFirst(p), k # "reset",
           "reset" \in p.kinds => regs'["mode"] = regs["mode"] /\ regs'["pattern"] = regs["pattern"]
    PROVE  ResetFirst(p)'
BY DEF Leaves, ResetFirst

\* An access that succeeds moves a part of the plan from pending to done.
Step == Reset \/ ChipId \/ WriteReg \/ KeepFormat \/ KeepInterval \/ InitCtrls

LEMMA PlanKept ==
    ASSUME NEW p, Sane(call, p), todo \in Seq(Accesses), regs \in [Regs -> Int],
           Planned(p), DoneOrPending(p), ResetFirst(p), Step
    PROVE  Planned(p)' /\ DoneOrPending(p)' /\ ResetFirst(p)' /\ todo' \in Seq(Accesses)
<1>1. CASE Reset
  <2>1. Next1("reset") /\ todo' = Tail(todo) /\ regs' = ResetRegs /\ UNCHANGED driver
    BY <1>1 DEF Reset
  <2>2. Leaves("reset", p)
    BY <2>1, PopPlan
  <2>3. Head(todo) \in Pending /\ Head(todo) = [do |-> "reset"]
    BY <2>1, Popped, AccessKinds DEF Next1
  <2>4. \A r \in DOMAIN p.told : WritePends(p, r)
    BY <2>3 DEF ResetFirst
  <2>5. \A r \in DOMAIN p.told : WritePends(p, r)'
    BY <2>1, <2>2, <2>4 DEF Leaves
  <2>6. \A e \in Pending : e.do # "reset" => e \in Pending'
    BY <2>1, <2>2 DEF Leaves
  <2>7. DoneOrPending(p)'
    BY <2>1, <2>5, <2>6, KeepFields DEF DoneOrPending, driver
  <2>8. regs'["mode"] = 0 /\ regs'["pattern"] = 0
    BY <2>1 DEF ResetRegs, Regs, Controls
  <2>9. ResetFirst(p)'
    BY <2>1, <2>2, <2>8 DEF Leaves, ResetFirst
  <2> QED
    BY <2>1, <2>2, <2>7, <2>9 DEF Leaves
<1>2. CASE ChipId
  <2>1. Next1("chip id") /\ todo' = Tail(todo) /\ UNCHANGED regs /\ UNCHANGED driver
    BY <1>2 DEF ChipId
  <2>2. Leaves("chip id", p)
    BY <2>1, PopPlan
  <2>3. \A r \in DOMAIN p.told : WritePends(p, r) => WritePends(p, r)'
    BY <2>1, <2>2 DEF Leaves
  <2>4. \A e \in Pending : e.do # "chip id" => e \in Pending'
    BY <2>1, <2>2 DEF Leaves
  <2>5. DoneOrPending(p)'
    BY <2>1, <2>3, <2>4, KeepFields DEF DoneOrPending, driver
  <2>6. ResetFirst(p)'
    BY <2>1, <2>2, ResetStaysFirst
  <2> QED
    BY <2>1, <2>2, <2>5, <2>6 DEF Leaves
<1>3. CASE WriteReg
  <2>1. /\ Next1("write") /\ todo' = Tail(todo) /\ UNCHANGED driver
        /\ regs' = [regs EXCEPT ![Head(todo).reg] = Head(todo).val]
    BY <1>3 DEF WriteReg
  <2>2. Leaves("write", p)
    BY <2>1, PopPlan
  <2>3. PICK q \in DOMAIN p.told : Head(todo) = Write(q, p.told[q])
    <3>1. PICK e \in Accesses : e = Head(todo) /\ e.do = "write" /\ Fits(e, p)
      BY <2>2 DEF Leaves
    <3>2. e = Write(e.reg, e.val)
      BY <3>1, AccessKinds
    <3>3. e.reg \in DOMAIN p.told /\ e.val = p.told[e.reg]
      BY <3>1 DEF Fits
    <3>4. e = Write(e.reg, p.told[e.reg])
      BY <3>2, <3>3
    <3> QED
      BY <3>1, <3>3, <3>4
  <2>4. q \in Regs /\ regs' = [regs EXCEPT ![q] = p.told[q]]
    <3>1. Head(todo).reg = q /\ Head(todo).val = p.told[q]
      BY <2>3, WriteFields
    <3> QED
      BY <2>1, <3>1 DEF Sane
  <2>5. \A r \in DOMAIN p.told : WritePends(p, r) => WritePends(p, r)' \/ r = q
    <3>1. TAKE r \in DOMAIN p.told
    <3>2. Write(q, p.told[q]) = Write(r, p.told[r]) => r = q
      BY WriteFields
    <3> QED
      BY <2>1, <2>2, <2>3, <3>2 DEF Leaves
  <2>6. \A r \in DOMAIN p.told : regs'[r] = p.told[r] \/ WritePends(p, r)'
    BY <2>4, <2>5 DEF DoneOrPending, Sane
  <2>7. \A e \in Pending : e.do # "write" => e \in Pending'
    BY <2>1, <2>2 DEF Leaves
  <2>8. DoneOrPending(p)'
    BY <2>1, <2>6, <2>7, KeepFields DEF DoneOrPending, driver
  <2>9. "reset" \in p.kinds => q \notin {"mode", "pattern"}
    <3>1. "reset" \in p.kinds => p = Plan(InitKinds, InitVal, DefaultFormat, 15)
      BY DEF Sane
    <3>2. "reset" \in p.kinds => p.told = InitVal
      BY <3>1 DEF Plan
    <3> QED
      BY <3>2, InitValues
  <2>10. "reset" \in p.kinds => regs'["mode"] = regs["mode"] /\ regs'["pattern"] = regs["pattern"]
    BY <2>4, <2>9 DEF Regs, Controls
  <2>11. ResetFirst(p)'
    BY <2>2, <2>10, ResetStaysFirst
  <2> QED
    BY <2>1, <2>2, <2>8, <2>11 DEF Leaves
<1>4. CASE KeepFormat
  <2>1. /\ Next1("keep format") /\ todo' = Tail(todo) /\ UNCHANGED <<regs, fps, ctrl>>
        /\ fmt' = Head(todo).val
    BY <1>4 DEF KeepFormat
  <2>2. Leaves("keep format", p)
    BY <2>1, PopPlan
  <2>3. fmt' = p.fmt
    BY <2>1, <2>2 DEF Leaves, Fits
  <2>4. \A r \in DOMAIN p.told : WritePends(p, r) => WritePends(p, r)'
    BY <2>1, <2>2 DEF Leaves
  <2>5. \A e \in Pending : e.do # "keep format" => e \in Pending'
    BY <2>1, <2>2 DEF Leaves
  <2>6. DoneOrPending(p)'
    BY <2>1, <2>3, <2>4, <2>5, KeepFields DEF DoneOrPending
  <2>7. ResetFirst(p)'
    BY <2>1, <2>2, ResetStaysFirst
  <2> QED
    BY <2>1, <2>2, <2>6, <2>7 DEF Leaves
<1>5. CASE KeepInterval
  <2>1. /\ Next1("keep interval") /\ todo' = Tail(todo) /\ UNCHANGED <<regs, fmt, ctrl>>
        /\ fps' = Head(todo).val
    BY <1>5 DEF KeepInterval
  <2>2. Leaves("keep interval", p)
    BY <2>1, PopPlan
  <2>3. fps' = p.fps
    BY <2>1, <2>2 DEF Leaves, Fits
  <2>4. \A r \in DOMAIN p.told : WritePends(p, r) => WritePends(p, r)'
    BY <2>1, <2>2 DEF Leaves
  <2>5. \A e \in Pending : e.do # "keep interval" => e \in Pending'
    BY <2>1, <2>2 DEF Leaves
  <2>6. DoneOrPending(p)'
    BY <2>1, <2>3, <2>4, <2>5, KeepFields DEF DoneOrPending
  <2>7. ResetFirst(p)'
    BY <2>1, <2>2, ResetStaysFirst
  <2> QED
    BY <2>1, <2>2, <2>6, <2>7 DEF Leaves
<1>6. CASE InitCtrls
  <2>1. /\ Next1("controls") /\ todo' = Tail(todo) /\ UNCHANGED <<regs, fmt, fps>>
        /\ ctrl' = ControlDefault
    BY <1>6 DEF InitCtrls
  <2>2. Leaves("controls", p)
    BY <2>1, PopPlan
  <2>3. \A r \in DOMAIN p.told : WritePends(p, r) => WritePends(p, r)'
    BY <2>1, <2>2 DEF Leaves
  <2>4. \A e \in Pending : e.do # "controls" => e \in Pending'
    BY <2>1, <2>2 DEF Leaves
  <2>5. DoneOrPending(p)'
    BY <2>1, <2>3, <2>4, KeepFields DEF DoneOrPending
  <2>6. ResetFirst(p)'
    BY <2>1, <2>2, ResetStaysFirst
  <2> QED
    BY <2>1, <2>2, <2>5, <2>6 DEF Leaves
<1> QED
  BY <1>1, <1>2, <1>3, <1>4, <1>5, <1>6 DEF Step

-----------------------------------------------------------------------------
(* What an access changes *)

Running == call \notin {"off", "idle", "dead"}

LEMMA CallKinds ==
    TypeOK /\ Running => call \in {"init", "mode"} \cup Groups /\ "idle" \notin Groups
BY DEF TypeOK, Running, Groups, Controls

LEMMA StepBasics ==
    ASSUME Step
    PROVE  /\ todo # <<>> /\ todo' = Tail(todo) /\ call' = call /\ failures' = failures
           /\ untold' \subseteq untold
BY DEF Step, Reset, ChipId, WriteReg, KeepFormat, KeepInterval, InitCtrls, Next1, driver

LEMMA FailBasics ==
    ASSUME Fails
    PROVE  /\ todo # <<>> /\ todo' = <<>> /\ fmt' = fmt /\ ctrl' = ctrl
           /\ call' = IF call = "init" THEN "dead" ELSE "idle"
           /\ untold' = untold \cup ({call} \cap Groups)
           /\ fps' \in FpsAnyway
           /\ \/ regs' = regs
              \/ Head(todo).do = "reset" /\ regs' = ResetRegs
              \/ /\ Head(todo).do = "write"
                 /\ regs' = [regs EXCEPT ![Head(todo).reg] = Head(todo).val]
           /\ failures' = failures \/ (failures < MaxFailures /\ failures' = failures + 1)
<1>1. EndsCall(Head(todo))
  BY DEF EndsCall
<1> QED
  BY <1>1 DEF Fails

\* The first access fits the plan.
LEMMA HeadFits ==
    ASSUME todo \in Seq(Accesses), todo # <<>>, NEW p, Planned(p)
    PROVE  Head(todo) \in Accesses /\ Fits(Head(todo), p)
<1>1. Head(todo) \in Accesses /\ Head(todo) \in Pending
  <2>1. /\ Head(todo) = todo[1] /\ Head(todo) \in Accesses
        /\ Len(todo) \in Nat /\ Len(todo) >= 1
    BY HeadTailProperties, LenProperties, EmptySeq
  <2> QED
    BY <2>1 DEF Pending, MembersOf
<1> QED
  BY <1>1 DEF Planned

\* A register changes to what the plan says of it, or in the reset.
RegsMove(p) ==
    /\ regs' \in [Regs -> Int]
    /\ \/ call = "init" /\ regs' = ResetRegs
       \/ \A r \in Regs : regs'[r] = regs[r] \/ (r \in DOMAIN p.told /\ regs'[r] = p.told[r])

LEMMA RegsMoved ==
    ASSUME todo \in Seq(Accesses), regs \in [Regs -> Int], NEW p, Sane(call, p), Planned(p),
           Step \/ Fails
    PROVE  RegsMove(p)
<1>1. PICK e \in Accesses : e = Head(todo) /\ Fits(e, p)
  BY HeadFits, StepBasics, FailBasics
<1>2. \/ regs' = regs
      \/ e.do = "reset" /\ regs' = ResetRegs
      \/ e.do = "write" /\ regs' = [regs EXCEPT ![e.reg] = e.val]
  <2>1. CASE Step
    BY <1>1, <2>1
       DEF Step, Reset, ChipId, WriteReg, KeepFormat, KeepInterval, InitCtrls, Next1, driver
  <2> QED
    BY <1>1, <2>1, FailBasics
<1>3. CASE regs' = regs
  BY <1>3 DEF RegsMove
<1>4. CASE e.do = "reset" /\ regs' = ResetRegs
  <2>1. "reset" \in p.kinds
    BY <1>1, <1>4 DEF Fits
  <2>2. ResetRegs \in [Regs -> Int]
    BY DEF ResetRegs, Unwritten
  <2> QED
    BY <1>4, <2>1, <2>2 DEF RegsMove, Sane
<1>5. CASE e.do = "write" /\ regs' = [regs EXCEPT ![e.reg] = e.val]
  <2>1. PICK q \in DOMAIN p.told : q = e.reg /\ e.val = p.told[q]
    BY <1>1, <1>5 DEF Fits
  <2>2. q \in Regs /\ p.told[q] \in Nat
    BY DEF Sane
  <2>3. regs' = [regs EXCEPT ![q] = p.told[q]]
    BY <1>5, <2>1
  <2> QED
    BY <2>2, <2>3 DEF RegsMove
<1> QED
  BY <1>2, <1>3, <1>4, <1>5

\* A setter changes nothing of the groups that it is not about.
SetterFrame ==
    /\ ctrl' = ctrl
    /\ call # "format" => fmt' = fmt
    /\ call # "interval" => fps' = fps
    /\ \A g \in Groups \ {call} : g \notin untold' => g \notin untold

LEMMA SetterKeepsOthers ==
    ASSUME todo \in Seq(Accesses), call # "init", NEW p, Sane(call, p), Planned(p), Step \/ Fails
    PROVE  SetterFrame
<1>1. PICK e \in Accesses : e = Head(todo) /\ Fits(e, p)
  BY HeadFits, StepBasics, FailBasics
<1>2. e.do \in {"write", "keep format", "keep interval"}
      /\ (e.do = "keep format" => call = "format")
      /\ (e.do = "keep interval" => call = "interval")
  BY <1>1 DEF Fits, Sane
<1>3. CASE Step
  <2>1. CASE WriteReg
    BY <2>1 DEF WriteReg, SetterFrame, driver
  <2>2. CASE KeepFormat
    BY <1>1, <1>2, <2>2 DEF KeepFormat, Next1, SetterFrame
  <2>3. CASE KeepInterval
    BY <1>1, <1>2, <2>3 DEF KeepInterval, Next1, SetterFrame
  <2>4. ~Reset /\ ~ChipId /\ ~InitCtrls
    BY <1>1, <1>2 DEF Reset, ChipId, InitCtrls, Next1
  <2> QED
    BY <1>3, <2>1, <2>2, <2>3, <2>4 DEF Step
<1>4. CASE Fails
  <2>1. call # "interval" => fps' = fps
    <3>1. SUFFICES ASSUME call # "interval" PROVE fps' = fps
      OBVIOUS
    <3>2. RegsOf("interval") \cap DOMAIN p.told = {}
      BY <3>1 DEF Sane, Groups
    <3>3. ~(e.do = "write" /\ e.reg \in {"dividers", "vtmpy", "opmpy"})
      BY <1>1, <3>2 DEF Fits, RegsOf, IntervalDomain
    <3>4. FpsAnyway = {fps}
      BY <1>1, <3>3 DEF FpsAnyway
    <3> QED
      BY <1>4, <3>4, FailBasics
  <2> QED
    BY <1>4, <2>1, FailBasics DEF SetterFrame
<1> QED
  BY <1>3, <1>4

\* What fits the interval of a call that fails is an interval.
LEMMA FpsTyped ==
    ASSUME todo \in Seq(Accesses), fps \in {0, 15, 30} PROVE FpsAnyway \subseteq {0, 15, 30}
<1>1. ASSUME NEW e \in ToSet(todo), e.do = "keep interval" PROVE e.val \in {0, 15, 30}
  <2>1. PICK i \in 1 .. Len(todo) : e = todo[i]
    BY LenProperties, ElementOfSeq DEF ToSet
  <2>2. e \in Accesses
    BY <2>1, ElementOfSeq
  <2> QED
    BY <1>1, <2>2, AccessKinds DEF Intervals
<1> QED
  BY <1>1 DEF FpsAnyway

-----------------------------------------------------------------------------
(* Types *)

LEMMA JobsTyped ==
    /\ InitAccesses \in Seq(Accesses)
    /\ \A f \in Formats : Supported(f) => FormatAccesses(f) \in Seq(Accesses)
    /\ \A n \in Intervals : IntervalAccesses(n) \in Seq(Accesses)
    /\ \A c \in Regs, n \in Nat : <<Write(c, n)>> \in Seq(Accesses)
<1>1. InitAccesses \in Seq(Accesses)
  BY InitMembers
<1>2. \A f \in Formats : Supported(f) => FormatAccesses(f) \in Seq(Accesses)
  BY FormatMembers
<1>3. \A n \in Intervals : IntervalAccesses(n) \in Seq(Accesses)
  BY IntervalMembers
<1>4. ASSUME NEW c \in Regs, NEW n \in Nat PROVE <<Write(c, n)>> \in Seq(Accesses)
  <2>1. PICK w \in Accesses : w = Write(c, n)
    BY WriteTypes
  <2> QED
    BY <2>1, MembersOfOne
<1> QED
  BY <1>1, <1>2, <1>3, <1>4

LEMMA TypeInit == Init => TypeInv
BY SensorAssumption DEF Init, TypeInv, TypeOK, Unwritten, Groups

LEMMA CallTyped ==
    ASSUME TypeOK, Step \/ Fails
    PROVE  /\ call' \in {"off", "init", "idle", "mode", "dead"} \cup Groups
           /\ untold' \subseteq Groups /\ failures' \in 0 .. MaxFailures
           /\ call' \in {"off", "idle", "dead"} => todo' = <<>>
<1>1. CASE Step
  BY <1>1, StepBasics DEF TypeOK
<1>2. CASE Fails
  BY <1>2, FailBasics, SensorAssumption DEF TypeOK
<1> QED
  BY <1>1, <1>2

LEMMA DataTyped ==
    ASSUME TypeInv, Step \/ Fails
    PROVE  /\ fmt'.width \in Nat /\ fmt'.height \in Nat /\ fps' \in {0, 15, 30}
           /\ ctrl' \in [Controls -> Nat] /\ todo' \in Seq(Accesses)
<1>0. /\ todo \in Seq(Accesses) /\ fps \in {0, 15, 30} /\ ctrl \in [Controls -> Nat]
      /\ fmt.width \in Nat /\ fmt.height \in Nat
  BY DEF TypeInv, TypeOK
<1>1. CASE Step
  <2>1. Head(todo) \in Accesses /\ todo' \in Seq(Accesses)
    BY <1>0, <1>1, StepBasics, Popped
  <2>2. CASE KeepFormat
    <3>1. Supported(Head(todo).val)
      BY <2>1, <2>2, AccessKinds DEF KeepFormat, Next1
    <3>2. Head(todo).val.width \in Nat /\ Head(todo).val.height \in Nat
      BY <3>1, Centred DEF Supported
    <3> QED
      BY <1>0, <2>1, <2>2, <3>2 DEF KeepFormat
  <2>3. CASE KeepInterval
    <3>1. Head(todo).val \in {0, 15, 30}
      BY <2>1, <2>3, AccessKinds DEF KeepInterval, Next1, Intervals
    <3> QED
      BY <1>0, <2>1, <2>3, <3>1 DEF KeepInterval
  <2>4. CASE InitCtrls
    <3>1. ControlDefault \in [Controls -> Nat]
      BY DEF ControlDefault, Controls
    <3> QED
      BY <1>0, <2>1, <2>4, <3>1 DEF InitCtrls
  <2>5. CASE Reset \/ ChipId \/ WriteReg
    BY <1>0, <2>1, <2>5 DEF Reset, ChipId, WriteReg, driver
  <2> QED
    BY <1>1, <2>2, <2>3, <2>4, <2>5 DEF Step
<1>2. CASE Fails
  BY <1>0, <1>2, FailBasics, FpsTyped
<1> QED
  BY <1>1, <1>2

LEMMA RegsTyped ==
    ASSUME TypeInv, Step \/ Fails PROVE regs' \in [Regs -> Int]
<1>1. todo # <<>> /\ todo \in Seq(Accesses) /\ regs \in [Regs -> Int]
  BY StepBasics, FailBasics DEF TypeInv
<1>2. PICK e \in Accesses : e = Head(todo)
  BY <1>1, HeadTailProperties
<1>3. e.do = "write" => e.reg \in Regs /\ e.val \in Nat
  BY AccessKinds
<1>4. ResetRegs \in [Regs -> Int]
  BY DEF ResetRegs, Unwritten
<1>5. \/ regs' = regs
      \/ e.do = "reset" /\ regs' = ResetRegs
      \/ e.do = "write" /\ regs' = [regs EXCEPT ![e.reg] = e.val]
  <2>1. CASE Step
    BY <1>2, <2>1
       DEF Step, Reset, ChipId, WriteReg, KeepFormat, KeepInterval, InitCtrls, Next1, driver
  <2> QED
    BY <1>2, <2>1, FailBasics
<1> QED
  BY <1>1, <1>3, <1>4, <1>5

\* The start of a call.
LEMMA BeginTyped ==
    ASSUME TypeInv, Boot \/ SetFmt \/ SetFrmival \/ SetStream \/ SetCtrl
    PROVE  TypeInv'
<1>0. TypeOK /\ regs \in [Regs -> Int] /\ ctrl \in [Controls -> Nat]
  BY DEF TypeInv
<1>1. CASE Boot
  BY <1>0, <1>1, JobsTyped DEF Boot, Begin, TypeInv, TypeOK, driver
<1>2. CASE SetFmt
  BY <1>0, <1>2, JobsTyped DEF SetFmt, Begin, TypeInv, TypeOK, driver, Groups
<1>3. CASE SetFrmival
  BY <1>0, <1>3, JobsTyped DEF SetFrmival, Begin, TypeInv, TypeOK, driver, Groups
<1>4. CASE SetStream
  <2>1. "mode" \in Regs /\ {0, 1} \subseteq Nat
    BY DEF Regs
  <2>2. todo' \in Seq(Accesses) /\ call' = "mode"
    BY <1>4, <2>1, JobsTyped DEF SetStream, Begin
  <2> QED
    BY <1>0, <1>4, <2>2 DEF SetStream, TypeInv, TypeOK, driver
<1>5. CASE SetCtrl
  <2>1. PICK c \in ControlsSet, v \in Values :
          ctrl' = [ctrl EXCEPT ![c] = v] /\ Begin(c, <<Write(c, v)>>)
    BY <1>5 DEF SetCtrl
  <2>2. c \in Controls /\ c \in Regs /\ v \in Nat
    BY SensorAssumption DEF Controls, Regs
  <2>3. ctrl' \in [Controls -> Nat] /\ call' = c /\ todo' \in Seq(Accesses)
    BY <1>0, <2>1, <2>2, JobsTyped DEF Begin
  <2>4. c \in Groups /\ c \notin {"off", "idle", "dead"}
    BY <2>2 DEF Groups, Controls
  <2>5. UNCHANGED <<regs, fmt, fps, untold, failures>>
    BY <1>5 DEF SetCtrl
  <2> QED
    BY <1>0, <2>3, <2>4, <2>5 DEF TypeInv, TypeOK
<1> QED
  BY <1>1, <1>2, <1>3, <1>4, <1>5

LEMMA NextCases ==
    ASSUME [Next]_vars
    PROVE  \/ Boot \/ SetFmt \/ SetFrmival \/ SetStream \/ SetCtrl
           \/ Step \/ Fails \/ Return \/ UNCHANGED vars
BY DEF Next, Access, Step

LEMMA TypeKept == ASSUME TypeInv, [Next]_vars PROVE TypeInv'
<1>1. CASE Boot \/ SetFmt \/ SetFrmival \/ SetStream \/ SetCtrl
  BY <1>1, BeginTyped
<1>2. CASE Step \/ Fails
  <2>1. TypeOK
    BY DEF TypeInv
  <2>2. /\ call' \in {"off", "init", "idle", "mode", "dead"} \cup Groups
        /\ untold' \subseteq Groups /\ failures' \in 0 .. MaxFailures
        /\ call' \in {"off", "idle", "dead"} => todo' = <<>>
    BY <1>2, <2>1, CallTyped
  <2>3. /\ fmt'.width \in Nat /\ fmt'.height \in Nat /\ fps' \in {0, 15, 30}
        /\ ctrl' \in [Controls -> Nat] /\ todo' \in Seq(Accesses) /\ regs' \in [Regs -> Int]
    BY <1>2, DataTyped, RegsTyped
  <2> QED
    BY <2>2, <2>3 DEF TypeInv, TypeOK
<1>3. CASE Return
  BY <1>3 DEF Return, TypeInv, TypeOK, driver
<1>4. CASE UNCHANGED vars
  BY <1>4 DEF TypeInv, TypeOK, vars
<1> QED
  BY <1>1, <1>2, <1>3, <1>4, NextCases

-----------------------------------------------------------------------------
(* The plan is kept *)

PlanOf(p) == p \in PlansOf(call) /\ Planned(p) /\ DoneOrPending(p) /\ ResetFirst(p)

LEMMA PlanRuns ==
    ASSUME TypeInv, PlanInv, Running
    PROVE  \E p : PlanOf(p) /\ Sane(call, p)
<1>1. PICK p \in PlansOf(call) : Planned(p) /\ DoneOrPending(p) /\ ResetFirst(p)
  BY DEF PlanInv, Running
<1>2. Sane(call, p)
  BY CallKinds, PlansSane DEF TypeInv
<1> QED
  BY <1>1, <1>2 DEF PlanOf

LEMMA StepsRun == TypeOK /\ (Step \/ Fails) => Running
BY StepBasics, FailBasics DEF TypeOK, Running

LEMMA PlanBegins ==
    ASSUME TypeInv, Boot \/ SetFmt \/ SetFrmival \/ SetStream \/ SetCtrl
    PROVE  PlanInv'
<1>1. CASE Boot
  <2>1. todo' = InitAccesses /\ call' = "init"
    BY <1>1 DEF Boot, Begin
  <2>2. PICK p : p = Plan(InitKinds, InitVal, DefaultFormat, 15)
    OBVIOUS
  <2>3. JobOf(InitAccesses, p) /\ p \in PlansOf(call)'
    BY <2>1, <2>2, InitJob DEF PlansOf
  <2>4. Planned(p)' /\ DoneOrPending(p)' /\ ResetFirst(p)'
    BY <2>1, <2>3, Begins
  <2> QED
    BY <2>3, <2>4 DEF PlanInv
<1>2. CASE SetFmt
  <2>1. PICK f \in Formats : Supported(f) /\ todo' = FormatAccesses(f) /\ call' = "format"
    BY <1>2 DEF SetFmt, Begin
  <2>2. PICK p : p = Plan({"write", "keep format"}, FormatVal(f), f, 15)
    OBVIOUS
  <2>3. JobOf(FormatAccesses(f), p)
    BY <2>1, <2>2, FormatJob
  <2>4. p \in PlansOf(call)'
    BY <2>1, <2>2 DEF PlansOf
  <2>5. Planned(p)' /\ DoneOrPending(p)' /\ ResetFirst(p)'
    BY <2>1, <2>3, Begins
  <2> QED
    BY <2>4, <2>5 DEF PlanInv
<1>3. CASE SetFrmival
  <2>1. PICK n \in Intervals : todo' = IntervalAccesses(n) /\ call' = "interval"
    BY <1>3 DEF SetFrmival, Begin
  <2>2. PICK p : p = Plan({"write", "keep interval"}, IntervalVal(n), DefaultFormat, n)
    OBVIOUS
  <2>3. JobOf(IntervalAccesses(n), p)
    BY <2>1, <2>2, IntervalJob
  <2>4. p \in PlansOf(call)'
    BY <2>1, <2>2 DEF PlansOf
  <2>5. Planned(p)' /\ DoneOrPending(p)' /\ ResetFirst(p)'
    BY <2>1, <2>3, Begins
  <2> QED
    BY <2>4, <2>5 DEF PlanInv
<1>4. CASE SetStream
  <2>1. PICK on \in {0, 1} : todo' = <<Write("mode", on)>> /\ call' = "mode"
    BY <1>4 DEF SetStream, Begin
  <2>2. PICK p, v : v = [r \in {"mode"} |-> on] /\ p = Plan({"write"}, v, DefaultFormat, 15)
    OBVIOUS
  <2>3. "mode" \in Regs /\ on \in Nat
    BY DEF Regs
  <2>4. JobOf(<<Write("mode", on)>>, p)
    BY <2>2, <2>3, WriteJob
  <2>5. v = [mode |-> on]
    BY <2>2
  <2>6. p \in PlansOf(call)'
    BY <2>1, <2>2, <2>5 DEF PlansOf
  <2>7. Planned(p)' /\ DoneOrPending(p)' /\ ResetFirst(p)'
    BY <2>1, <2>4, Begins
  <2> QED
    BY <2>6, <2>7 DEF PlanInv
<1>5. CASE SetCtrl
  <2>1. PICK c \in ControlsSet, n \in Values :
          ctrl' = [ctrl EXCEPT ![c] = n] /\ todo' = <<Write(c, n)>> /\ call' = c
    BY <1>5 DEF SetCtrl, Begin
  <2>2. PICK p, v : v = [r \in {c} |-> n] /\ p = Plan({"write"}, v, DefaultFormat, 15)
    OBVIOUS
  <2>3. c \in Controls /\ c \in Regs /\ n \in Nat
    BY SensorAssumption DEF Controls, Regs
  <2>4. JobOf(<<Write(c, n)>>, p)
    BY <2>2, <2>3, WriteJob
  <2>5. ctrl'[c] = n
    BY <2>1, <2>3 DEF TypeInv
  <2>6. v = [r \in {c} |-> ctrl'[c]]
    BY <2>2, <2>5
  <2>7. c \notin {"init", "format", "interval", "mode"}
    BY <2>3 DEF Controls
  <2>8. p \in PlansOf(call)'
    BY <2>1, <2>2, <2>6, <2>7 DEF PlansOf
  <2>9. Planned(p)' /\ DoneOrPending(p)' /\ ResetFirst(p)'
    BY <2>1, <2>4, Begins
  <2> QED
    BY <2>8, <2>9 DEF PlanInv
<1> QED
  BY <1>1, <1>2, <1>3, <1>4, <1>5

LEMMA PlanInvKept == ASSUME TypeInv, PlanInv, [Next]_vars PROVE PlanInv'
<1>1. CASE Boot \/ SetFmt \/ SetFrmival \/ SetStream \/ SetCtrl
  BY <1>1, PlanBegins
<1>2. CASE Step
  <2>0. TypeOK /\ todo \in Seq(Accesses) /\ regs \in [Regs -> Int]
    BY DEF TypeInv
  <2>1. PICK p : PlanOf(p) /\ Sane(call, p)
    BY <1>2, <2>0, StepsRun, PlanRuns
  <2>2. Planned(p)' /\ DoneOrPending(p)' /\ ResetFirst(p)'
    BY <1>2, <2>0, <2>1, PlanKept DEF PlanOf
  <2>3. call' = call
    BY <1>2, StepBasics
  <2>4. call = "init" \/ ctrl' = ctrl
    BY <1>2, <2>0, <2>1, SetterKeepsOthers DEF PlanOf, SetterFrame
  <2>5. p \in PlansOf(call)'
    BY <2>1, <2>3, <2>4 DEF PlanOf, PlansOf
  <2> QED
    BY <2>2, <2>5 DEF PlanInv
<1>3. CASE Fails
  BY <1>3, FailBasics DEF PlanInv
<1>4. CASE Return
  BY <1>4 DEF Return, PlanInv
<1>5. CASE UNCHANGED vars
  <2>1. /\ regs' = regs /\ fmt' = fmt /\ fps' = fps /\ ctrl' = ctrl
        /\ call' = call /\ todo' = todo
    BY <1>5 DEF vars
  <2>2. Pending' = Pending
    BY <2>1 DEF Pending, MembersOf
  <2>3. PlansOf(call)' = PlansOf(call)
    BY <2>1 DEF PlansOf
  <2>4. ASSUME NEW p, Planned(p), DoneOrPending(p), ResetFirst(p)
        PROVE  Planned(p)' /\ DoneOrPending(p)' /\ ResetFirst(p)'
    <3>1. Planned(p)'
      BY <2>2, <2>4 DEF Planned
    <3>2. \A r : WritePends(p, r)' <=> WritePends(p, r)
      BY <2>2 DEF WritePends
    <3>3. DoneOrPending(p)'
      BY <2>1, <2>2, <2>4, <3>2 DEF DoneOrPending
    <3>4. ResetFirst(p)'
      BY <2>1, <2>2, <2>4, <3>2 DEF ResetFirst
    <3> QED
      BY <3>1, <3>3, <3>4
  <2> QED
    BY <2>1, <2>3, <2>4 DEF PlanInv
<1> QED
  BY <1>1, <1>2, <1>3, <1>4, <1>5, NextCases

-----------------------------------------------------------------------------
(* The registers *)

LEMMA RegsStay ==
    ASSUME Boot \/ SetFmt \/ SetFrmival \/ SetStream \/ SetCtrl \/ Return \/ UNCHANGED vars
    PROVE  regs' = regs
BY DEF Boot, SetFmt, SetFrmival, SetStream, SetCtrl, Return, vars

LEMMA PhaseKept == ASSUME TypeInv, PlanInv, BayerPhase, [Next]_vars PROVE BayerPhase'
<1>1. CASE Step \/ Fails
  <2>0. TypeOK /\ todo \in Seq(Accesses) /\ regs \in [Regs -> Int]
    BY DEF TypeInv
  <2>1. PICK p : PlanOf(p) /\ Sane(call, p)
    BY <1>1, <2>0, StepsRun, PlanRuns
  <2>2. RegsMove(p)
    BY <1>1, <2>0, <2>1, RegsMoved DEF PlanOf
  <2>3. {"xsta", "ysta"} \subseteq Regs
    BY DEF Regs
  <2>4. CASE regs' = ResetRegs
    BY <2>3, <2>4 DEF ResetRegs, BayerPhase
  <2>5. ASSUME NEW r \in {"xsta", "ysta"}, regs'[r] = regs[r] \/ (r \in DOMAIN p.told /\ regs'[r] = p.told[r])
        PROVE  regs'[r] # Unwritten => regs'[r] >= 0 /\ regs'[r] % 2 = 0
    <3>1. CASE regs'[r] = regs[r]
      BY <3>1 DEF BayerPhase
    <3>2. CASE r \in DOMAIN p.told /\ regs'[r] = p.told[r]
      <4>1. p.told[r] \in Nat /\ p.told[r] % 2 = 0
        BY <2>1, <3>2 DEF Sane
      <4> QED
        BY <3>2, <4>1
    <3> QED
      BY <2>5, <3>1, <3>2
  <2> QED
    BY <2>2, <2>3, <2>4, <2>5 DEF RegsMove, BayerPhase
<1>2. CASE regs' = regs
  BY <1>2 DEF BayerPhase
<1> QED
  BY <1>1, <1>2, RegsStay, NextCases

-----------------------------------------------------------------------------
(* The end of a call *)

\* When nothing is left, the plan is done.
DoneAs(p) ==
    /\ Told(p.told)
    /\ "keep format" \in p.kinds => fmt = p.fmt
    /\ "keep interval" \in p.kinds => fps = p.fps
    /\ "controls" \in p.kinds => ctrl = ControlDefault
    /\ "reset" \in p.kinds => regs["mode"] = 0 /\ regs["pattern"] = 0

LEMMA PlanDone ==
    ASSUME todo = <<>>, NEW p, DoneOrPending(p), ResetFirst(p)
    PROVE  DoneAs(p)
<1>1. Pending = {}
  BY DEF Pending, MembersOf
<1>2. \A r : ~WritePends(p, r)
  BY <1>1 DEF WritePends
<1>3. Told(p.told)
  BY <1>2 DEF DoneOrPending, Told
<1> QED
  BY <1>1, <1>3 DEF DoneOrPending, ResetFirst, DoneAs

\* A setter that has done all has its group agree.
LEMMA SetterDone ==
    ASSUME TypeInv, PlanInv, call \in Groups, todo = <<>>
    PROVE  AgreesAs(call)
<1>1. Running
  BY DEF Running, Groups, Controls
<1>2. PICK p : PlanOf(p) /\ Sane(call, p)
  BY <1>1, PlanRuns
<1>3. DoneAs(p) /\ p \in PlansOf(call)
  BY <1>2, PlanDone DEF PlanOf
<1>4. CASE call = "format"
  <2>1. PICK f \in Formats : Supported(f) /\ p = Plan({"write", "keep format"}, FormatVal(f), f, 15)
    BY <1>3, <1>4 DEF PlansOf
  <2>2. "keep format" \in p.kinds /\ p.told = FormatVal(f) /\ p.fmt = f
    BY <2>1 DEF Plan
  <2>3. fmt = f /\ Told(FormatVal(f))
    BY <1>3, <2>2 DEF DoneAs
  <2> QED
    BY <1>4, <2>1, <2>3 DEF AgreesAs, Controls
<1>5. CASE call = "interval"
  <2>1. PICK n \in Intervals : p = Plan({"write", "keep interval"}, IntervalVal(n), DefaultFormat, n)
    BY <1>3, <1>5 DEF PlansOf
  <2>2. "keep interval" \in p.kinds /\ p.told = IntervalVal(n) /\ p.fps = n
    BY <2>1 DEF Plan
  <2>3. fps = n /\ Told(IntervalVal(n))
    BY <1>3, <2>2 DEF DoneAs
  <2> QED
    BY <1>5, <2>3 DEF AgreesAs, Controls
<1>6. CASE call \in Controls
  <2>1. call \notin {"init", "format", "interval", "mode"}
    BY <1>6 DEF Controls
  <2>2. PICK v : v = [r \in {call} |-> ctrl[call]]
    OBVIOUS
  <2>3. p = Plan({"write"}, v, DefaultFormat, 15)
    BY <1>3, <2>1, <2>2 DEF PlansOf
  <2>4. p.told = v
    BY <2>3 DEF Plan
  <2>5. regs[call] = v[call] /\ v[call] = ctrl[call]
    BY <1>3, <2>2, <2>4 DEF DoneAs, Told
  <2> QED
    BY <2>1, <2>5 DEF AgreesAs
<1> QED
  BY <1>4, <1>5, <1>6 DEF Groups

\* imx219_init() that has done all has written every register but the pedestal's, and
\* all groups but the pedestal agree.
LEMMA InitDone ==
    ASSUME TypeInv, PlanInv, call = "init", todo = <<>>
    PROVE  /\ \A g \in Groups \ {"pedestal"} : AgreesAs(g)
           /\ \A r \in Regs \ {"pedestal"} : regs[r] # Unwritten
<1>1. PICK p : PlanOf(p)
  BY PlanRuns DEF Running
<1>2. DoneAs(p)
  BY <1>1, PlanDone DEF PlanOf
<1>3. p = Plan(InitKinds, InitVal, DefaultFormat, 15)
  BY <1>1 DEF PlanOf, PlansOf
<1>4. p.kinds = InitKinds /\ p.told = InitVal /\ p.fmt = DefaultFormat /\ p.fps = 15
  BY <1>3 DEF Plan
<1>5. PICK v : v = InitVal
  OBVIOUS
<1>6. /\ \A r \in DOMAIN v : regs[r] = v[r]
      /\ fmt = DefaultFormat /\ fps = 15 /\ ctrl = ControlDefault
      /\ regs["mode"] = 0 /\ regs["pattern"] = 0
  BY <1>2, <1>4, <1>5 DEF DoneAs, Told, InitKinds
<1>7. v \in [Regs \ {"mode", "pattern", "pedestal"} -> Nat]
  BY <1>5, InitValues
<1>8. \A r \in Regs \ {"pedestal"} : regs[r] # Unwritten
  BY <1>6, <1>7 DEF Unwritten
<1>9. AgreesAs("format")
  <2>1. DOMAIN FormatVal(DefaultFormat) = FormatDomain
    BY DefaultSupported, FormatValues
  <2>2. \A r \in FormatDomain : regs[r] = FormatVal(DefaultFormat)[r]
    BY <1>5, <1>6, InitValues
  <2>3. Told(FormatVal(DefaultFormat))
    BY <2>1, <2>2 DEF Told
  <2> QED
    BY <1>6, <2>3, DefaultSupported DEF AgreesAs, Controls
<1>10. AgreesAs("interval")
  <2>1. DOMAIN IntervalVal(15) = IntervalDomain
    BY DefaultSupported, IntervalValues
  <2>2. \A r \in IntervalDomain : regs[r] = IntervalVal(15)[r]
    BY <1>5, <1>6, InitValues
  <2>3. Told(IntervalVal(15))
    BY <2>1, <2>2 DEF Told
  <2> QED
    BY <1>6, <2>3 DEF AgreesAs, Controls
<1>11. \A c \in {"exposure", "again", "dgain"} : AgreesAs(c)
  <2>1. TAKE c \in {"exposure", "again", "dgain"}
  <2>2. regs[c] = ctrl[c]
    BY <1>5, <1>6, InitValues
  <2> QED
    BY <2>2 DEF AgreesAs
<1>12. AgreesAs("pattern")
  BY <1>6 DEF AgreesAs, ControlDefault
<1> QED
  BY <1>8, <1>9, <1>10, <1>11, <1>12 DEF Groups, Controls

-----------------------------------------------------------------------------
(* A sensor that is ready *)

LEMMA ReadyKept == ASSUME TypeInv, PlanInv, ReadyIsSetUp, [Next]_vars PROVE ReadyIsSetUp'
<1>1. CASE Boot
  BY <1>1 DEF Boot, Begin, ReadyIsSetUp, Ready
<1>2. CASE SetFmt \/ SetFrmival \/ SetStream \/ SetCtrl
  <2>1. Ready /\ regs' = regs
    BY <1>2 DEF SetFmt, SetFrmival, SetStream, SetCtrl, Ready
  <2> QED
    BY <2>1 DEF ReadyIsSetUp
<1>3. CASE Step \/ Fails
  <2>0. TypeOK /\ todo \in Seq(Accesses) /\ regs \in [Regs -> Int]
    BY DEF TypeInv
  <2>1. PICK p : PlanOf(p) /\ Sane(call, p)
    BY <1>3, <2>0, StepsRun, PlanRuns
  <2>2. RegsMove(p)
    BY <1>3, <2>0, <2>1, RegsMoved DEF PlanOf
  <2>3. Running
    BY <1>3, <2>0, StepsRun
  <2>4. call = "init" => ~Ready'
    BY <1>3, StepBasics, FailBasics DEF Ready
  <2>5. CASE call # "init"
    <3>1. Ready
      BY <2>3, <2>5 DEF Running, Ready
    <3>2. ASSUME NEW r \in Regs \ {"pedestal"} PROVE regs'[r] # Unwritten
      <4>1. regs[r] # Unwritten
        BY <3>1 DEF ReadyIsSetUp
      <4>2. regs'[r] = regs[r] \/ (r \in DOMAIN p.told /\ regs'[r] = p.told[r])
        BY <2>2, <2>5 DEF RegsMove
      <4>3. r \in DOMAIN p.told => p.told[r] # Unwritten
        <5>1. r \in DOMAIN p.told => p.told[r] \in Nat
          BY <2>1 DEF Sane
        <5>2. \A n \in Nat : n # Unwritten
          BY DEF Unwritten
        <5> QED
          BY <5>1, <5>2
      <4> QED
        BY <4>1, <4>2, <4>3
    <3> QED
      BY <3>2 DEF ReadyIsSetUp
  <2> QED
    BY <2>4, <2>5 DEF ReadyIsSetUp
<1>4. CASE Return
  <2>1. regs' = regs /\ todo = <<>> /\ call \notin {"off", "idle", "dead"}
    BY <1>4 DEF Return
  <2>2. CASE call = "init"
    BY <2>1, <2>2, InitDone DEF ReadyIsSetUp
  <2>3. CASE call # "init"
    BY <2>1, <2>3 DEF ReadyIsSetUp, Ready
  <2> QED
    BY <2>2, <2>3
<1>5. CASE UNCHANGED vars
  BY <1>5 DEF vars, ReadyIsSetUp, Ready
<1> QED
  BY <1>1, <1>2, <1>3, <1>4, <1>5, NextCases

\* Before the end of imx219_init() nobody has set the pedestal.
LEMMA PedestalKept == ASSUME TypeInv, PlanInv, PedestalInv, [Next]_vars PROVE PedestalInv'
<1>1. CASE Boot \/ SetFmt \/ SetFrmival \/ SetStream \/ SetCtrl
  <2>1. CASE Boot
    BY <2>1 DEF Boot, PedestalInv
  <2>2. CASE SetFmt \/ SetFrmival \/ SetStream
    BY <2>2 DEF SetFmt, SetFrmival, SetStream, Begin, PedestalInv
  <2>3. CASE SetCtrl
    <3>1. call' \in ControlsSet
      BY <2>3 DEF SetCtrl, Begin
    <3> QED
      BY <3>1, SensorAssumption DEF PedestalInv
  <2> QED
    BY <1>1, <2>1, <2>2, <2>3
<1>2. CASE Step
  <2>1. call' = call
    BY <1>2, StepBasics
  <2>2. "pedestal" \in untold => "pedestal" \in untold'
    BY <1>2 DEF Step, Reset, ChipId, WriteReg, KeepFormat, KeepInterval, InitCtrls
  <2> QED
    BY <2>1, <2>2 DEF PedestalInv
<1>3. CASE Fails
  BY <1>3, FailBasics DEF PedestalInv
<1>4. CASE Return
  BY <1>4 DEF Return, PedestalInv
<1>5. CASE UNCHANGED vars
  BY <1>5 DEF vars, PedestalInv
<1> QED
  BY <1>1, <1>2, <1>3, <1>4, <1>5, NextCases

-----------------------------------------------------------------------------
(* The groups agree *)

\* What the agreement of a group depends on.
SameGroup(g) ==
    /\ \A r \in RegsOf(g) : regs'[r] = regs[r]
    /\ g = "format" => fmt' = fmt
    /\ g = "interval" => fps' = fps
    /\ g \in Controls => ctrl'[g] = ctrl[g]

LEMMA AgreeFrame ==
    ASSUME NEW g \in Groups, AgreesAs(g), SameGroup(g)
    PROVE  AgreesAs(g)'
<1>1. CASE g = "format"
  <2>1. Supported(fmt) /\ Told(FormatVal(fmt)) /\ fmt' = fmt
    BY <1>1 DEF AgreesAs, SameGroup
  <2>2. DOMAIN FormatVal(fmt) = FormatDomain
    BY <2>1, FormatValues
  <2>3. \A r \in FormatDomain : regs'[r] = FormatVal(fmt)[r]
    BY <1>1, <2>1, <2>2 DEF Told, SameGroup, RegsOf
  <2>4. Told(FormatVal(fmt))'
    BY <2>1, <2>2, <2>3 DEF Told
  <2> QED
    BY <1>1, <2>1, <2>4 DEF AgreesAs, Controls
<1>2. CASE g = "interval"
  <2>1. Told(IntervalVal(fps)) /\ fps' = fps
    BY <1>2 DEF AgreesAs, SameGroup
  <2>2. DOMAIN IntervalVal(fps) = IntervalDomain
    BY DEF IntervalVal, IntervalDomain
  <2>3. \A r \in IntervalDomain : regs'[r] = IntervalVal(fps)[r]
    BY <1>2, <2>1, <2>2 DEF Told, SameGroup, RegsOf
  <2>4. Told(IntervalVal(fps))'
    BY <2>1, <2>2, <2>3 DEF Told
  <2> QED
    BY <1>2, <2>4 DEF AgreesAs, Controls
<1>3. CASE g \in Controls
  <2>1. g \notin {"format", "interval"}
    BY <1>3 DEF Controls
  <2>2. regs'[g] = regs[g] /\ ctrl'[g] = ctrl[g] /\ regs[g] = ctrl[g]
    BY <1>3, <2>1 DEF AgreesAs, SameGroup, RegsOf
  <2> QED
    BY <2>1, <2>2 DEF AgreesAs
<1> QED
  BY <1>1, <1>2, <1>3 DEF Groups

\* A call begins: the groups that it is not about are as they were.
LEMMA AgreeBegins ==
    ASSUME TypeInv, AgreeInv, SetFmt \/ SetFrmival \/ SetStream \/ SetCtrl
    PROVE  AgreeInv'
<1>1. call = "idle" /\ regs' = regs /\ fmt' = fmt /\ fps' = fps /\ untold' = untold
  BY DEF SetFmt, SetFrmival, SetStream, SetCtrl, driver
<1>2. ASSUME NEW g \in Groups \ untold, g # call' PROVE AgreesAs(g)'
  <2>1. AgreesAs(g)
    <3>1. Ready /\ g # call
      BY <1>1 DEF Ready, Groups, Controls
    <3> QED
      BY <3>1 DEF AgreeInv
  <2>2. g \in Controls => ctrl'[g] = ctrl[g]
    <3>1. CASE SetFmt \/ SetFrmival \/ SetStream
      BY <3>1 DEF SetFmt, SetFrmival, SetStream, driver
    <3>2. CASE SetCtrl
      <4>1. PICK c, v : ctrl' = [ctrl EXCEPT ![c] = v] /\ call' = c
        BY <3>2 DEF SetCtrl, Begin
      <4>2. g # c
        BY <1>2, <4>1
      <4>3. ctrl \in [Controls -> Nat]
        BY DEF TypeInv
      <4> QED
        BY <4>1, <4>2, <4>3
    <3> QED
      BY <3>1, <3>2
  <2>3. SameGroup(g)
    BY <1>1, <2>2 DEF SameGroup
  <2> QED
    BY <2>1, <2>3, AgreeFrame
<1> QED
  BY <1>1, <1>2 DEF AgreeInv

\* An access of a setter, or its failure, leaves the other groups as they were.
LEMMA AgreeRuns ==
    ASSUME TypeInv, PlanInv, AgreeInv, Step \/ Fails
    PROVE  AgreeInv'
<1>0. TypeOK /\ todo \in Seq(Accesses) /\ regs \in [Regs -> Int]
  BY DEF TypeInv
<1>1. PICK p : PlanOf(p) /\ Sane(call, p)
  BY <1>0, StepsRun, PlanRuns
<1>2. CASE call = "init"
  BY <1>2, StepBasics, FailBasics DEF AgreeInv, Ready
<1>3. CASE call # "init"
  <2>1. Ready
    BY <1>0, <1>3, StepsRun DEF Running, Ready
  <2>2. SetterFrame
    BY <1>0, <1>1, <1>3, SetterKeepsOthers DEF PlanOf
  <2>3. \A r \in Regs : regs'[r] = regs[r] \/ (r \in DOMAIN p.told /\ regs'[r] = p.told[r])
    <3>1. RegsMove(p)
      BY <1>0, <1>1, RegsMoved DEF PlanOf
    <3> QED
      BY <1>3, <3>1 DEF RegsMove
  <2>4. ASSUME NEW g \in Groups \ untold', g # call' PROVE AgreesAs(g)'
    <3>1. g # call
      BY <2>4, StepBasics, FailBasics
    <3>2. AgreesAs(g)
      BY <2>1, <2>2, <2>4, <3>1 DEF SetterFrame, AgreeInv
    <3>3. RegsOf(g) \subseteq Regs /\ RegsOf(g) \cap DOMAIN p.told = {}
      <4>1. RegsOf(g) \subseteq Regs
        BY DEF RegsOf, Groups, Controls, Regs, FormatDomain, IntervalDomain
      <4> QED
        BY <1>1, <1>3, <3>1, <4>1 DEF Sane
    <3>4. \A r \in RegsOf(g) : regs'[r] = regs[r]
      BY <2>3, <3>3
    <3>5. SameGroup(g)
      BY <2>2, <3>1, <3>4 DEF SetterFrame, SameGroup
    <3> QED
      BY <3>2, <3>5, AgreeFrame
  <2> QED
    BY <2>4 DEF AgreeInv
<1> QED
  BY <1>2, <1>3

LEMMA AgreeKept ==
    ASSUME TypeInv, PlanInv, AgreeInv, PedestalInv, [Next]_vars
    PROVE  AgreeInv'
<1>1. CASE Boot
  BY <1>1 DEF Boot, Begin, AgreeInv, Ready
<1>2. CASE SetFmt \/ SetFrmival \/ SetStream \/ SetCtrl
  BY <1>2, AgreeBegins
<1>3. CASE Step \/ Fails
  BY <1>3, AgreeRuns
<1>4. CASE Return
  <2>1. /\ call \notin {"off", "idle", "dead"} /\ todo = <<>> /\ call' = "idle"
        /\ untold' = untold \ {call}
        /\ regs' = regs /\ fmt' = fmt /\ fps' = fps /\ ctrl' = ctrl
    BY <1>4 DEF Return, driver
  <2>2. ASSUME NEW g \in Groups \ untold' PROVE AgreesAs(g)
    <3>1. CASE call = "init"
      <4>1. g # "pedestal"
        BY <2>1, <3>1 DEF PedestalInv
      <4> QED
        BY <2>1, <3>1, <4>1, InitDone
    <3>2. CASE g = call
      BY <2>1, <3>2, SetterDone
    <3>3. CASE call # "init" /\ g # call
      BY <2>1, <3>3 DEF AgreeInv, Ready
    <3> QED
      BY <3>1, <3>2, <3>3
  <2>3. \A g \in Groups : SameGroup(g)
    BY <2>1 DEF SameGroup
  <2>4. \A g \in Groups \ untold' : AgreesAs(g)'
    BY <2>2, <2>3, AgreeFrame
  <2> QED
    BY <2>4 DEF AgreeInv
<1>5. CASE UNCHANGED vars
  <2>1. /\ call' = call /\ untold' = untold
        /\ regs' = regs /\ fmt' = fmt /\ fps' = fps /\ ctrl' = ctrl
    BY <1>5 DEF vars
  <2>2. \A g \in Groups : SameGroup(g)
    BY <2>1 DEF SameGroup
  <2>3. \A g \in Groups : AgreesAs(g) => AgreesAs(g)'
    BY <2>2, AgreeFrame
  <2> QED
    BY <2>1, <2>3 DEF AgreeInv, Ready
<1> QED
  BY <1>1, <1>2, <1>3, <1>4, <1>5, NextCases

-----------------------------------------------------------------------------
(* The inductive invariant *)

LEMMA SensorInit == Init => SensorInv
<1>1. ASSUME Init PROVE PlanInv /\ AgreeInv /\ PedestalInv /\ BayerPhase /\ ReadyIsSetUp
  <2>1. call = "off" /\ untold = Groups /\ regs = [r \in Regs |-> Unwritten]
    BY <1>1 DEF Init
  <2>2. "xsta" \in Regs /\ "ysta" \in Regs /\ "pedestal" \in Groups
    BY DEF Regs, Groups, Controls
  <2>3. BayerPhase
    BY <2>1, <2>2 DEF BayerPhase
  <2> QED
    BY <2>1, <2>2, <2>3 DEF PlanInv, AgreeInv, PedestalInv, ReadyIsSetUp, Ready
<1> QED
  BY <1>1, TypeInit DEF SensorInv

LEMMA SensorKept == SensorInv /\ [Next]_vars => SensorInv'
BY TypeKept, PlanInvKept, AgreeKept, PedestalKept, PhaseKept, ReadyKept DEF SensorInv

LEMMA SensorAlways == Spec => []SensorInv
BY SensorInit, SensorKept, PTL DEF Spec

\* What the invariant says of a format that is kept.
LEMMA FormatHolds ==
    ASSUME AgreesAs("format")
    PROVE  Holds(FormatRegs(fmt) \o CropRegs(fmt))
<1>1. Supported(fmt) /\ Told(FormatVal(fmt))
  BY DEF AgreesAs
<1>2. PICK a \in Seq(Accesses), b \in Seq(Accesses) :
        a = FormatRegs(fmt) /\ b = CropRegs(fmt)
  BY <1>1, FormatWrites
<1>3. PICK c \in Seq(Accesses) : c = a \o b /\ MembersOf(c) = WritesOf(FormatVal(fmt))
  <2>1. MembersOf(a) \cup MembersOf(b) = WritesOf(FormatVal(fmt))
    BY <1>1, <1>2, FormatWrites
  <2>2. a \o b \in Seq(Accesses) /\ MembersOf(a \o b) = MembersOf(a) \cup MembersOf(b)
    BY ConcatMembers
  <2> QED
    BY <2>1, <2>2
<1>4. ASSUME NEW i \in DOMAIN c PROVE regs[c[i].reg] = c[i].val
  <2>1. c[i] \in WritesOf(FormatVal(fmt))
    BY <1>3, LenProperties DEF MembersOf
  <2>2. PICK r \in DOMAIN FormatVal(fmt) : c[i] = Write(r, FormatVal(fmt)[r])
    BY <2>1 DEF WritesOf
  <2> QED
    BY <1>1, <2>2, WriteFields DEF Told
<1> QED
  BY <1>2, <1>3, <1>4 DEF Holds

LEMMA IntervalHolds ==
    ASSUME AgreesAs("interval")
    PROVE  Holds(IntervalRegs(fps))
BY DEF AgreesAs, Told, IntervalVal, Holds, IntervalRegs, Write

LEMMA GroupsAgree == ASSUME NEW g \in Groups, AgreesAs(g) PROVE Agrees(g)
<1>1. CASE g = "format"
  BY <1>1, FormatHolds DEF Agrees
<1>2. CASE g = "interval"
  BY <1>2, IntervalHolds DEF Agrees
<1>3. CASE g \in Controls
  BY <1>3 DEF AgreesAs, Agrees, Controls
<1> QED
  BY <1>1, <1>2, <1>3 DEF Groups

\* What the format that agrees says of the window.
LEMMA WindowAgrees ==
    ASSUME AgreesAs("format")
    PROVE  /\ regs["xend"] - regs["xsta"] + 1 = regs["xout"] /\ regs["xend"] < FullWidth
           /\ regs["yend"] - regs["ysta"] + 1 = regs["yout"] /\ regs["yend"] < FullHeight
           /\ regs["frmlen"] > regs["yout"]
<1>1. Supported(fmt) /\ Told(FormatVal(fmt))
  BY DEF AgreesAs
<1>2. PICK w, h : w = fmt.width /\ h = fmt.height
  OBVIOUS
<1>3. SizeFits(w, FullWidth) /\ SizeFits(h, FullHeight)
  BY <1>1, <1>2 DEF Supported
<1>4. /\ regs["xsta"] = (FullWidth - w) \div 2 /\ regs["xend"] = WindowEnd(FullWidth, w)
      /\ regs["ysta"] = (FullHeight - h) \div 2 /\ regs["yend"] = WindowEnd(FullHeight, h)
      /\ regs["xout"] = w /\ regs["yout"] = h /\ regs["frmlen"] = h + 20
  BY <1>1, <1>2 DEF Told, FormatVal
<1>5. WindowEnd(FullWidth, w) < FullWidth
      /\ WindowEnd(FullWidth, w) - (FullWidth - w) \div 2 + 1 = w
  BY <1>3, Centred
<1>6. WindowEnd(FullHeight, h) < FullHeight
      /\ WindowEnd(FullHeight, h) - (FullHeight - h) \div 2 + 1 = h
  BY <1>3, Centred
<1>7. h \in Nat
  BY <1>3, Centred
<1>8. regs["frmlen"] > regs["yout"]
  BY <1>4, <1>7
<1> QED
  BY <1>4, <1>5, <1>6, <1>8

-----------------------------------------------------------------------------
(* A framework that checks the ranges *)

\* No call but imx219_init() begins, and that one has the refusal of a default ahead.
RefusedInv ==
    /\ call \in {"off", "init", "dead"}
    /\ call = "init" => [do |-> "refuse"] \in Pending

LEMMA RefusedKept ==
    ASSUME RangeChecked, TypeInv, RefusedInv, [Next]_vars
    PROVE  RefusedInv'
<1>0. ~Ready
  BY DEF RefusedInv, Ready
<1>1. CASE Boot
  <2>1. call' = "init" /\ Pending' = MembersOf(InitAccesses)
    BY <1>1 DEF Boot, Begin, Pending, MembersOf
  <2>2. [do |-> "refuse"] \in MembersOf(TakeControls)
    BY ControlsMembers
  <2>3. MembersOf(TakeControls) \subseteq MembersOf(InitAccesses)
    BY InitMembers
  <2> QED
    BY <2>1, <2>2, <2>3 DEF RefusedInv
<1>2. CASE SetFmt \/ SetFrmival \/ SetStream \/ SetCtrl
  BY <1>0, <1>2 DEF SetFmt, SetFrmival, SetStream, SetCtrl, Ready
<1>3. CASE Step
  <2>1. todo # <<>> /\ todo' = Tail(todo) /\ call' = call
    BY <1>3, StepBasics
  <2>2. Head(todo).do # "refuse"
    BY <1>3 DEF Step, Reset, ChipId, WriteReg, KeepFormat, KeepInterval, InitCtrls, Next1
  <2>3. [do |-> "refuse"] \in Pending => [do |-> "refuse"] \in Pending'
    BY <2>1, <2>2, Popped DEF TypeInv
  <2> QED
    BY <2>1, <2>3 DEF RefusedInv
<1>4. CASE Fails
  <2>1. call' \in {"dead", "idle"} /\ (call = "init" => call' = "dead") /\ todo # <<>>
    BY <1>4 DEF Fails, EndsCall
  <2>2. call = "init"
    BY <2>1 DEF RefusedInv, TypeInv, TypeOK
  <2> QED
    BY <2>1, <2>2 DEF RefusedInv
<1>5. CASE Return
  <2>1. call = "init" /\ todo = <<>>
    BY <1>5 DEF Return, RefusedInv
  <2> QED
    BY <2>1 DEF RefusedInv, Pending, MembersOf
<1>6. CASE UNCHANGED vars
  BY <1>6 DEF vars, RefusedInv, Pending, MembersOf
<1> QED
  BY <1>1, <1>2, <1>3, <1>4, <1>5, <1>6, NextCases

-----------------------------------------------------------------------------
(* Theorems *)

\* The registers, the state of the driver and its calls have their types: the driver
\* keeps no interval but those of imx219_set_frmival(), whichever access of it fails.
THEOREM TypesAreKept == Spec => []TypeOK
<1>1. SensorInv => TypeOK
  BY DEF SensorInv, TypeInv
<1> QED
  BY <1>1, SensorAlways, PTL

\* imx219_set_fmt() writes a window that starts on an even column and row, whatever the
\* format, and wherever an access fails: the colours of the Bayer pattern never swap.
THEOREM BayerPhaseHolds == Spec => []BayerPhase
<1>1. SensorInv => BayerPhase
  BY DEF SensorInv
<1> QED
  BY <1>1, SensorAlways, PTL

\* imx219_init() returns 0 only when it wrote all of its tables, and no reset undoes
\* them later.
THEOREM ReadySensorIsSetUp == Spec => []ReadyIsSetUp
<1>1. SensorInv => ReadyIsSetUp
  BY DEF SensorInv
<1> QED
  BY <1>1, SensorAlways, PTL

\* What imx219_get_fmt(), imx219_get_frmival() and the controls report between calls is
\* what the registers hold, for each group whose last setter returned 0: for every set
\* of formats and values and any number of failures, in any order of calls.
THEOREM ReportIsTold == Spec => []ReportedIsTold
<1>1. SensorInv => ReportedIsTold
  <2>1. ASSUME SensorInv, call = "idle", NEW g \in Groups \ untold PROVE Agrees(g)
    <3>1. Ready /\ g # call
      BY <2>1 DEF Ready, Groups, Controls
    <3>2. AgreesAs(g)
      BY <2>1, <3>1 DEF SensorInv, AgreeInv
    <3> QED
      BY <3>2, GroupsAgree
  <2> QED
    BY <2>1 DEF ReportedIsTold
<1> QED
  BY <1>1, SensorAlways, PTL

\* The window that a successful imx219_set_fmt() left is as large as the output, inside
\* the pixel array, and the frame is longer than it: for every size the caps list.
THEOREM WindowIsSound == Spec => []WindowSound
<1>1. SensorInv => WindowSound
  <2>1. ASSUME SensorInv, call = "idle", "format" \notin untold PROVE AgreesAs("format")
    <3>1. Ready /\ "format" # call /\ "format" \in Groups
      BY <2>1 DEF Ready, Groups
    <3> QED
      BY <2>1, <3>1 DEF SensorInv, AgreeInv
  <2> QED
    BY <2>1, WindowAgrees DEF WindowSound
<1> QED
  BY <1>1, SensorAlways, PTL

\* With a framework that refuses a default out of its range, imx219_init() always fails:
\* the default of the digital gain, 5000, is above the maximum of 0xfff that
\* imx219_init_ctrls() gives with it (imx219.c:39, :462).
THEOREM RangeCheckFailsInit ==
    ASSUME RangeChecked
    PROVE  Spec => [](~Ready)
<1>1. Init => RefusedInv
  BY DEF Init, RefusedInv
<1>2. TypeInv /\ RefusedInv /\ [Next]_vars => RefusedInv'
  BY RefusedKept
<1>3. SensorInv => TypeInv
  BY DEF SensorInv
<1>4. RefusedInv => ~Ready
  BY DEF RefusedInv, Ready
<1> QED
  BY <1>1, <1>2, <1>3, <1>4, SensorAlways, PTL DEF Spec
=============================================================================
