------------------------------- MODULE Imx219 -------------------------------
(***************************************************************************)
(* The IMX219 image sensor driver, zephyr/drivers/video/imx219.c: what the *)
(* driver reports against what the registers of the sensor hold, when any  *)
(* access to the sensor may fail.                                          *)
(*                                                                         *)
(* A call is the list todo of the accesses it has left.  An access that    *)
(* fails ends the call; a write that fails may have reached the sensor all *)
(* the same (a timeout after its last byte, see OpencoresI2c).             *)
(***************************************************************************)
EXTENDS Integers, Sequences, SequencesExt

CONSTANTS
    Formats,      \* formats that callers ask for: [pix, width, height]
    ControlsSet,  \* controls that callers set
    Values,       \* values that they give to a control, whose ranges start at 0
    InputClock,   \* cfg->input_clk_hz, in MHz
    RangeChecked, \* whether video_init_ctrl() refuses a default out of its range
    MaxFailures   \* bound on the accesses that fail

ASSUME SensorAssumption ==
    /\ InputClock \in Nat /\ MaxFailures \in Nat
    /\ RangeChecked \in BOOLEAN
    /\ Values \subseteq Nat
    /\ ControlsSet \subseteq {"exposure", "again", "dgain", "pedestal", "pattern"}

FullWidth == 3280
FullHeight == 2464

\* The pixel formats of imx219_fmts[], with their depth in bits.
Depth == [SBGGR8 |-> 8, SBGGR10P |-> 10]

\* imx219_enum_frmival().
IntervalsFast == {15, 30, 60}
Intervals == {15, 30}

\* The controls of imx219_set_ctrl(), each with the register it is written to,
\* their defaults and their maxima.
Controls == {"exposure", "again", "dgain", "pedestal", "pattern"}
ControlDefault ==
    [exposure |-> 100, again |-> 240, dgain |-> 5000, pedestal |-> 40, pattern |-> 0]
ControlMax ==
    [exposure |-> 65535, again |-> 255, dgain |-> 4095, pedestal |-> 1023, pattern |-> 9]

\* Registers that one setter writes, as a group.
Groups == {"format", "interval"} \cup Controls

VARIABLES
    regs,      \* registers of the sensor
    fmt,       \* drv_data->fmt
    fps,       \* drv_data->fps
    ctrl,      \* ctrls.*.val
    call,      \* "off", "init", "idle", the group or "mode" being set, "dead"
    todo,      \* accesses left in the call
    untold,    \* groups whose last setter failed, or that nobody set
    failures   \* accesses that failed so far

vars == <<regs, fmt, fps, ctrl, call, todo, untold, failures>>
driver == <<fmt, fps, ctrl>>

-----------------------------------------------------------------------------
(* Register tables *)

Write(reg, val) == [do |-> "write", reg |-> reg, val |-> val]

FormatRegs(f) == <<Write("format0", Depth[f.pix]), Write("format1", Depth[f.pix])>>

WindowEndOff(full, size) == (full + size) \div 2
WindowEnd(full, size) == (full + size) \div 2 - 1

\* crop_regs[] of imx219_set_fmt().
CropRegs(f) ==
    << Write("xsta", (FullWidth - f.width) \div 2),
       Write("xend", WindowEnd(FullWidth, f.width)),
       Write("ysta", (FullHeight - f.height) \div 2),
       Write("yend", WindowEnd(FullHeight, f.height)),
       Write("xout", f.width), Write("yout", f.height),
       Write("frmlen", f.height + 20),
       Write("tpwidth", f.width), Write("tpheight", f.height) >>

\* imx219_fps_30_regs[] and imx219_fps_15_regs[]; the dividers they share are
\* one register here.
IntervalRegs(n) == <<Write("dividers", 1), Write("vtmpy", n), Write("opmpy", 50)>>

\* imx219_init_regs[]; what is neither gain nor exposure is one register here.
InitRegs ==
    << Write("timing", 1), Write("dgain", ControlDefault.dgain),
       Write("again", ControlDefault.again), Write("exposure", ControlDefault.exposure) >>

\* imx219_vendor_regs[], as one register.
VendorRegs == <<Write("vendor", 1)>>

Regs == {"format0", "format1", "xsta", "xend", "ysta", "yend", "xout", "yout",
         "frmlen", "tpwidth", "tpheight", "dividers", "vtmpy", "opmpy", "mode",
         "excfreq", "vendor", "timing"} \cup Controls

\* A register that the driver has not written, -1, has a value of the sensor's own.
Unwritten == -1
ResetRegs == [r \in Regs |-> IF r \in {"mode", "pattern"} THEN 0 ELSE Unwritten]

DefaultFormat == [pix |-> "SBGGR8", width |-> 4, height |-> 4]

-----------------------------------------------------------------------------
(* Calls *)

SizeFitsLoosely(n, full) == n \in 4 .. full /\ (n - 4) % 2 = 0
SizeFits(n, full) == n \in 4 .. full /\ (n - 4) % 4 = 0

\* video_format_caps_index() and the checks of the steps: what is not supported
\* is refused before anything is written.
Supported(f) ==
    /\ f.pix \in DOMAIN Depth
    /\ SizeFits(f.width, FullWidth)
    /\ SizeFits(f.height, FullHeight)

\* imx219_set_fmt(): the format is kept when all is written.
FormatAccesses(f) == FormatRegs(f) \o CropRegs(f) \o <<[do |-> "keep format", val |-> f]>>

\* imx219_set_frmival(): fps is kept in any case, see Fails.
IntervalAccesses(n) == IntervalRegs(n) \o <<[do |-> "keep interval", val |-> n]>>

\* imx219_set_input_clk(): the clock of the board may be out of range.
SetInputClk == IF InputClock \in 6 .. 27 THEN <<Write("excfreq", InputClock * 256)>>
                                        ELSE <<[do |-> "refuse"]>>

\* imx219_init_ctrls(): one of the defaults is above its own maximum.
TakeControls ==
    IF RangeChecked /\ \E c \in Controls : ControlDefault[c] > ControlMax[c]
    THEN <<[do |-> "refuse"]>> ELSE <<[do |-> "controls"]>>

\* imx219_init(), the sleeps left out.
InitAccesses ==
    <<[do |-> "reset"], [do |-> "chip id"]>> \o SetInputClk \o VendorRegs \o InitRegs
    \o FormatAccesses(DefaultFormat) \o IntervalAccesses(15) \o TakeControls

Begin(c, accesses) == call' = c /\ todo' = accesses

Boot ==
    /\ call = "off"
    /\ Begin("init", InitAccesses)
    /\ UNCHANGED <<regs, driver, untold, failures>>

SetFmt ==
    /\ call = "idle"
    /\ \E f \in Formats : Supported(f) /\ Begin("format", FormatAccesses(f))
    /\ UNCHANGED <<regs, driver, untold, failures>>

\* video_closest_frmival() found n.
SetFrmival ==
    /\ call = "idle"
    /\ \E n \in Intervals : Begin("interval", IntervalAccesses(n))
    /\ UNCHANGED <<regs, driver, untold, failures>>

SetStream ==
    /\ call = "idle"
    /\ \E on \in {0, 1} : Begin("mode", <<Write("mode", on)>>)
    /\ UNCHANGED <<regs, driver, untold, failures>>

\* The video framework stores the value, then calls imx219_set_ctrl().
SetCtrl ==
    /\ call = "idle"
    /\ \E c \in ControlsSet, v \in Values :
        /\ ctrl' = [ctrl EXCEPT ![c] = v]
        /\ Begin(c, <<Write(c, v)>>)
    /\ UNCHANGED <<regs, fmt, fps, untold, failures>>

-----------------------------------------------------------------------------
(* Accesses *)

Next1(kind) == todo # <<>> /\ Head(todo).do = kind

Reset ==
    /\ Next1("reset")
    /\ regs' = ResetRegs
    /\ todo' = Tail(todo)
    /\ UNCHANGED <<driver, call, untold, failures>>

ChipId ==
    /\ Next1("chip id")
    /\ todo' = Tail(todo)
    /\ UNCHANGED <<regs, driver, call, untold, failures>>

WriteReg ==
    /\ Next1("write")
    /\ regs' = [regs EXCEPT ![Head(todo).reg] = Head(todo).val]
    /\ todo' = Tail(todo)
    /\ UNCHANGED <<driver, call, untold, failures>>

KeepFormat ==
    /\ Next1("keep format")
    /\ fmt' = Head(todo).val
    /\ untold' = untold \ {"format"}
    /\ todo' = Tail(todo)
    /\ UNCHANGED <<regs, fps, ctrl, call, failures>>

KeepInterval ==
    /\ Next1("keep interval")
    /\ fps' = Head(todo).val
    /\ untold' = untold \ {"interval"}
    /\ todo' = Tail(todo)
    /\ UNCHANGED <<regs, fmt, ctrl, call, failures>>

\* imx219_init_ctrls(): the framework takes the defaults.  The register of the pedestal
\* (brightness) keeps the sensor's own value.
InitCtrls ==
    /\ Next1("controls")
    /\ ctrl' = ControlDefault
    /\ untold' = untold \ (Controls \ {"pedestal"})
    /\ todo' = Tail(todo)
    /\ UNCHANGED <<regs, fmt, fps, call, failures>>

\* A call that has done all returns 0.
Return ==
    /\ call \notin {"off", "idle", "dead"}
    /\ todo = <<>>
    /\ call' = "idle"
    /\ untold' = untold \ {call}
    /\ UNCHANGED <<regs, driver, todo, failures>>

\* Whether a failed access ends the call.
EndsCallButFormat(e) == e.do # "write" \/ e.reg \notin {"format0", "format1"}
EndsCall(e) == TRUE

\* imx219_set_frmival() keeps its interval even when one of its writes fails.
FpsAnyway ==
    IF Head(todo).do = "write" /\ Head(todo).reg \in {"dividers", "vtmpy", "opmpy"}
    THEN {e.val : e \in {e \in ToSet(todo) : e.do = "keep interval"}} ELSE {fps}

\* An access fails: no acknowledge, a timeout, another chip, a clock out of
\* range, or a default the framework refuses.  A call that fails in the middle
\* leaves its group half written; imx219_init() leaves a device that is not ready.
Fails ==
    /\ todo # <<>>
    /\ Head(todo).do \notin {"keep format", "keep interval"}
    /\ Head(todo).do # "refuse" => failures < MaxFailures
    /\ \E reached \in BOOLEAN :
        /\ reached => Head(todo).do \in {"write", "reset"}
        /\ regs' = IF ~reached THEN regs
                   ELSE IF Head(todo).do = "reset" THEN ResetRegs
                   ELSE [regs EXCEPT ![Head(todo).reg] = Head(todo).val]
    /\ IF EndsCall(Head(todo))
       THEN /\ todo' = <<>>
            /\ call' = IF call = "init" THEN "dead" ELSE "idle"
            /\ untold' = untold \cup ({call} \cap Groups)
            /\ fps' \in FpsAnyway
       ELSE /\ todo' = Tail(todo)
            /\ UNCHANGED <<call, untold, fps>>
    /\ failures' = IF Head(todo).do = "refuse" THEN failures ELSE failures + 1
    /\ UNCHANGED <<fmt, ctrl>>

Init ==
    /\ regs = [r \in Regs |-> Unwritten]
    /\ fmt = [pix |-> "none", width |-> 0, height |-> 0]
    /\ fps = 0
    /\ ctrl = [c \in Controls |-> 0]
    /\ call = "off"
    /\ todo = <<>>
    /\ untold = Groups
    /\ failures = 0

Access == Reset \/ ChipId \/ WriteReg \/ KeepFormat \/ KeepInterval \/ InitCtrls \/ Fails

Next == Boot \/ SetFmt \/ SetFrmival \/ SetStream \/ SetCtrl \/ Access \/ Return

Spec == Init /\ [][Next]_vars

-----------------------------------------------------------------------------
(* Properties *)

Ready == call \notin {"off", "init", "dead"}

\* Types.
TypeOK ==
    /\ DOMAIN regs = Regs /\ \A r \in Regs : regs[r] \in Int
    /\ fmt.width \in Nat /\ fmt.height \in Nat
    /\ fps \in {0, 15, 30}
    /\ DOMAIN ctrl = Controls /\ \A c \in Controls : ctrl[c] \in Nat
    /\ call \in {"off", "init", "idle", "mode", "dead"} \cup Groups
    /\ call \in {"off", "idle", "dead"} => todo = <<>>
    /\ untold \subseteq Groups
    /\ failures \in 0 .. MaxFailures

Holds(accesses) == \A i \in DOMAIN accesses : regs[accesses[i].reg] = accesses[i].val

Agrees(g) ==
    CASE g = "format" -> Holds(FormatRegs(fmt) \o CropRegs(fmt))
      [] g = "interval" -> Holds(IntervalRegs(fps))
      [] OTHER -> regs[g] = ctrl[g]

\* Between calls, what get_format, get_frmival and the controls report is what the
\* sensor was told, except for a group whose last setter returned an error: no
\* failure is swallowed, and a later call that succeeds mends it.
ReportedIsTold == call = "idle" => \A g \in Groups \ untold : Agrees(g)

\* At every moment, in the middle of a change and after any failure, the window
\* starts on an even column and row: the colours of the Bayer pattern never swap.
BayerPhase ==
    \A r \in {"xsta", "ysta"} : regs[r] # Unwritten => regs[r] >= 0 /\ regs[r] % 2 = 0

\* After a set_fmt that succeeded the window is as large as the output, inside the
\* pixel array, and the frame longer than it.
WindowSound ==
    call = "idle" /\ "format" \notin untold =>
        /\ regs["xend"] - regs["xsta"] + 1 = regs["xout"] /\ regs["xend"] < FullWidth
        /\ regs["yend"] - regs["ysta"] + 1 = regs["yout"] /\ regs["yend"] < FullHeight
        /\ regs["frmlen"] > regs["yout"]

\* A sensor that is ready has had all that imx219_init() writes: no part of its set
\* up was lost on the way; only the pedestal keeps the sensor's own value, until the
\* brightness is set.
ReadyIsSetUp == Ready => \A r \in Regs \ {"pedestal"} : regs[r] # Unwritten
=============================================================================
