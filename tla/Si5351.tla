------------------------------- MODULE Si5351 -------------------------------
(***************************************************************************)
(* The start of the SI5351 clock generator, which makes the reference      *)
(* clock of the board (zephyr/drivers/clock_control/                       *)
(* clock_control_si5351.c): the driver switches the outputs off, programs  *)
(* the registers, resets the PLLs, waits, and switches the outputs on.     *)
(*                                                                         *)
(* The table of register values is abstracted to its length.  The PLL      *)
(* moves on its own.  Any I2C access may fail, which ends the init.        *)
(***************************************************************************)
EXTENDS Naturals, FiniteSets

CONSTANTS Drivers,     \* the number of output drivers, at least 1: registers 16 to 23
          ConfSize     \* ARRAY_SIZE(si5351_conf), at least 1

\* The registers that each loop writes.
DriverRegs == 16 .. 15 + Drivers
Conf == 1 .. ConfSize

VARIABLES
    step,     \* where si5351_init() is
    i,        \* its loop counter
    outputs,  \* the outputs are enabled (register 3)
    reg,      \* the loss of lock that was read last (register 5)
    locked    \* PLL A is locked

vars == <<step, i, outputs, reg, locked>>

\* SI5351_VAL_LOL_A_LOCKED, SI5351_VAL_LOL_A_UNLOCKED
Lost == {"locked", "unlocked"}

\* At power on the outputs are enabled or not, as the chip was left.
Init ==
    /\ step = "disable" /\ i = 0
    /\ outputs \in BOOLEAN /\ reg \in Lost /\ locked \in BOOLEAN

\* A register write that succeeds leads to the next step.
Goto(s) == step' = s /\ i' = 0

\* Clears the output enables first.
DisableOutputs ==
    /\ step = "disable" /\ outputs' = FALSE /\ Goto("power_down")
    /\ UNCHANGED <<reg, locked>>

\* The writes of a loop, one register at a time.
Loop(s, regs, next) ==
    /\ step = s
    /\ IF i + 1 < Cardinality(regs) THEN i' = i + 1 /\ UNCHANGED step ELSE Goto(next)
    /\ UNCHANGED <<outputs, reg, locked>>

PowerDown == Loop("power_down", DriverRegs, "configure")
Configure == Loop("configure", Conf, "reset")

\* The PLLs start again, unlocked.
ResetPll ==
    /\ step = "reset" /\ locked' = FALSE /\ Goto("wait")
    /\ UNCHANGED <<outputs, reg>>

\* do { read the loss of lock } while (it says locked)
WaitPll ==
    /\ step = "wait"
    /\ reg' = IF locked THEN "locked" ELSE "unlocked"
    /\ IF reg' = "locked" THEN UNCHANGED <<step, i>> ELSE Goto("enable")
    /\ UNCHANGED <<outputs, locked>>

EnableOutputs ==
    /\ step = "enable" /\ outputs' = TRUE /\ Goto("on")
    /\ UNCHANGED <<reg, locked>>

\* An I2C access fails: its error is returned, and the device is not ready.
Fail ==
    /\ step \notin {"on", "failed"}
    /\ Goto("failed")
    /\ UNCHANGED <<outputs, reg, locked>>

\* PLL A locks or loses its lock.
Pll ==
    /\ locked' = ~locked
    /\ UNCHANGED <<step, i, outputs, reg>>

Next == DisableOutputs \/ PowerDown \/ Configure \/ ResetPll \/ WaitPll \/ EnableOutputs
        \/ Fail \/ Pll

Spec == Init /\ [][Next]_vars

\* "Wait that PLL A is ready" (clock_control_si5351.c:130), before "Enable all
\* clock outputs" (:138): the outputs of a device that is on were enabled
\* after the PLL was seen locked.
OutputsWaitForLock == step = "on" => reg = "locked"
=============================================================================
