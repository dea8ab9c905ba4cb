----------------------------- MODULE MCPca9542a -----------------------------
(* Pca9542a with the message lists that the callers of this repository send. *)
EXTENDS Pca9542a, TLC

W(n, flags) == [rd |-> FALSE, flags |-> flags, len |-> n]
R(n, flags) == [rd |-> TRUE, flags |-> flags, len |-> n]

\* i2c_write_dt(), i2c_write_read_dt(), the probe of a bus scan, and a register
\* address and its data in two messages (i2c_burst_write_dt()).
MCTransfers == {
    <<W(2, {"STOP"})>>,
    <<W(1, {}), R(2, {"RESTART", "STOP"})>>,
    <<W(0, {"STOP"})>>,
    <<W(1, {}), W(1, {"STOP"})>> }
=============================================================================
