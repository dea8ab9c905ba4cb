----------------------------- MODULE MCCdcEcho -----------------------------
(* A small instance of CdcEcho: a ring of four events, the default ring of  *)
(* TRBs, and a buffer that one packet fills at SuperSpeed, two at high      *)
(* speed and three at full speed.                                           *)
EXTENDS CdcEcho

MCRequests   == {"config", "open", "close"}
MCBufPackets == [m \in Sizes |-> CASE m = 64 -> 3 [] m = 512 -> 2 [] m = 1024 -> 1]
=============================================================================
