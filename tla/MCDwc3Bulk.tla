----------------------------- MODULE MCDwc3Bulk -----------------------------
(* Small instances of Dwc3Bulk: the ring of the default configuration      *)
(* (CONFIG_UDC_DWC3_TRB_NUM = 4, three TRBs and the LINK TRB), one buffer  *)
(* more than TRBs, and the two threads of firmware/zephyr_cdc_raw.         *)
EXTENDS Dwc3Bulk, TLC

\* The buffers are interchangeable: sound for the runs of safety properties.
BufferSymmetry == Permutations(Buffers)
=============================================================================
