------------------------------ MODULE MCImx219 ------------------------------
(* Imx219 with formats that are supported, have a width or a height off the
   step, are too large, or have another pixel format. *)
EXTENDS Imx219

F(pix, w, h) == [pix |-> pix, width |-> w, height |-> h]

MCFormats == { F("SBGGR8", 4, 8), F("SBGGR10P", 3280, 2464), F("SBGGR8", 6, 4),
               F("SBGGR10P", 4, 6), F("SBGGR8", 3284, 4), F("YUYV", 8, 8) }
=============================================================================
