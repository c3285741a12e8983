------------------------------- MODULE MCPad -------------------------------
(***************************************************************************)
(* Small instance of Pad: pads of up to 2 bytes, texts of 1 or 2, three    *)
(* runs, three generated keys.  A pad of 2 lets two texts fit, a third be  *)
(* refused, and a refused one use up the rest of the pad.  Of the heads    *)
(* announced 2 is the end of the pad, or beyond it if the file is short;   *)
(* fseek refuses 3, and 4 wraps to the byte in front of the pad.           *)
(***************************************************************************)
EXTENDS Pad

MCPadSizes == {2}
MCTextSizes == {1, 2}
MCOffsets == {2, 3, 4}
=============================================================================
