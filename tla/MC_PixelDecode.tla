---------------------------- MODULE MC_PixelDecode ----------------------------
(* PixelDecode for TLC; the constants are given in the .cfg file.          *)
EXTENDS PixelDecode
=============================================================================
