--------------------------- MODULE MC_FrameStream ---------------------------
(* Small instances of FrameStream for TLC.                                 *)
EXTENDS FrameStream

CONSTANTS s1, s2

MCSubs == {s1, s2}

(* max_frames as programs pass it: no cap, or a cap of one frame.  *)
MCMaxFrames == {None, 1}

(* The same, with the zero a computed cap can come out as.                 *)
MCMaxFramesWithZero == {None, 0, 1}
=============================================================================
