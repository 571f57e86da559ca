----------------------------- MODULE PixelDecode -----------------------------
(***************************************************************************)
(* Frame.to_numpy of clients/python/src/rust_daq/streaming.py (lines      *)
(* 60-92): look the pixel format up in format_map, view the bytes with    *)
(* np.frombuffer and reshape them to (height, width).  A buffer is its    *)
(* length in bytes (None when the stream was opened without pixel data);  *)
(* frombuffer fails unless the length is a multiple of the item size, and *)
(* reshape unless the element count is height * width.                   *)
(***************************************************************************)
EXTENDS Naturals

CONSTANTS
    None,       \* pixel_data = None
    MaxDim,     \* largest width and height explored
    MaxLen      \* longest buffer explored, in bytes

ASSUME PixelDecodeAssumption ==
    /\ None \notin Nat
    /\ MaxDim \in Nat /\ MaxLen \in Nat

(* The tags a frame can carry: the four of format_map and one unknown.    *)
Formats == {"u8", "u16_le", "u16_be", "f32_le"}
Tags == Formats \cup {"rgb24"}

(* Mutant: f32_le viewed as 16-bit samples.                                *)
FormatMapF32Short == [u8 |-> 1, u16_le |-> 2, u16_be |-> 2, f32_le |-> 2]

(* format_map (lines 80-85), as the item size in bytes of each dtype.     *)
FormatMap == [u8 |-> 1, u16_le |-> 2, u16_be |-> 2, f32_le |-> 4]

Failed == [ok |-> FALSE, len |-> 0]
Array(n) == [ok |-> TRUE, len |-> n]

(* to_numpy (lines 76-92): the array, or the ValueError it raises.         *)
ToNumpy(data, fmt, height, width) ==
    IF data = None \/ fmt \notin DOMAIN FormatMap THEN Failed
    ELSE IF data % FormatMap[fmt] # 0 THEN Failed
    ELSE IF data \div FormatMap[fmt] # height * width THEN Failed
    ELSE Array(data \div FormatMap[fmt])

Frames == [data : (0..MaxLen) \cup {None}, fmt : Tags,
           height : 0..MaxDim, width : 0..MaxDim]

VARIABLES
    frame,      \* the Frame the caller holds
    result      \* what frame.to_numpy() gave, None before the call

vars == <<frame, result>>

Init == frame \in Frames /\ result = None

(* The caller converts the frame.                                          *)
Decode ==
    /\ result = None
    /\ result' = ToNumpy(frame.data, frame.fmt, frame.height, frame.width)
    /\ UNCHANGED frame

Spec == Init /\ [][Decode]_vars

-----------------------------------------------------------------------------
(* The bytes per sample spec section 8 gives each supported format.       *)
BytesPerSample == [u8 |-> 1, u16_le |-> 2, u16_be |-> 2, f32_le |-> 4]

(* Spec section 8: a buffer of width * height * bytes_per_sample(format)  *)
(* bytes decodes, for each of the four formats, to width * height values; *)
(* an unrecognised format tag fails (streaming.py lines 80-92).           *)
DecodeMatchesSpec ==
    result # None =>
        /\ (frame.fmt \in Formats
             /\ frame.data = frame.height * frame.width * BytesPerSample[frame.fmt])
            => result = Array(frame.height * frame.width)
        /\ frame.fmt \notin Formats => ~result.ok
=============================================================================
