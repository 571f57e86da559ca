-------------------------- MODULE PixelDecode_proofs --------------------------
(***************************************************************************)
(* Proofs about Frame.to_numpy for every width, height and buffer length, *)
(* not only the ones the run explores.                                     *)
(***************************************************************************)
EXTENDS PixelDecode, TLAPS

(* The frame never changes, and the result meets spec section 8.          *)
DInv == frame \in Frames /\ DecodeMatchesSpec

(* A buffer of n * item size bytes passes both of to_numpy's size checks  *)
(* and becomes n values, whatever the item size of a supported format.    *)
LEMMA ExactBufferDecodes ==
    ASSUME NEW f \in Formats, NEW n \in Nat
    PROVE  LET s == FormatMap[f] IN (n * s) % s = 0 /\ (n * s) \div s = n
<1>1. FormatMap[f] \in {1, 2, 4}
  BY DEF Formats, FormatMap
<1>2. \A s \in {1, 2, 4} : (n * s) % s = 0 /\ (n * s) \div s = n
  BY SMT
<1>3. QED
  BY <1>1, <1>2

(* to_numpy returns height * width values for a buffer of the size spec   *)
(* section 8 gives, and fails for any tag outside format_map.             *)
LEMMA ToNumpyMeetsSpec ==
    ASSUME NEW d \in Nat \cup {None}, NEW f \in Tags,
           NEW h \in Nat, NEW w \in Nat
    PROVE  /\ (f \in Formats /\ d = h * w * BytesPerSample[f])
                 => ToNumpy(d, f, h, w) = Array(h * w)
           /\ f \notin Formats => ~ToNumpy(d, f, h, w).ok
<1>1. ASSUME f \in Formats, d = h * w * BytesPerSample[f]
      PROVE  ToNumpy(d, f, h, w) = Array(h * w)
  <2>1. BytesPerSample[f] = FormatMap[f]
    BY <1>1 DEF Formats, BytesPerSample, FormatMap
  <2>2. h * w \in Nat
    OBVIOUS
  <2>3. d \in Nat /\ d # None
    BY <1>1, <2>1, <2>2, PixelDecodeAssumption DEF Formats, FormatMap
  <2>4. (d % FormatMap[f]) = 0 /\ d \div FormatMap[f] = h * w
    BY <1>1, <2>1, <2>2, ExactBufferDecodes
  <2>5. f \in DOMAIN FormatMap
    BY <1>1 DEF Formats, FormatMap
  <2>6. QED
    BY <2>3, <2>4, <2>5 DEF ToNumpy
<1>2. ASSUME f \notin Formats PROVE ~ToNumpy(d, f, h, w).ok
  <2>1. f \notin DOMAIN FormatMap
    BY <1>2 DEF Formats, FormatMap
  <2>2. QED
    BY <2>1 DEF ToNumpy, Failed
<1>3. QED
  BY <1>1, <1>2

(* Every Decode step keeps the invariant.                                  *)
LEMMA DInvStep == DInv /\ [Decode]_vars => DInv'
<1> SUFFICES ASSUME DInv, [Decode]_vars PROVE DInv'
  OBVIOUS
<1>1. CASE Decode
  <2>1. frame' = frame /\ frame \in Frames
    BY <1>1 DEF Decode, DInv
  <2>2. frame.data \in Nat \cup {None} /\ frame.fmt \in Tags
        /\ frame.height \in Nat /\ frame.width \in Nat
    BY <2>1 DEF Frames
  <2>3. result' = ToNumpy(frame.data, frame.fmt, frame.height, frame.width)
    BY <1>1 DEF Decode
  <2>4. QED
    BY <2>1, <2>2, <2>3, ToNumpyMeetsSpec DEF DInv, DecodeMatchesSpec
<1>2. CASE UNCHANGED vars
  BY <1>2 DEF DInv, DecodeMatchesSpec, vars
<1>3. QED
  BY <1>1, <1>2

(* Spec section 8's decoding property holds in every reachable state, for *)
(* every MaxDim and MaxLen: whatever frame the caller holds, to_numpy     *)
(* decodes a correctly sized buffer and rejects an unknown format.        *)
THEOREM DecodeMatchesSpecHolds == Spec => []DecodeMatchesSpec
<1>1. Init => DInv
  BY DEF Init, DInv, DecodeMatchesSpec
<1>2. DInv /\ [Decode]_vars => DInv'
  BY DInvStep
<1>3. QED
  BY <1>1, <1>2, PTL DEF Spec, DInv
=============================================================================
