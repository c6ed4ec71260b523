------------------------- MODULE H264EncoderProofs -------------------------
(***************************************************************************)
(* Proofs about H264Encoder: the invariant of the object, which every       *)
(* method preserves (H264ObjectProofs), holds under any caller, and the     *)
(* properties the runs check follow from it.                                *)
(***************************************************************************)
EXTENDS H264Encoder, H264ObjectProofs

\* The inductive invariant of the specification.
IInv == codec_choose \in CodecModes /\ EncoderInv(enc)

\* Under any caller, H264EncoderImpl's methods keep the object well formed and
\* EncoderInv true of it.
THEOREM Invariance == Spec => []IInv
<1>1. Init => IInv
  <2> SUFFICES ASSUME Init PROVE IInv
    OBVIOUS
  <2>1. PICK inited \in BOOLEAN, h \in {NULL, Garbage} :
            enc = ConstructedEncoder(inited, h)
    BY DEF Init
  <2> QED
    BY <2>1, ConstructedInv DEF Init, IInv
<1>2. IInv /\ [Next]_vars => IInv'
  <2> SUFFICES ASSUME IInv, [Next]_vars PROVE IInv'
    OBVIOUS
  <2> USE DEF IInv
  <2>1. CASE DoInitEncode
    BY <2>1, InitEncodeInv, ParametersAreRates DEF DoInitEncode
  <2>2. CASE DoRelease
    BY <2>2, ReleaseInv DEF DoRelease
  <2>3. CASE DoRegisterEncodeCompleteCallback
    BY <2>3, RegisterInv DEF DoRegisterEncodeCompleteCallback
  <2>4. CASE DoSetRates
    BY <2>4, SetRatesInv, ParametersAreRates DEF DoSetRates
  <2>5. CASE DoEncode
    BY <2>5, EncodeInv DEF DoEncode
  <2>6. CASE UNCHANGED vars
    BY <2>6 DEF vars
  <2> QED
    BY <2>1, <2>2, <2>3, <2>4, <2>5, <2>6 DEF Next, Terminated
<1> QED
  BY <1>1, <1>2, PTL DEF Spec

\* H264EncoderImpl keeps its members' types under any caller.
THEOREM TypeCorrect == Spec => []TypeOK
<1>1. IInv => TypeOK
  BY DEF IInv, EncoderInv, TypeOK
<1> QED
  BY <1>1, Invariance, PTL

\* encoder_ never points at an x264 handle that has been closed.
THEOREM HandleSafety == Spec => []NoDanglingHandle
<1>1. IInv => NoDanglingHandle
  BY DEF IInv, EncoderInv, NoDanglingHandle
<1> QED
  BY <1>1, Invariance, PTL

\* x264 runs with the rate control the object believes it runs with, unless it
\* refused the last one.
THEOREM RateControlInSync == Spec => []LibraryInSync
<1>1. IInv => LibraryInSync
  BY DEF IInv, EncoderInv, LibraryInSync
<1> QED
  BY <1>1, Invariance, PTL

\* Whatever the number of temporal layers, no encoded picture is discarded.
THEOREM AllPicturesDelivered == Spec => []NoPictureDiscarded
<1>1. IInv => NoPictureDiscarded
  BY DEF IInv, EncoderInv, NoPictureDiscarded
<1> QED
  BY <1>1, Invariance, PTL

\* A VBV buffer of 4 % or 50 % of a second holds one frame at 30 frames/s, for
\* every bitrate from 125 kbit/s on.
THEOREM VbvSufficient == Spec => []VbvHoldsOneFrame
<1>1. IInv => VbvHoldsOneFrame
  BY DEF IInv, EncoderInv, VbvHoldsOneFrame, HoldsOneFrame
<1> QED
  BY <1>1, Invariance, PTL

=============================================================================
