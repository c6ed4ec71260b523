----------------------------- MODULE H264Encoder -----------------------------
(***************************************************************************)
(* H264EncoderImpl under any caller of the VideoEncoder interface: the      *)
(* calls of H264Object in any order, with any parameters and any failure of *)
(* the x264 library.                                                        *)
(***************************************************************************)
EXTENDS H264Object

CONSTANT MaxOpens   \* bound: x264_encoder_open calls of a behaviour

ASSUME OpensAssumption == MaxOpens \in Nat

VARIABLES
    codec_choose,   \* g_codec_choose, set by main before the call starts
    enc             \* the H264EncoderImpl object and its x264 state

vars == <<codec_choose, enc>>

Init ==
    /\ codec_choose \in CodecModes
    /\ \E inited \in BOOLEAN, encoder \in {NULL, Garbage} :
            enc = ConstructedEncoder(inited, encoder)

DoInitEncode ==
    /\ enc.alive
    /\ \E inst \in Instances, fail \in InitFailures :
        /\ enc.opened + inst.streams <= MaxOpens
        /\ inst.start.fps = 30     \* maxFramerate is not 0
        /\ enc' = InitEncode(enc, codec_choose, inst, fail)
    /\ UNCHANGED codec_choose

DoRelease ==
    /\ enc.alive
    /\ enc' = Release(enc)
    /\ UNCHANGED codec_choose

DoRegisterEncodeCompleteCallback ==
    /\ enc.alive
    /\ \E callback \in BOOLEAN :
            enc' = RegisterEncodeCompleteCallback(enc, callback)
    /\ UNCHANGED codec_choose

DoSetRates ==
    /\ enc.alive
    /\ \E r \in RateParameters : enc' = SetRates(enc, codec_choose, r)
    /\ UNCHANGED codec_choose

DoEncode ==
    /\ enc.alive
    /\ \E i420 \in BOOLEAN, answer \in X264Answers :
        \E types \in [1..MaxStreams -> FrameTypes] :
            enc' = Encode(enc, i420, types, answer)
    /\ UNCHANGED codec_choose

\* The process is gone.
Terminated == ~enc.alive /\ UNCHANGED vars

Next ==
    \/ DoInitEncode
    \/ DoRelease
    \/ DoRegisterEncodeCompleteCallback
    \/ DoSetRates
    \/ DoEncode
    \/ Terminated

Spec == Init /\ [][Next]_vars

-----------------------------------------------------------------------------
(***************************************************************************)
(* Properties                                                              *)
(***************************************************************************)
\* The object is well formed: every field has the type of the code's member.
TypeOK ==
    /\ codec_choose \in CodecModes
    /\ enc \in Encoders

\* encoder_ never dangles: whatever order of initialisations, releases and
\* failures led here, a pointer that is neither null nor left over from the
\* constructor is a handle x264 has not closed.
NoDanglingHandle == Live(enc) => enc.encoder \in enc.open

\* The current x264 handle runs with the rate control that SetRates and
\* InitEncode have written to param_, unless x264 refused the last one, which
\* SetRates does not notice: no path writes one and forgets the other, a new
\* handle inherits nothing, and the next setting x264 takes makes up for all it
\* has refused.
LibraryInSync == Live(enc) /\ ~enc.refused => enc.lib = enc.param

\* No picture x264 has encoded is thrown away for belonging to a temporal
\* layer that was not requested (the `continue' in Encode), although the
\* encoder always answers with layer 0 while the structure asks for T1 and T2
\* in turn.
NoPictureDiscarded == ~enc.out.discarded

\* From 125 kbit/s on, the VBV buffer the encoder runs with holds at least the
\* bits of one frame at the 30 frames/s of param_.i_fps_num, in every codec
\* mode and for every overuse signal, rounding to whole kbit included.
VbvHoldsOneFrame ==
    Live(enc) /\ enc.lib.kbps >= 125 => 30 * enc.lib.vbv >= enc.lib.kbps

\* Finding: Release frees the encoder's memory, as VideoEncoder::Release
\* ("Free encoder memory.") promises: an object without a handle has none open.
ReleaseFreesEncoder == enc.encoder = NULL => enc.open = {}

=============================================================================
