------------------------------ MODULE H264Object ------------------------------
(***************************************************************************)
(* H264EncoderImpl, the x264 based encoder of MAE                           *)
(* (modules/video_coding/codecs/h264/h264_encoder_impl.cc), together with   *)
(* the part of the x264 library's state its calls change.                   *)
(*                                                                         *)
(* The object is a value, the record enc, and every method is an operator   *)
(* from the object before the call to the object after it, so that a        *)
(* handler that makes several calls (VideoStreamEncoder::ReconfigureEncoder *)
(* releases, initialises and sets rates) is one step.  H264Encoder is the   *)
(* object under any caller, VideoStreamEncoder the object under its owner.  *)
(*                                                                         *)
(* encoder is the x264_t pointer: NULL, a handle 1, 2, ... in the order     *)
(* x264_encoder_open returned them, or Garbage, since the constructor leaves*)
(* encoder_ and inited_ uninitialised.  open, alloc, lib and fresh belong   *)
(* to the library: the handles not closed, the planes x264_picture_alloc    *)
(* allocated that nobody freed, the rate control the current handle runs    *)
(* with and whether it has encoded nothing yet; refused tells whether it    *)
(* did not take the last rate control it was given, which                   *)
(* x264_encoder_reconfig returns and SetRates ignores.  misuse collects the *)
(* calls that break x264's contract; alive is FALSE once one has ended the  *)
(* process.                                                                 *)
(***************************************************************************)
EXTENDS Integers, Sequences, FiniteSets

CONSTANTS
    CodecModes,     \* values of rtc::GetCodecChoose(), see rtc_base/helpers.cc
    TargetBps,      \* bitrates a caller asks of a spatial layer, in bits/s
    TemporalLayers, \* values of num_temporal_layers
    MaxStreams,     \* simulcast streams of a codec configuration
    HardenedVector  \* does the build's std::vector::operator[] check its index?

ASSUME ModesAssumption == CodecModes \subseteq 0..5
ASSUME TargetAssumption == TargetBps \subseteq Nat
ASSUME LayersAssumption == TemporalLayers \subseteq 0..3
ASSUME HardeningAssumption == HardenedVector \in BOOLEAN
ASSUME StreamsAssumption == MaxStreams \in Nat \ {0}

NULL == 0
Garbage == -1

FrameTypes == {"empty", "key", "delta"}

(***************************************************************************)
(* Temporal layers: ScalabilityStructureL1T2 / L1T3 and, for one layer,     *)
(* ScalableVideoControllerNoLayering.  No caller disables a decode target   *)
(* (OnRatesUpdated is never called), so a temporal layer is active iff it   *)
(* exists.                                                                  *)
(***************************************************************************)
Patterns == {"none", "key", "T0", "T1", "T2A", "T2B"}

NextPattern(last, layers) ==
    CASE last = "none" -> "key"
      [] last = "T2A" /\ layers > 1 -> "T1"
      [] last = "T1" /\ layers > 2 -> "T2B"
      [] last \in {"key", "T0"} /\ layers > 2 -> "T2A"
      [] last \in {"key", "T0"} /\ layers = 2 -> "T1"
      [] OTHER -> "T0"

\* The pattern of the next frame; a restart forgets the last one.
NextFrameConfig(last, layers, restart) ==
    NextPattern(IF restart THEN "none" ELSE last, layers)

TemporalId(pattern) ==
    CASE pattern = "T1" -> 1
      [] pattern \in {"T2A", "T2B"} -> 2
      [] OTHER -> 0

-----------------------------------------------------------------------------
(* H264EncoderImpl::LayerConfig.  A default constructed one is sending.      *)
LayerConfigs ==
    [sending: BOOLEAN, keyReq: BOOLEAN, layers: 0..3, pattern: Patterns]

DefaultLayerConfig ==
    [sending |-> TRUE, keyReq |-> FALSE, layers |-> 1, pattern |-> "none"]

\* What InitEncode's loop leaves in a configuration.
InitLayerConfig(layers) ==
    [sending |-> FALSE, keyReq |-> FALSE, layers |-> layers, pattern |-> "none"]

SetStreamState(cfg, send) ==
    [cfg EXCEPT !.keyReq = @ \/ (send /\ ~cfg.sending), !.sending = send]

(***************************************************************************)
(* Rate control, param_.rc: kbit/s, VBV buffer in kbit, filler NALs.        *)
(***************************************************************************)
RateControls == [kbps: Nat, vbv: Nat, filler: BOOLEAN]

\* Mutant: a buffer of 30 ms.
VbvPercentTooTight(mode, overused) ==
    IF (mode >= 4 /\ overused) \/ mode = 3 THEN 3 ELSE 50

\* The VBV buffer in percent of a second of the bitrate, as SetRates chooses
\* it; overused stands for is_overused_for_encoder > 2.0.
VbvPercent(mode, overused) ==
    IF (mode >= 4 /\ overused) \/ mode = 3 THEN 4 ELSE 50

\* bitrate_kbps * vbv_ratio, converted to int.
VbvSize(kbps, percent) == (kbps * percent) \div 100

\* InitEncode configures 3000 kbit/s whatever the start bitrate.
InitRateControl(mode) ==
    [kbps |-> 3000, vbv |-> VbvSize(3000, IF mode = 5 THEN 4 ELSE 50),
     filler |-> mode = 5]

\* param_ is uninitialised until InitEncode clears it.
NoRateControl == [kbps |-> 0, vbv |-> 0, filler |-> FALSE]

(***************************************************************************)
(* The object                                                              *)
(***************************************************************************)
Misuses == {"null_close", "null_encode", "foreign_free", "no_configuration"}

\* What the last call returned; "never" if it ended the process.
Returns == {"ok", "uninitialized", "failure", "error", "parameter", "simulcast",
            "never"}

\* What the last Encode call handed to the callback: sent, the idr_frame flag
\* it carries, whether x264 made an IDR picture, whether the caller asked for
\* a key frame, and whether a picture x264 produced was thrown away.
Outputs == [sent: BOOLEAN, idr: BOOLEAN, isKey: BOOLEAN, asked: BOOLEAN,
            discarded: BOOLEAN]

NoOutput == [sent |-> FALSE, idr |-> FALSE, isKey |-> FALSE, asked |-> FALSE,
             discarded |-> FALSE]

Encoders ==
    [inited: BOOLEAN, encoder: Int, callback: BOOLEAN,
     configurations: Seq(LayerConfigs), param: RateControls,
     pic: {"none", "alloc", "frame"}, opened: Nat, open: SUBSET Nat,
     alloc: Nat, lib: RateControls, fresh: BOOLEAN, refused: BOOLEAN,
     out: Outputs, ret: Returns, misuse: SUBSET Misuses, alive: BOOLEAN]

\* The constructor leaves inited_ and encoder_ as the heap had them.
ConstructedEncoder(inited, encoder) ==
    [inited |-> inited, encoder |-> encoder, callback |-> FALSE,
     configurations |-> << >>, param |-> NoRateControl, pic |-> "none",
     opened |-> 0, open |-> {}, alloc |-> 0, lib |-> NoRateControl,
     fresh |-> TRUE, refused |-> FALSE, out |-> NoOutput, ret |-> "ok",
     misuse |-> {}, alive |-> TRUE]

Release(e) ==
    [e EXCEPT !.encoder = NULL, !.configurations = << >>, !.ret = "ok"]

RegisterEncodeCompleteCallback(e, callback) ==
    [e EXCEPT !.callback = callback, !.ret = "ok"]

\* A call x264 does not define ends the process.
Crash(e, how) ==
    [e EXCEPT !.misuse = @ \cup {how}, !.alive = FALSE, !.ret = "never"]

\* configurations_[0] of an empty vector: a trap in a hardened build, else the
\* storage of a destroyed element, which the next resize initialises anew.
NoConfiguration(e) ==
    IF HardenedVector THEN Crash(e, "no_configuration")
    ELSE [e EXCEPT !.misuse = @ \cup {"no_configuration"}]

(***************************************************************************)
(* SetRates.  r.layer0 is GetSpatialLayerSum(0), r.others the rest of       *)
(* get_sum_bps(), r.fps the framerate.  r.refused is what x264 makes of     *)
(* the call, if there is one: it may refuse the parameters or not copy      *)
(* them (x264.h), 0 kbit/s and an empty buffer among them.                  *)
(***************************************************************************)
RateParameters ==
    [layer0: TargetBps, others: TargetBps, fps: {0, 30}, overused: BOOLEAN,
     refused: BOOLEAN]

\* Mutant: x264_encoder_reconfig is not called.
ReconfigureObjectOnly(e, mode, r) ==
    LET kbps == r.layer0 \div 1000
    IN  [e EXCEPT !.configurations[1] = SetStreamState(@, TRUE),
                  !.param.kbps = kbps,
                  !.param.vbv = VbvSize(kbps, VbvPercent(mode, r.overused))]

\* The rate control of a nonzero target.  The object takes it in any case, the
\* handle as a whole or not at all.
Reconfigure(e, mode, r) ==
    LET kbps == r.layer0 \div 1000
        rc == [e.param EXCEPT !.kbps = kbps,
                              !.vbv = VbvSize(kbps, VbvPercent(mode, r.overused))]
    IN  [e EXCEPT !.configurations[1] = SetStreamState(@, TRUE),
                  !.param = rc, !.lib = IF r.refused THEN @ ELSE rc,
                  !.refused = r.refused]

SetRates(e, mode, r) ==
    CASE e.encoder = NULL \/ r.fps < 1 -> e
      [] e.encoder # NULL /\ r.fps >= 1 /\ r.layer0 + r.others = 0 ->
            [e EXCEPT !.configurations =
                [i \in DOMAIN @ |-> SetStreamState(@[i], FALSE)]]
      [] e.encoder # NULL /\ r.fps >= 1 /\ r.layer0 + r.others > 0 ->
            IF e.configurations = << >> THEN
                \* only with Garbage, which x264_encoder_reconfig dereferences
                IF r.layer0 > 0 THEN Crash(e, "no_configuration")
                ELSE NoConfiguration(e)
            ELSE IF r.layer0 > 0 THEN Reconfigure(e, mode, r)
            ELSE [e EXCEPT !.configurations[1] = SetStreamState(@, FALSE)]

(***************************************************************************)
(* InitEncode.  inst.kind tells a VideoCodec the parameter checks refuse    *)
(* ("invalid"), one whose simulcast streams are not supported and a good    *)
(* one; inst.start is the allocation of the start bitrate, with an overuse  *)
(* value the two-argument RateControlParameters leaves uninitialised.       *)
(* fail.at is the stream whose iteration of the loop fails, 0 for none;     *)
(* fail.in tells x264_encoder_open from the calls before it                 *)
(* (x264_param_default_preset, x264_param_apply_profile, x264_picture_alloc)*)
(***************************************************************************)
Instances ==
    [kind: {"invalid", "bad_simulcast", "good"}, streams: 1..MaxStreams,
     layers: TemporalLayers, start: RateParameters]

InitFailures ==
    {f \in [at: 0..MaxStreams, in: {"open", "setup"}] :
        f.at = 0 => f.in = "open"}

\* The loop after k iterations that succeeded.  One x264_t per stream is
\* opened into the same encoder_ and one picture allocated into the same pic_.
OpenStreams(e, mode, inst, k) ==
    LET rc == InitRateControl(mode)
        sized == [i \in 1..inst.streams |->
                    IF i <= k THEN InitLayerConfig(inst.layers)
                    ELSE DefaultLayerConfig]
    IN  IF k = 0 THEN [e EXCEPT !.configurations = sized]
        ELSE [e EXCEPT !.configurations = sized,
                       !.inited = TRUE, !.encoder = e.opened + k,
                       !.opened = @ + k,
                       !.open = @ \cup (e.opened + 1)..(e.opened + k),
                       !.alloc = @ + k, !.pic = "alloc",
                       !.param = rc, !.lib = rc, !.fresh = TRUE,
                       !.refused = FALSE]

\* The error paths of the loop close whatever encoder_ holds.
FailInit(e, in) ==
    CASE in = "open" -> Crash([e EXCEPT !.encoder = NULL], "null_close")
      [] in = "setup" /\ e.encoder = NULL -> Crash(e, "null_close")
      [] in = "setup" /\ e.encoder # NULL ->
            [e EXCEPT !.open = @ \ {e.encoder}, !.encoder = NULL,
                      !.ret = "error"]

InitEncode(e, mode, inst, fail) ==
    CASE inst.kind = "invalid" -> [e EXCEPT !.ret = "parameter"]
      [] inst.kind = "bad_simulcast" /\ inst.streams > 1 ->
            [Release(e) EXCEPT !.ret = "simulcast"]
      [] OTHER ->
            IF fail.at \in 1..inst.streams
            THEN FailInit(OpenStreams(Release(e), mode, inst, fail.at - 1),
                          fail.in)
            ELSE SetRates(OpenStreams(Release(e), mode, inst, inst.streams),
                          mode, inst.start)

(***************************************************************************)
(* Encode.  types is frame_types, one entry per stream; i420 tells whether  *)
(* the frame converts to I420.  x264 answers with an error, with no picture *)
(* or with a picture, an IDR one if x.isKey.                                *)
(***************************************************************************)
X264Answers ==
    {a \in [res: {"error", "skip", "picture"}, isKey: BOOLEAN] :
        a.isKey => a.res = "picture"}

\* External: pic_.i_type is X264_TYPE_AUTO, so x264 chooses the picture type;
\* the first picture of a handle is an IDR.
IsIdr(e, answer) == e.fresh \/ answer.isKey

\* Mutant: the requests of the configurations are ignored.
SendsKeyFrameExplicitOnly(e, types) == types[Len(e.configurations)] = "key"

\* Only the first configuration, the stream with the highest simulcast_idx, is
\* encoded.  Any sending configuration with a request makes it a key frame.
SendsKeyFrame(e, types) ==
    \/ \E i \in DOMAIN e.configurations :
            e.configurations[i].keyReq /\ e.configurations[i].sending
    \/ types[Len(e.configurations)] = "key"

\* Mutant: encoder_ is not reset after x264_encoder_close.
EncodeFailsKeepsHandle(e) ==
    [e EXCEPT !.open = @ \ {e.encoder}, !.ret = "error", !.out = NoOutput]

\* x264_encoder_encode failed: close the handle and clean a picture whose
\* planes belong to the frame buffer.
EncodeFails(e) ==
    [e EXCEPT !.open = @ \ {e.encoder}, !.encoder = NULL, !.pic = "frame",
              !.misuse = @ \cup {"foreign_free"}, !.ret = "error",
              !.out = NoOutput]

\* The picture is delivered unless its temporal layer is not the requested one.
Deliver(e, key, asked, isKey) ==
    LET cfg == e.configurations[1]
        pattern == NextFrameConfig(cfg.pattern, cfg.layers, key)
        discard == cfg.layers > 1 /\ TemporalId(pattern) # 0
    IN  [e EXCEPT !.configurations[1].pattern = IF discard THEN @ ELSE pattern,
                  !.pic = "frame", !.fresh = FALSE, !.ret = "ok",
                  !.out = [sent |-> ~discard, idr |-> ~discard /\ key,
                           isKey |-> isKey, asked |-> asked,
                           discarded |-> discard]]

\* x264 produced nothing: NextFrameConfig ran, OnEncodeDone did not.
SkipPicture(e, key) ==
    [e EXCEPT !.configurations[1].pattern = IF key THEN "none" ELSE @,
              !.pic = "frame", !.ret = "ok", !.out = NoOutput]

EncodeLayer(e, types, answer) ==
    LET key == SendsKeyFrame(e, types)
        asked == types[Len(e.configurations)] = "key"
    IN  CASE e.encoder = NULL -> Crash(e, "null_encode")
          [] e.encoder # NULL /\ answer.res = "error" -> EncodeFails(e)
          [] e.encoder # NULL /\ answer.res = "skip" -> SkipPicture(e, key)
          [] e.encoder # NULL /\ answer.res = "picture" ->
                Deliver(e, key, asked, IsIdr(e, answer))

\* Encode after Release: the destroyed configuration was sending, and x264 is
\* called without a handle, or it was not (answer.res = "skip").
EncodeUnconfigured(e, answer) ==
    IF answer.res = "skip"
    THEN [NoConfiguration(e) EXCEPT !.pic = "frame", !.ret = "ok",
                                    !.out = NoOutput]
    ELSE Crash(e, "no_configuration")

Encode(e, i420, types, answer) ==
    CASE ~e.inited \/ ~e.callback ->
            [e EXCEPT !.ret = "uninitialized", !.out = NoOutput]
      [] e.inited /\ e.callback /\ ~i420 ->
            [e EXCEPT !.ret = "failure", !.out = NoOutput]
      [] OTHER ->
            IF e.configurations = << >>
            THEN EncodeUnconfigured(e, answer)
            ELSE IF ~e.configurations[1].sending \/ types[1] = "empty"
            THEN [e EXCEPT !.pic = "frame", !.ret = "ok", !.out = NoOutput]
            ELSE EncodeLayer(e, types, answer)

\* encoder_ is a handle x264_encoder_open returned.
Live(e) == e.encoder \notin {NULL, Garbage}

=============================================================================
