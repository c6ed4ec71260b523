-------------------------- MODULE VideoStreamEncoder --------------------------
(***************************************************************************)
(* VideoStreamEncoder (video/video_stream_encoder.cc), the owner of the     *)
(* H264EncoderImpl object, with one simulcast stream.  Everything it does   *)
(* to the encoder runs as a task of encoder_queue_, which runs one task at  *)
(* a time: a task is one step and an operator from the members before it to *)
(* the members after it.  Tasks arrive in any order, as their posters       *)
(* (worker thread, capturer, RTCP and transport queues) are not             *)
(* synchronised with each other.                                            *)
(*                                                                         *)
(* v.exists tells whether encoder_ is null; v.enc is the object it points   *)
(* to (or pointed to: the x264 handles of destroyed objects stay there).    *)
(* asked and signal are history: a key frame request no Encode call has     *)
(* taken yet and the overuse signal of the last OnBitrateUpdated.           *)
(* The initial frame drop, the frame dropper and the pause of the encoder   *)
(* are disabled in this code base (DropDueToSize and EncoderPaused return   *)
(* false), so pending_frame_ is never set and is not modelled.              *)
(***************************************************************************)
EXTENDS H264Object

CONSTANTS
    Formats,        \* encoder_config_.video_format with max_data_payload_length
    Sizes,          \* frame sizes, positive numbers
    MinKbps,        \* minBitrate and
    MaxKbps,        \* maxBitrate of the stream, in kbit/s
    FrameRates,     \* frame rate limits of a configuration
    Utilizations,   \* utilisations of the adjuster, in percent
    MaxOpens        \* bound: x264_encoder_open calls of a behaviour

ASSUME SizesAssumption == Sizes \subseteq Nat \ {0}
ASSUME LimitsAssumption ==
    MinKbps \in Nat /\ MaxKbps \in Nat \ {0} /\ MinKbps <= MaxKbps
ASSUME FrameRatesAssumption == FrameRates \subseteq Nat
\* The rate is never raised (1.0), and at most halved (2.0).
ASSUME UtilizationsAssumption == Utilizations \subseteq 100..200
ASSUME OpensAssumption == MaxOpens \in Nat

-----------------------------------------------------------------------------
(***************************************************************************)
(* Rates.  target is encoder_target, link bandwidth_allocation, bitrate the *)
(* adjusted allocation of the one stream, fps framerate_fps and overused    *)
(* is_overused_for_encoder > 2.0.  how is what the environment decides when *)
(* rates are applied: how far the encoder overshoots its target, whether    *)
(* the cadence adapter knows an input frame rate and whether x264 refuses   *)
(* the reconfiguration.                                                     *)
(***************************************************************************)
\* last_encoder_rate_settings_ without a value.
NoRates ==
    [target |-> -1, link |-> 0, bitrate |-> 0, fps |-> 0, overused |-> FALSE]

RateChoices == [utilization: Utilizations, known: BOOLEAN, refused: BOOLEAN]

Clamp(x, low, high) == IF x > high THEN high ELSE IF x < low THEN low ELSE x

\* SimulcastRateAllocator::Allocate for one stream and one temporal layer: the
\* target within the limits of the stream, in whole kbit/s unless below one.
Allocate(bps) ==
    LET rate == Clamp(bps, 1000 * MinKbps, 1000 * MaxKbps)
    IN  IF rate < 1000 THEN rate ELSE 1000 * (rate \div 1000)

\* EncoderBitrateAdjuster::AdjustRateAllocation: the allocation divided by the
\* utilisation its overshoot detectors measured, rounded, within the minimum.
AdjustRateAllocation(bitrate, utilization) ==
    LET adjusted == (200 * bitrate + utilization) \div (2 * utilization)
    IN  IF bitrate = 0 THEN 0
        ELSE IF adjusted < 1000 * MinKbps THEN 1000 * MinKbps
        ELSE adjusted

\* What a SetRates call of H264EncoderImpl is given.
RateParametersOf(bitrate, fps, overused, refused) ==
    [layer0 |-> bitrate, others |-> 0, fps |-> fps, overused |-> overused,
     refused |-> refused]

\* VideoEncoder::RateControlParameters::operator==
SameRateControl(r, q) ==
    r.bitrate = q.bitrate /\ r.fps = q.fps /\ r.link = q.link

\* The link must carry what was allocated; the encoder is given less.  The
\* adjuster is made by the same reconfiguration as the allocator, without which
\* there is nothing to adjust.
UpdateBitrateAllocation(v, r, utilization) ==
    LET bitrate == IF v.allocator /\ r.target > 0 THEN Allocate(r.target) ELSE 0
    IN  [r EXCEPT !.bitrate = AdjustRateAllocation(bitrate, utilization),
                  !.link = IF @ < bitrate THEN bitrate ELSE @]

\* The limit of the configuration until frames have come in, then a constant.
GetInputFramerateFps(v, known) == IF known THEN 30 ELSE v.codec.fps

\* The cache takes every setting that differs; the encoder only hears of a
\* changed rate control, and never of a rate of 0.
SetEncoderRates(v, mode, r, refused) ==
    LET changed == v.rates = NoRates \/ ~SameRateControl(v.rates, r)
        cached == IF changed \/ v.rates.target # r.target
                  THEN [v EXCEPT !.rates = r] ELSE v
    IN  IF ~v.exists \/ r.bitrate = 0 \/ ~changed THEN cached
        ELSE [cached EXCEPT
                !.enc = SetRates(@, mode, RateParametersOf(r.bitrate, r.fps,
                                                           r.overused, refused))]

-----------------------------------------------------------------------------
(***************************************************************************)
(* The members                                                             *)
(***************************************************************************)
\* A frame rate limit of 0 is the one parameter that InitEncode refuses.
Configs == [format: Formats, layers: TemporalLayers, fps: FrameRates]

\* A new H264EncoderImpl at memory with unknown content; x264 keeps what the
\* object before it has opened.
NewObject(e, inited, encoder) ==
    [ConstructedEncoder(inited, encoder) EXCEPT
        !.opened = e.opened, !.open = e.open, !.alloc = e.alloc,
        !.misuse = e.misuse]

Constructed(config) ==
    [enc |-> ConstructedEncoder(FALSE, NULL), exists |-> FALSE,
     initialized |-> FALSE, allocator |-> FALSE, creation |-> FALSE,
     reconfiguration |-> FALSE, configured |-> FALSE, config |-> config,
     codec |-> [size |-> 0, layers |-> 0, fps |-> 30, start |-> 0],
     frame |-> 0, rates |-> NoRates, start |-> 0, types |-> "delta",
     encoded |-> FALSE, asked |-> FALSE, signal |-> FALSE,
     stopped |-> FALSE]

-----------------------------------------------------------------------------
(***************************************************************************)
(* ReconfigureEncoder.  env is what the environment decides: whether the    *)
(* factory creates an encoder, the memory of the new object, the failures   *)
(* of InitEncode, the overuse value InitEncode's own SetRates call leaves   *)
(* uninitialised and x264's answer to that call.                            *)
(***************************************************************************)
NoFailure == [at |-> 0, in |-> "open"]

Environments ==
    [created: BOOLEAN, inited: BOOLEAN, pointer: {NULL, Garbage},
     fail: {f \in InitFailures : f.at = 1 \/ f = NoFailure},
     overused: BOOLEAN, refused: BOOLEAN]

\* Mutant: encoder_initialized_ is not reset.
ReleaseEncoderOnly(v) ==
    IF v.exists /\ v.initialized THEN [v EXCEPT !.enc = Release(@)] ELSE v

ReleaseEncoder(v) ==
    IF v.exists /\ v.initialized
    THEN [v EXCEPT !.enc = Release(@), !.initialized = FALSE] ELSE v

\* Mutant: a factory that failed is not asked again.
CreateEncoderOnce(v, env) ==
    [v EXCEPT !.enc = NewObject(@, env.created /\ env.inited,
                                IF env.created THEN env.pointer ELSE NULL),
              !.exists = env.created, !.creation = FALSE]

\* The old instance is destroyed before the factory is asked for a new one.
CreateEncoder(v, env) ==
    IF env.created
    THEN [v EXCEPT !.enc = NewObject(@, env.inited, env.pointer),
                   !.exists = TRUE]
    ELSE [v EXCEPT !.enc = NewObject(@, FALSE, NULL), !.exists = FALSE]

SetupCodec(v) ==
    [size |-> v.frame, layers |-> v.config.layers, fps |-> v.config.fps,
     start |-> Clamp(v.start \div 1000, MinKbps, MaxKbps)]

\* The frame rate is not compared, the start bitrate only before the first
\* Encode call: a refused frame rate that is corrected resets nothing.
RequiresEncoderReset(old, new, encoded) ==
    \/ old.size # new.size
    \/ old.layers # new.layers
    \/ ~encoded /\ old.start # new.start

InstanceOf(codec, overused, refused) ==
    [kind |-> IF codec.fps = 0 THEN "invalid" ELSE "good", streams |-> 1,
     layers |-> codec.layers,
     start |-> RateParametersOf(Allocate(1000 * codec.start), codec.fps,
                                overused, refused)]

\* The result of a call is a local of the caller and is gone once read, like
\* the picture, which is on its way to the transport.
Read(e) == [e EXCEPT !.ret = "ok", !.out = NoOutput]

ResetEncoder(v, mode, env) ==
    LET u == ReleaseEncoder(v)
        e == InitEncode(u.enc, mode,
                        InstanceOf(v.codec, env.overused, env.refused), env.fail)
    IN  IF e.ret = "ok"
        THEN [u EXCEPT !.enc = RegisterEncodeCompleteCallback(e, TRUE),
                       !.initialized = TRUE, !.types = "key",
                       !.encoded = FALSE]
        ELSE ReleaseEncoder([u EXCEPT !.enc = Read(e), !.encoded = FALSE])

\* Mutant: the cached settings are not invalidated.
ReapplyRatesCached(v, mode, how) ==
    LET r == [v.rates EXCEPT !.fps = GetInputFramerateFps(v, how.known)]
    IN  IF v.allocator /\ v.rates # NoRates
        THEN SetEncoderRates(v, mode,
                             UpdateBitrateAllocation(v, r, how.utilization),
                             how.refused)
        ELSE v

\* The new allocator gets the current target; the cache is invalidated first,
\* so that the encoder hears of it.
ReapplyRates(v, mode, how) ==
    LET r == [v.rates EXCEPT !.fps = GetInputFramerateFps(v, how.known)]
    IN  IF v.allocator /\ v.rates # NoRates
        THEN SetEncoderRates([v EXCEPT !.rates = NoRates], mode,
                             UpdateBitrateAllocation(v, r, how.utilization),
                             how.refused)
        ELSE v

\* Mutant: a failed initialisation keeps the allocator.
ReconfigureKeepsAllocator(v, mode, env, how) ==
    LET w == IF v.creation THEN CreateEncoder(v, env) ELSE v
        codec == SetupCodec(w)
        reset == v.creation \/ RequiresEncoderReset(w.codec, codec, w.encoded)
        x == [w EXCEPT !.codec = codec, !.allocator = TRUE]
        y == IF reset THEN ResetEncoder(x, mode, env) ELSE x
    IN  IF ~w.exists THEN w
        ELSE ReapplyRates([y EXCEPT !.creation = FALSE,
                                    !.reconfiguration = FALSE], mode, how)

ReconfigureEncoder(v, mode, env, how) ==
    LET w == IF v.creation THEN CreateEncoder(v, env) ELSE v
        codec == SetupCodec(w)
        reset == v.creation \/ RequiresEncoderReset(w.codec, codec, w.encoded)
        x == [w EXCEPT !.codec = codec, !.allocator = TRUE]
        y == IF reset THEN ResetEncoder(x, mode, env) ELSE x
        z == [y EXCEPT !.allocator = y.initialized, !.creation = FALSE,
                       !.reconfiguration = FALSE]
    IN  IF ~w.exists THEN w     \* RequestEncoderSwitch; still pending
        ELSE ReapplyRates(z, mode, how)

-----------------------------------------------------------------------------
(***************************************************************************)
(* The tasks                                                               *)
(***************************************************************************)
ConfigureEncoder(v, mode, config, env, how) ==
    LET w == [v EXCEPT !.creation = ~v.exists \/ v.config.format # config.format,
                       !.config = config, !.configured = TRUE,
                       !.reconfiguration = TRUE]
    IN  IF v.frame = 0 THEN w ELSE ReconfigureEncoder(w, mode, env, how)

SetStartBitrate(v, bps) == [v EXCEPT !.start = bps]

\* pending_frame_ is never set, so a resume encodes nothing by itself.  The
\* frame rate is a constant.
OnBitrateUpdated(v, mode, target, link, overused, how) ==
    LET r == [target |-> target, link |-> link, bitrate |-> 0, fps |-> 30,
              overused |-> overused]
        w == SetEncoderRates(v, mode,
                             UpdateBitrateAllocation(v, r, how.utilization),
                             how.refused)
    IN  [w EXCEPT !.start = IF target = 0 THEN @ ELSE target,
                  !.signal = overused]

\* Mutant: a failed Encode call also uses up the requested frame type.
EncodeVideoFrameForgets(v, i420, answer) ==
    IF ~v.initialized \/ ~v.exists THEN v
    ELSE LET e == Encode(v.enc, i420, [i \in 1..MaxStreams |-> v.types], answer)
         IN  [v EXCEPT !.enc = Read(e), !.encoded = TRUE, !.types = "delta",
                       !.asked = @ /\ e.ret # "ok"]

\* The requested frame type survives an Encode call that fails.  encoder_failed_
\* is never set.
EncodeVideoFrame(v, i420, answer) ==
    IF ~v.initialized \/ ~v.exists THEN v
    ELSE LET e == Encode(v.enc, i420, [i \in 1..MaxStreams |-> v.types], answer)
         IN  [v EXCEPT !.enc = Read(e), !.encoded = TRUE,
                       !.types = IF e.ret = "ok" THEN "delta" ELSE @,
                       !.asked = @ /\ e.ret # "ok"]

\* A new size or a pending configuration reconfigures the encoder; otherwise
\* the rates are set again once kParameterUpdateIntervalMs have passed (due).
MaybeEncodeVideoFrame(v, mode, size, due, env, how, i420, answer) ==
    LET w == IF size # v.frame
             THEN [v EXCEPT !.reconfiguration = TRUE, !.frame = size] ELSE v
        r == [w.rates EXCEPT !.fps = GetInputFramerateFps(w, how.known)]
        x == IF w.reconfiguration THEN ReconfigureEncoder(w, mode, env, how)
             ELSE IF due /\ w.rates # NoRates
             THEN SetEncoderRates(w, mode,
                                  UpdateBitrateAllocation(w, r, how.utilization),
                                  how.refused)
             ELSE w
    IN  EncodeVideoFrame(x, i420, answer)

SendKeyFrame(v) ==
    IF v.exists THEN [v EXCEPT !.types = "key", !.asked = TRUE] ELSE v

Stop(v) ==
    [ReleaseEncoder([v EXCEPT !.allocator = FALSE]) EXCEPT
        !.enc = NewObject(@, FALSE, NULL), !.exists = FALSE, !.stopped = TRUE]

-----------------------------------------------------------------------------
(***************************************************************************)
(* Specification                                                           *)
(***************************************************************************)
VARIABLES
    codec_choose,   \* g_codec_choose, set by main before the call starts
    vs              \* the VideoStreamEncoder

vars == <<codec_choose, vs>>

Init ==
    /\ codec_choose \in CodecModes
    /\ \E config \in Configs : vs = Constructed(config)

\* What the environment can decide for a task that reconfigures or not, creates
\* an encoder or not and has a frame rate limit.  Choices nothing depends on are
\* made once: the memory of a new object only shows if InitEncode returns before
\* it overwrites it, which is when it refuses the limit and calls x264 never.
EnvironmentsFor(v, reconfigures, creates, fps) ==
    {env \in Environments :
        /\ reconfigures => v.enc.opened < MaxOpens
        /\ ~creates => env.created
        /\ ~creates \/ ~env.created \/ fps # 0 => ~env.inited /\ env.pointer = NULL
        /\ ~reconfigures \/ ~env.created \/ fps = 0 => env.fail.at = 0
        /\ ~reconfigures \/ ~env.created \/ fps = 0 \/ env.fail.at # 0 =>
                ~env.overused /\ ~env.refused}

\* What it can decide for a task that applies rates or does not.
RateChoicesFor(applies) ==
    {how \in RateChoices :
        \/ applies
        \/ /\ how.known /\ ~how.refused
           /\ \A u \in Utilizations : how.utilization <= u}

\* The cached rates are applied to an encoder that was created and initialised.
Reapplies(v, env) == v.rates # NoRates /\ env.created /\ env.fail.at = 0

ConfigureTask ==
    /\ vs.enc.alive /\ ~vs.stopped
    /\ \E config \in Configs :
        LET creates == ~vs.exists \/ vs.config.format # config.format
        IN  \E env \in EnvironmentsFor(vs, vs.frame # 0, creates /\ vs.frame # 0,
                                      config.fps) :
            \E how \in RateChoicesFor(vs.frame # 0 /\ Reapplies(vs, env)) :
                vs' = ConfigureEncoder(vs, codec_choose, config, env, how)
    /\ UNCHANGED codec_choose

\* Posted by the constructor of VideoSendStreamImpl, before the first
\* ConfigureEncoder.
StartBitrateTask ==
    /\ vs.enc.alive /\ ~vs.stopped /\ ~vs.configured
    /\ \E bps \in TargetBps : vs' = SetStartBitrate(vs, bps)
    /\ UNCHANGED codec_choose

BitrateTask ==
    /\ vs.enc.alive
    /\ \E target, link \in TargetBps, overused \in BOOLEAN :
        /\ link >= target
        /\ \E how \in RateChoicesFor(vs.allocator /\ target > 0) :
            /\ how.known        \* not asked
            /\ vs' = OnBitrateUpdated(vs, codec_choose, target, link, overused, how)
    /\ UNCHANGED codec_choose

\* A frame that is the only one in flight; the source is attached after the
\* first ConfigureEncoder.  Other frames are dropped without a trace here.
FrameTask ==
    /\ vs.enc.alive /\ ~vs.stopped /\ vs.configured
    /\ \E size \in Sizes, due \in BOOLEAN :
        LET reconfigures == vs.reconfiguration \/ size # vs.frame
        IN  /\ reconfigures => ~due
            /\ \E env \in EnvironmentsFor(vs, reconfigures,
                                          reconfigures /\ vs.creation,
                                          vs.config.fps) :
               \E how \in RateChoicesFor((reconfigures \/ due)
                                            /\ Reapplies(vs, env)),
                  i420 \in BOOLEAN, answer \in X264Answers :
                /\ ~i420 => answer.res = "skip"     \* x264 is not asked
                /\ ~answer.isKey                    \* the owner does not look
                /\ vs' = MaybeEncodeVideoFrame(vs, codec_choose, size, due, env,
                                               how, i420, answer)
    /\ UNCHANGED codec_choose

KeyFrameTask ==
    /\ vs.enc.alive
    /\ vs' = SendKeyFrame(vs)
    /\ UNCHANGED codec_choose

StopTask ==
    /\ vs.enc.alive /\ ~vs.stopped
    /\ vs' = Stop(vs)
    /\ UNCHANGED codec_choose

\* The process is gone.
Terminated == ~vs.enc.alive /\ UNCHANGED vars

Next ==
    \/ ConfigureTask
    \/ StartBitrateTask
    \/ BitrateTask
    \/ FrameTask
    \/ KeyFrameTask
    \/ StopTask
    \/ Terminated

Spec == Init /\ [][Next]_vars

-----------------------------------------------------------------------------
(***************************************************************************)
(* Properties                                                              *)
(***************************************************************************)
\* UpdateBitrateAllocation and SetEncoderRates test the allocator, not
\* encoder_initialized_: an encoder that exists has an allocator only while
\* it is initialised, so SetRates never reaches one whose InitEncode failed.
AllocatorOnlyWhenInitialized ==
    vs.exists /\ vs.allocator => vs.initialized

\* ReconfigureEncoder dereferences encoder_ unless it is about to create one:
\* whenever a configured stream has no encoder, its creation is still pending,
\* after a factory that failed and a change of configuration in between too.
MissingEncoderIsPending ==
    vs.configured /\ ~vs.exists /\ ~vs.stopped => vs.creation

\* The settings SetEncoderRates compares against are those the encoder was
\* given: a rate it will not send again has reached the encoder, whose layer is
\* sending, and is in force unless x264 refused it, across reconfigurations,
\* pauses and failed initialisations.  (SetRates drops settings with a frame
\* rate below 1, which the cache takes nevertheless.)
EncoderFollowsRates ==
    vs.exists /\ vs.initialized /\ Live(vs.enc)
        /\ vs.rates.bitrate > 0 /\ vs.rates.fps >= 1 =>
            /\ vs.enc.param.kbps = vs.rates.bitrate \div 1000
            /\ vs.enc.configurations[1].sending
            /\ ~vs.enc.refused => vs.enc.lib.kbps = vs.rates.bitrate \div 1000

\* A key frame request is not lost before an Encode call has taken it, though
\* the encoder may fail, be destroyed and be created anew in between.
KeyRequestKept == vs.asked => vs.types = "key"

\* The owner never lets Encode or SetRates run on an object without
\* configurations, which Release leaves with inited_ set.
NoUnconfiguredUse == "no_configuration" \notin vs.enc.misuse

\* Finding: in the adaptive mode the VBV buffer follows the overuse signal of
\* the last OnBitrateUpdated, if x264 takes what it is given.
OveruseSignalFollowed ==
    codec_choose = 4 /\ vs.exists /\ vs.initialized /\ Live(vs.enc)
        /\ vs.rates.bitrate > 0 /\ vs.rates.fps >= 1 /\ ~vs.enc.refused =>
            vs.enc.lib.vbv = VbvSize(vs.enc.lib.kbps, VbvPercent(4, vs.signal))

=============================================================================
