--------------------------- MODULE H264ObjectProofs ---------------------------
(***************************************************************************)
(* What every method of H264Object preserves, for every set of codec modes, *)
(* bitrates and temporal layers and any number of simulcast streams.        *)
(*                                                                         *)
(* The properties of the object are not inductive one by one: that no       *)
(* picture is discarded rests on the key frame request every sending layer  *)
(* of a live handle keeps, and that in turn on an uninitialised pointer     *)
(* never coming with configurations.  EncoderInv is their conjunction; each *)
(* method preserves it (one lemma per method), whoever calls it.            *)
(***************************************************************************)
EXTENDS H264Object, TLAPS

HoldsOneFrame(rc) == rc.kbps >= 125 => 30 * rc.vbv >= rc.kbps

\* The inductive invariant, on an object.
EncoderInv(e) ==
    /\ e \in Encoders
    /\ e.open \subseteq 1..e.opened
    /\ Live(e) => e.encoder \in e.open
    /\ e.encoder = Garbage => e.configurations = << >>
    /\ Live(e) /\ ~e.refused => e.lib = e.param
    /\ Live(e) => HoldsOneFrame(e.lib)
    /\ Live(e) => \A i \in DOMAIN e.configurations :
                    e.configurations[i].sending => e.configurations[i].keyReq
    /\ ~e.out.discarded

\* Rates in general: the owner splits and limits what it is asked for.
AnyRates ==
    [layer0: Nat, others: Nat, fps: Nat, overused: BOOLEAN, refused: BOOLEAN]

AnyInstances ==
    [kind: {"invalid", "bad_simulcast", "good"}, streams: 1..MaxStreams,
     layers: TemporalLayers, start: AnyRates]

\* What a caller of the interface asks for are rates.
LEMMA ParametersAreRates ==
    RateParameters \subseteq AnyRates /\ Instances \subseteq AnyInstances
<1>1. TargetBps \subseteq Nat /\ {0, 30} \subseteq Nat
  BY TargetAssumption
<1>2. RateParameters \subseteq AnyRates
  BY <1>1 DEF RateParameters, AnyRates
<1> QED
  BY <1>2 DEF Instances, AnyInstances

-----------------------------------------------------------------------------
\* SetStreamState yields a configuration, and one that sends has a request if
\* it had one or did not send before.
LEMMA SetStreamStateType ==
    ASSUME NEW cfg \in LayerConfigs, NEW send \in BOOLEAN
    PROVE  /\ SetStreamState(cfg, send) \in LayerConfigs
           /\ SetStreamState(cfg, send).sending = send
           /\ (cfg.sending => cfg.keyReq) =>
                (SetStreamState(cfg, send).sending =>
                    SetStreamState(cfg, send).keyReq)
BY DEF SetStreamState, LayerConfigs

\* Replacing the first configuration keeps the rest.
LEMMA FirstConfiguration ==
    ASSUME NEW s \in Seq(LayerConfigs), s # << >>, NEW c \in LayerConfigs
    PROVE  /\ [s EXCEPT ![1] = c] \in Seq(LayerConfigs)
           /\ 1 \in DOMAIN s
           /\ s[1] \in LayerConfigs
           /\ [s EXCEPT ![1] = c][1] = c
           /\ DOMAIN [s EXCEPT ![1] = c] = DOMAIN s
           /\ \A i \in DOMAIN s : i # 1 => [s EXCEPT ![1] = c][i] = s[i]
<1>1. Len(s) \in Nat /\ Len(s) > 0 /\ DOMAIN s = 1..Len(s)
  OBVIOUS
<1>2. \A i \in 1..Len(s) : s[i] \in LayerConfigs
  OBVIOUS
<1>3. [s EXCEPT ![1] = c] \in [1..Len(s) -> LayerConfigs]
  BY <1>1, <1>2
<1> QED
  BY <1>1, <1>2, <1>3

\* A function on 1..n is a sequence of length n.
LEMMA FunctionIsSequence ==
    ASSUME NEW n \in Nat, NEW f \in [1..n -> LayerConfigs]
    PROVE  f \in Seq(LayerConfigs) /\ Len(f) = n /\ DOMAIN f = 1..n
OBVIOUS

\* A buffer is a number of kbit.
LEMMA VbvSizeType ==
    ASSUME NEW k \in Nat, NEW p \in {4, 50}
    PROVE  VbvSize(k, p) \in Nat
<1>1. k * p \in Nat
  OBVIOUS
<1> QED
  BY <1>1 DEF VbvSize

\* From 125 kbit/s on, 4 % of a second, rounded down to kbit, is a 30th of it.
LEMMA VbvSizeHoldsOneFrame ==
    ASSUME NEW k \in Nat, k >= 125, NEW p \in {4, 50}
    PROVE  30 * VbvSize(k, p) >= k
<1>1. CASE p = 4
  <2> DEFINE q == (k * 4) \div 100
  <2>1. q \in Nat /\ k * 4 < 100 * q + 100
    OBVIOUS
  <2> HIDE DEF q
  <2>2. q >= 5
    BY <2>1
  <2>3. 30 * q >= k
    BY <2>1, <2>2
  <2> QED
    BY <1>1, <2>3 DEF VbvSize, q
<1>2. CASE p = 50
  <2> DEFINE q == (k * 50) \div 100
  <2>1. q \in Nat /\ k * 50 < 100 * q + 100
    OBVIOUS
  <2> HIDE DEF q
  <2>2. 30 * q >= k
    BY <2>1
  <2> QED
    BY <1>2, <2>2 DEF VbvSize, q
<1> QED
  BY <1>1, <1>2

-----------------------------------------------------------------------------
\* A constructed object has the invariant, whatever its memory held.
LEMMA ConstructedInv ==
    ASSUME NEW inited \in BOOLEAN, NEW h \in {NULL, Garbage}
    PROVE  EncoderInv(ConstructedEncoder(inited, h))
<1>1. << >> \in Seq(LayerConfigs) /\ h \in Int /\ NoOutput \in Outputs
      /\ NoRateControl \in RateControls
  BY DEF NULL, Garbage, NoOutput, Outputs, NoRateControl, RateControls
<1>2. ConstructedEncoder(inited, h) \in Encoders
  BY <1>1 DEF ConstructedEncoder, Encoders, Returns
<1> QED
  BY <1>1, <1>2 DEF EncoderInv, ConstructedEncoder, Live, NoOutput

\* The type of an object without handle or configurations.
LEMMA ReleasedType ==
    ASSUME NEW e \in Encoders, NEW cs \in Seq(LayerConfigs), NEW h \in Int
    PROVE  [e EXCEPT !.encoder = h, !.configurations = cs, !.ret = "ok"]
                \in Encoders
BY DEF Encoders, Returns

\* Release forgets the handle without closing it; it stays open.
LEMMA ReleaseInv ==
    ASSUME NEW e, EncoderInv(e)
    PROVE  /\ EncoderInv(Release(e))
           /\ Release(e).encoder = NULL
<1>1. << >> \in Seq(LayerConfigs) /\ e \in Encoders
  BY DEF EncoderInv
<1>2. 0 \in Int
  OBVIOUS
<1>3. Release(e) \in Encoders
  BY <1>1, <1>2, ReleasedType DEF Release, NULL
<1>4. /\ Release(e).encoder = NULL
      /\ Release(e).configurations = << >>
      /\ Release(e).open = e.open
      /\ Release(e).opened = e.opened
      /\ Release(e).out = e.out
  BY <1>1 DEF Release, Encoders
<1> QED
  BY <1>3, <1>4 DEF EncoderInv, Live

\* The callback is in no part of the invariant.
LEMMA RegisterInv ==
    ASSUME NEW e, EncoderInv(e), NEW cb \in BOOLEAN
    PROVE  EncoderInv(RegisterEncodeCompleteCallback(e, cb))
BY DEF EncoderInv, RegisterEncodeCompleteCallback, Encoders, Live, Returns

\* Nor is the end of the process.
LEMMA CrashInv ==
    ASSUME NEW e, EncoderInv(e), NEW how \in Misuses
    PROVE  EncoderInv(Crash(e, how))
BY DEF EncoderInv, Crash, Encoders, Live, Returns

\* Reading a configuration that is not there changes no member.
LEMMA NoConfigurationInv ==
    ASSUME NEW e, EncoderInv(e)
    PROVE  EncoderInv(NoConfiguration(e))
<1> DEFINE ms == e.misuse \cup {"no_configuration"}
<1>1. EncoderInv(Crash(e, "no_configuration"))
  BY CrashInv DEF Misuses
<1>2. ms \in SUBSET Misuses
  BY DEF EncoderInv, Encoders, Misuses
<1>3. EncoderInv([e EXCEPT !.misuse = ms])
  <2> HIDE DEF ms
  <2> QED
    BY <1>2 DEF EncoderInv, Encoders, Live
<1>4. [e EXCEPT !.misuse = ms] = [e EXCEPT !.misuse = @ \cup {"no_configuration"}]
  BY DEF EncoderInv, Encoders
<1> QED
  BY <1>1, <1>3, <1>4 DEF NoConfiguration

\* Encode on an object without configurations.
LEMMA EncodeUnconfiguredInv ==
    ASSUME NEW e, EncoderInv(e), NEW answer \in X264Answers
    PROVE  EncoderInv(EncodeUnconfigured(e, answer))
<1> DEFINE f == NoConfiguration(e)
<1>1. EncoderInv(f) /\ EncoderInv(Crash(e, "no_configuration"))
  BY NoConfigurationInv, CrashInv DEF Misuses
<1>2. NoOutput \in Outputs /\ ~NoOutput.discarded
  BY DEF Outputs, NoOutput
<1>3. EncodeUnconfigured(e, answer) \in
        {[f EXCEPT !.pic = "frame", !.ret = "ok", !.out = NoOutput],
         Crash(e, "no_configuration")}
  BY DEF EncodeUnconfigured
<1> HIDE DEF f
<1>4. EncoderInv([f EXCEPT !.pic = "frame", !.ret = "ok", !.out = NoOutput])
  BY <1>1, <1>2 DEF EncoderInv, Encoders, Live, Returns
<1> QED
  BY <1>1, <1>3, <1>4

-----------------------------------------------------------------------------
\* New configurations in which a request accompanies every sending layer keep
\* the invariant of an object whose pointer is not garbage.
LEMMA ConfigurationsInv ==
    ASSUME NEW e, EncoderInv(e), e.encoder # Garbage,
           NEW cs \in Seq(LayerConfigs),
           \A i \in DOMAIN cs : cs[i].sending => cs[i].keyReq
    PROVE  EncoderInv([e EXCEPT !.configurations = cs])
<1> DEFINE f == [e EXCEPT !.configurations = cs]
<1>1. e \in Encoders
  BY DEF EncoderInv
<1>2. f \in Encoders
  BY <1>1 DEF Encoders
<1>3. /\ f.configurations = cs
      /\ f.encoder = e.encoder /\ f.open = e.open /\ f.opened = e.opened
      /\ f.out = e.out /\ f.lib = e.lib /\ f.param = e.param
      /\ f.refused = e.refused
  BY <1>1 DEF Encoders
<1> HIDE DEF f
<1>4. EncoderInv(f)
  BY <1>2, <1>3 DEF EncoderInv, Live
<1> QED
  BY <1>4 DEF f

\* Pausing every layer, as a zero target does.
LEMMA PauseInv ==
    ASSUME NEW e, EncoderInv(e), e.encoder # NULL
    PROVE  EncoderInv([e EXCEPT !.configurations =
                [i \in DOMAIN @ |-> SetStreamState(@[i], FALSE)]])
<1> DEFINE s == e.configurations
           cs == [i \in DOMAIN s |-> SetStreamState(s[i], FALSE)]
<1>1. s \in Seq(LayerConfigs)
  BY DEF EncoderInv, Encoders
<1>2. Len(s) \in Nat /\ DOMAIN s = 1..Len(s) /\ \A i \in 1..Len(s) : s[i] \in LayerConfigs
  BY <1>1
<1>3. \A i \in 1..Len(s) : cs[i] \in LayerConfigs /\ ~cs[i].sending
  BY <1>2, SetStreamStateType
<1>4. cs \in Seq(LayerConfigs)
  <2>1. cs \in [1..Len(s) -> LayerConfigs]
    BY <1>2, <1>3
  <2> HIDE DEF cs
  <2> QED
    BY <1>2, <2>1, FunctionIsSequence
<1>5. CASE e.encoder # Garbage
  BY <1>2, <1>3, <1>4, <1>5, ConfigurationsInv
<1>6. CASE e.encoder = Garbage
  <2>1. s = << >>
    BY <1>6 DEF EncoderInv
  <2>2. cs = << >>
    BY <2>1
  <2>3. [e EXCEPT !.configurations = << >>] = e
    BY <2>1 DEF EncoderInv, Encoders
  <2> QED
    BY <2>2, <2>3
<1> QED
  BY <1>5, <1>6

\* Giving the first layer of a configured handle a new stream state.
LEMMA FirstStreamStateInv ==
    ASSUME NEW e, EncoderInv(e), e.configurations # << >>, e.encoder # NULL,
           NEW send \in BOOLEAN
    PROVE  /\ Live(e)
           /\ EncoderInv([e EXCEPT !.configurations[1] = SetStreamState(@, send)])
<1> DEFINE s == e.configurations
           c == SetStreamState(s[1], send)
           cs == [s EXCEPT ![1] = c]
<1>1. s \in Seq(LayerConfigs) /\ e.encoder # Garbage /\ Live(e)
  BY DEF EncoderInv, Encoders, Live
<1>2. 1 \in DOMAIN s /\ s[1] \in LayerConfigs
  BY <1>1
<1>3. /\ c \in LayerConfigs
      /\ (s[1].sending => s[1].keyReq) => (c.sending => c.keyReq)
  BY <1>2, SetStreamStateType
<1>4. \A i \in DOMAIN s : s[i].sending => s[i].keyReq
  BY <1>1 DEF EncoderInv
<1>5. cs \in Seq(LayerConfigs) /\ \A i \in DOMAIN cs : cs[i].sending => cs[i].keyReq
  <2> HIDE DEF c
  <2> QED
    BY <1>1, <1>2, <1>3, <1>4, FirstConfiguration
<1>6. EncoderInv([e EXCEPT !.configurations = cs])
  BY <1>1, <1>5, ConfigurationsInv
<1> QED
  BY <1>1, <1>6

\* The type of an object with a new rate control.
LEMMA RateControlType ==
    ASSUME NEW e \in Encoders, NEW p \in RateControls, NEW l \in RateControls,
           NEW no \in BOOLEAN
    PROVE  [e EXCEPT !.param = p, !.lib = l, !.refused = no] \in Encoders
BY DEF Encoders

\* A rate reaches the object and, unless x264 refuses it, the handle, with a
\* buffer that holds a frame, and the layer that starts to send is given a key
\* frame request.
LEMMA ReconfigureInv ==
    ASSUME NEW e, EncoderInv(e), e.configurations # << >>, e.encoder # NULL,
           NEW mode \in CodecModes, NEW r \in AnyRates
    PROVE  EncoderInv(Reconfigure(e, mode, r))
<1> DEFINE kbps == r.layer0 \div 1000
           vbv == VbvSize(kbps, VbvPercent(mode, r.overused))
           rc == [e.param EXCEPT !.kbps = kbps, !.vbv = vbv]
           f == [e EXCEPT !.configurations[1] = SetStreamState(@, TRUE)]
           lib == IF r.refused THEN e.lib ELSE rc
           no == r.refused
           g == [f EXCEPT !.param = rc, !.lib = lib, !.refused = no]
<1>1. kbps \in Nat
  <2>1. r.layer0 \in Nat
    BY DEF AnyRates
  <2> QED
    BY <2>1
<1>2. vbv \in Nat
  <2>1. VbvPercent(mode, r.overused) \in {4, 50}
    BY DEF VbvPercent
  <2> HIDE DEF kbps
  <2> QED
    BY <1>1, <2>1, VbvSizeType
<1>3. rc \in RateControls /\ rc.kbps = kbps /\ rc.vbv = vbv
  <2> HIDE DEF kbps, vbv
  <2> QED
    BY <1>1, <1>2 DEF EncoderInv, Encoders, RateControls
<1>7. HoldsOneFrame(rc)
  <2>1. VbvPercent(mode, r.overused) \in {4, 50}
    BY DEF VbvPercent
  <2>2. kbps >= 125 => 30 * vbv >= kbps
    <3> HIDE DEF kbps
    <3> QED
      BY <1>1, <2>1, VbvSizeHoldsOneFrame
  <2> HIDE DEF rc, kbps, vbv
  <2> QED
    BY <1>3, <2>2 DEF HoldsOneFrame
<1>4. EncoderInv(f) /\ Live(f) /\ f.lib = e.lib
  BY FirstStreamStateInv DEF Live, EncoderInv, Encoders
<1>8. lib \in RateControls /\ HoldsOneFrame(lib) /\ (~no => lib = rc)
  <2>1. e.lib \in RateControls /\ HoldsOneFrame(e.lib)
    BY FirstStreamStateInv DEF EncoderInv, Encoders
  <2>2. no \in BOOLEAN
    BY DEF AnyRates
  <2>3. lib = IF no THEN e.lib ELSE rc
    OBVIOUS
  <2> HIDE DEF rc, lib, no
  <2> QED
    BY <1>3, <1>7, <2>1, <2>2, <2>3
<1>9. no \in BOOLEAN
  BY DEF AnyRates
<1>5. EncoderInv(g)
  <2> HIDE DEF rc, f, lib, no
  <2>1. f \in Encoders
    BY <1>4 DEF EncoderInv
  <2>2. g \in Encoders
    <3>1. rc \in RateControls /\ lib \in RateControls /\ no \in BOOLEAN
      BY <1>3, <1>8, <1>9
    <3>2. [f EXCEPT !.param = rc, !.lib = lib, !.refused = no] \in Encoders
      BY <2>1, <3>1, RateControlType, Zenon
    <3> QED
      BY <3>2
  <2>3. /\ g.lib = lib /\ g.param = rc /\ g.refused = no
        /\ g.encoder = f.encoder /\ g.open = f.open
        /\ g.opened = f.opened /\ g.configurations = f.configurations
        /\ g.out = f.out
    BY <2>1 DEF Encoders
  <2> HIDE DEF g
  <2> QED
    BY <1>4, <1>8, <2>2, <2>3 DEF EncoderInv, Live
<1>6. Reconfigure(e, mode, r) = g
  <2> HIDE DEF vbv
  <2>1. Reconfigure(e, mode, r) =
          [e EXCEPT !.configurations[1] = SetStreamState(@, TRUE),
                    !.param = rc, !.lib = lib, !.refused = r.refused]
    BY DEF Reconfigure, vbv
  <2> QED
    BY <2>1 DEF EncoderInv, Encoders
<1> QED
  BY <1>5, <1>6

\* Every branch of SetRates: no handle, a pause, a rate, no configuration.
LEMMA SetRatesInv ==
    ASSUME NEW e, EncoderInv(e),
           NEW mode \in CodecModes, NEW r \in AnyRates
    PROVE  EncoderInv(SetRates(e, mode, r))
<1>1. r.layer0 \in Nat /\ r.others \in Nat /\ r.fps \in Nat
  BY DEF AnyRates
<1>2. CASE e.encoder = NULL \/ r.fps < 1
  BY <1>1, <1>2 DEF SetRates
<1>3. CASE e.encoder # NULL /\ r.fps >= 1 /\ r.layer0 + r.others = 0
  <2>1. SetRates(e, mode, r) =
            [e EXCEPT !.configurations =
                [i \in DOMAIN @ |-> SetStreamState(@[i], FALSE)]]
    BY <1>1, <1>3 DEF SetRates
  <2> QED
    BY <1>3, <2>1, PauseInv
<1>4. CASE e.encoder # NULL /\ r.fps >= 1 /\ r.layer0 + r.others > 0
  <2>1. SetRates(e, mode, r) =
            IF e.configurations = << >> THEN
                IF r.layer0 > 0 THEN Crash(e, "no_configuration")
                ELSE NoConfiguration(e)
            ELSE IF r.layer0 > 0 THEN Reconfigure(e, mode, r)
            ELSE [e EXCEPT !.configurations[1] = SetStreamState(@, FALSE)]
    BY <1>1, <1>4 DEF SetRates
  <2>2. /\ EncoderInv(Crash(e, "no_configuration"))
        /\ EncoderInv(NoConfiguration(e))
    BY CrashInv, NoConfigurationInv DEF Misuses
  <2> QED
    BY <1>4, <2>1, <2>2, ReconfigureInv, FirstStreamStateInv
<1> QED
  BY <1>1, <1>2, <1>3, <1>4

-----------------------------------------------------------------------------
\* InitEncode's own rate control has a buffer that holds a frame.
LEMMA InitRateControlType ==
    ASSUME NEW mode \in CodecModes
    PROVE  InitRateControl(mode) \in RateControls /\ HoldsOneFrame(InitRateControl(mode))
<1>1. VbvSize(3000, 4) \in Nat /\ VbvSize(3000, 50) \in Nat
  BY VbvSizeType
<1> QED
  BY <1>1, VbvSizeHoldsOneFrame DEF InitRateControl, RateControls, HoldsOneFrame

\* The configurations InitEncode has sized and filled up to the k-th.
LEMMA SizedType ==
    ASSUME NEW inst \in AnyInstances, NEW k \in Nat
    PROVE  [i \in 1..inst.streams |->
                IF i <= k THEN InitLayerConfig(inst.layers)
                ELSE DefaultLayerConfig] \in Seq(LayerConfigs)
<1> DEFINE cs == [i \in 1..inst.streams |->
                IF i <= k THEN InitLayerConfig(inst.layers)
                ELSE DefaultLayerConfig]
<1>1. inst.streams \in Nat /\ inst.layers \in 0..3
  <2>1. inst.streams \in 1..MaxStreams /\ inst.layers \in TemporalLayers
    BY DEF AnyInstances
  <2>2. inst.streams \in Nat
    BY <2>1, StreamsAssumption
  <2>3. inst.layers \in 0..3
    BY <2>1, LayersAssumption
  <2> QED
    BY <2>2, <2>3
<1>2. /\ InitLayerConfig(inst.layers) \in LayerConfigs
      /\ DefaultLayerConfig \in LayerConfigs
  BY <1>1 DEF InitLayerConfig, DefaultLayerConfig, LayerConfigs, Patterns
<1>3. cs \in [1..inst.streams -> LayerConfigs]
  BY <1>2
<1> HIDE DEF cs
<1>4. cs \in Seq(LayerConfigs)
  BY <1>1, <1>3, FunctionIsSequence
<1> QED
  BY <1>4 DEF cs

\* Opening k streams: the last handle is the live one, and no layer sends.
LEMMA OpenStreamsInv ==
    ASSUME NEW e, EncoderInv(e), e.encoder = NULL,
           NEW mode \in CodecModes, NEW inst \in AnyInstances,
           NEW k \in 0..inst.streams
    PROVE  /\ OpenStreams(e, mode, inst, k) \in Encoders
           /\ OpenStreams(e, mode, inst, k).encoder # Garbage
           /\ EncoderInv([OpenStreams(e, mode, inst, k) EXCEPT !.encoder = NULL])
           /\ k = inst.streams => EncoderInv(OpenStreams(e, mode, inst, k))
<1> DEFINE cs == [i \in 1..inst.streams |->
                IF i <= k THEN InitLayerConfig(inst.layers)
                ELSE DefaultLayerConfig]
           rc == InitRateControl(mode)
           f == OpenStreams(e, mode, inst, k)
           g == [f EXCEPT !.encoder = NULL]
<1>1. inst.streams \in Nat \ {0} /\ k \in Nat /\ e \in Encoders
  BY StreamsAssumption DEF AnyInstances, EncoderInv
<1>2. cs \in Seq(LayerConfigs) /\ rc \in RateControls /\ HoldsOneFrame(rc)
  BY <1>1, SizedType, InitRateControlType
<1>3. CASE k = 0
  <2>1. f = [e EXCEPT !.configurations = cs]
    BY <1>3 DEF OpenStreams
  <2> HIDE DEF cs, f
  <2>2. f \in Encoders /\ f.encoder = NULL /\ f.open = e.open
        /\ f.opened = e.opened /\ f.out = e.out
    BY <1>1, <1>2, <2>1 DEF Encoders
  <2>3. g = f
    BY <2>2 DEF Encoders
  <2>4. EncoderInv(f)
    BY <2>2 DEF EncoderInv, Live, NULL, Garbage
  <2> QED
    BY <2>2, <2>3, <2>4 DEF NULL, Garbage, f
<1>4. CASE k > 0
  <2> DEFINE os == e.open \cup (e.opened + 1)..(e.opened + k)
  <2>1. f = [e EXCEPT !.configurations = cs,
                      !.inited = TRUE, !.encoder = e.opened + k,
                      !.opened = e.opened + k, !.open = os,
                      !.alloc = e.alloc + k, !.pic = "alloc",
                      !.param = rc, !.lib = rc, !.fresh = TRUE,
                      !.refused = FALSE]
    BY <1>1, <1>4 DEF OpenStreams, Encoders
  <2>2. /\ e.opened \in Nat /\ e.opened + k \in Nat /\ e.opened + k \in Int
        /\ e.alloc + k \in Nat /\ os \in SUBSET Nat
        /\ e.opened + k > 0 /\ e.opened + k \in os
        /\ os \subseteq 1..(e.opened + k)
    <3>1. e.opened \in Nat /\ e.alloc \in Nat /\ e.open \in SUBSET Nat
      BY <1>1 DEF Encoders
    <3>2. e.open \subseteq 1..e.opened
      BY DEF EncoderInv
    <3> QED
      BY <1>1, <1>4, <3>1, <3>2
  <2> HIDE DEF cs, f, rc, os
  <2>3. f \in Encoders
    BY <1>1, <1>2, <2>1, <2>2 DEF Encoders
  <2>4. /\ f.configurations = cs /\ f.encoder = e.opened + k
        /\ f.opened = e.opened + k /\ f.open = os /\ f.param = rc
        /\ f.lib = rc /\ f.refused = FALSE /\ f.out = e.out
    BY <1>1, <2>1 DEF Encoders
  <2>5. /\ g \in Encoders /\ g.encoder = NULL /\ g.opened = f.opened
        /\ g.open = f.open /\ g.out = f.out
    BY <2>3 DEF Encoders, NULL
  <2>6. EncoderInv(g)
    <3> HIDE DEF g
    <3> QED
      BY <2>2, <2>4, <2>5 DEF EncoderInv, Live, NULL, Garbage
  <2>7. k = inst.streams => \A i \in DOMAIN cs : ~cs[i].sending
    BY <1>1 DEF cs, InitLayerConfig
  <2>8. f.encoder # Garbage
    BY <2>2, <2>4 DEF Garbage
  <2>9. k = inst.streams => EncoderInv(f)
    BY <1>2, <2>2, <2>3, <2>4, <2>7, <2>8 DEF EncoderInv
  <2> QED
    BY <2>3, <2>6, <2>8, <2>9 DEF f
<1> QED
  BY <1>1, <1>3, <1>4

\* The type of an object whose handle was closed.
LEMMA ClosedType ==
    ASSUME NEW e \in Encoders, NEW os \in SUBSET Nat, NEW h \in Int
    PROVE  [e EXCEPT !.open = os, !.encoder = h, !.ret = "error"] \in Encoders
BY DEF Encoders, Returns

\* The returned value is in no part of the invariant.
LEMMA ReturnInv ==
    ASSUME NEW e, EncoderInv(e), NEW ret \in Returns
    PROVE  EncoderInv([e EXCEPT !.ret = ret])
BY DEF EncoderInv, Encoders, Live

\* The error paths of the loop.
LEMMA FailInitInv ==
    ASSUME NEW e, e.encoder # Garbage,
           EncoderInv([e EXCEPT !.encoder = NULL]), e \in Encoders,
           NEW in \in {"open", "setup"}
    PROVE  EncoderInv(FailInit(e, in))
<1> DEFINE g == [e EXCEPT !.encoder = NULL]
<1>1. EncoderInv(Crash(g, "null_close"))
  BY CrashInv DEF Misuses
<1>2. CASE in = "open"
  BY <1>1, <1>2 DEF FailInit
<1>3. CASE in = "setup" /\ e.encoder = NULL
  <2>1. g = e
    BY <1>3 DEF Encoders
  <2>2. FailInit(e, in) = Crash(e, "null_close")
    BY <1>3 DEF FailInit
  <2> QED
    BY <1>1, <2>1, <2>2
<1>4. CASE in = "setup" /\ e.encoder # NULL
  <2> DEFINE os == e.open \ {e.encoder}
             f == [e EXCEPT !.open = os, !.encoder = NULL, !.ret = "error"]
  <2>1. FailInit(e, in) = f
    BY <1>4 DEF FailInit
  <2>2. /\ e.open \subseteq 1..e.opened /\ ~e.out.discarded
    BY DEF EncoderInv, Encoders
  <2>3. os \in SUBSET Nat /\ os \subseteq 1..e.opened
    BY <2>2 DEF Encoders
  <2> HIDE DEF os
  <2>4. f \in Encoders
    <3>1. NULL \in Int /\ os \in SUBSET Nat
      BY <2>3 DEF NULL
    <3> QED
      BY <3>1, ClosedType
  <2>5. /\ f.open = os /\ f.encoder = NULL
        /\ f.opened = e.opened /\ f.out = e.out
    BY DEF Encoders
  <2> HIDE DEF f
  <2> QED
    BY <2>1, <2>2, <2>3, <2>4, <2>5 DEF EncoderInv, Live, NULL, Garbage
<1> QED
  BY <1>2, <1>3, <1>4

\* InitEncode, refused, failing in any iteration of the loop or successful.
LEMMA InitEncodeInv ==
    ASSUME NEW e, EncoderInv(e), NEW mode \in CodecModes,
           NEW inst \in AnyInstances, NEW fail \in InitFailures
    PROVE  EncoderInv(InitEncode(e, mode, inst, fail))
<1> DEFINE r == Release(e)
<1>1. EncoderInv(r) /\ r.encoder = NULL
  BY ReleaseInv
<1>2. inst.kind \in {"invalid", "bad_simulcast", "good"} /\ inst.streams \in 1..MaxStreams
      /\ inst.start \in AnyRates
      /\ fail.at \in Nat /\ fail.in \in {"open", "setup"}
  BY StreamsAssumption DEF AnyInstances, InitFailures
<1> HIDE DEF r
<1>4. CASE inst.kind = "invalid"
  <2>1. InitEncode(e, mode, inst, fail) = [e EXCEPT !.ret = "parameter"]
    BY <1>4 DEF InitEncode
  <2> QED
    BY <2>1, ReturnInv DEF Returns
<1>5. CASE inst.kind = "bad_simulcast" /\ inst.streams > 1
  <2>1. InitEncode(e, mode, inst, fail) = [r EXCEPT !.ret = "simulcast"]
    BY <1>5 DEF InitEncode, r
  <2> QED
    BY <1>1, <2>1, ReturnInv DEF Returns
<1>6. CASE inst.kind # "invalid" /\ ~(inst.kind = "bad_simulcast" /\ inst.streams > 1)
  <2>1. InitEncode(e, mode, inst, fail) =
            IF fail.at \in 1..inst.streams
            THEN FailInit(OpenStreams(r, mode, inst, fail.at - 1), fail.in)
            ELSE SetRates(OpenStreams(r, mode, inst, inst.streams),
                          mode, inst.start)
    BY <1>6 DEF InitEncode, r
  <2>2. CASE fail.at \in 1..inst.streams
    <3> DEFINE k == fail.at - 1
               f == OpenStreams(r, mode, inst, k)
    <3>1. k \in 0..inst.streams
      BY <1>2, <2>2, StreamsAssumption
    <3>2. /\ f.encoder # Garbage /\ f \in Encoders
          /\ EncoderInv([f EXCEPT !.encoder = NULL])
      BY <1>1, <3>1, OpenStreamsInv
    <3> HIDE DEF f
    <3>3. EncoderInv(FailInit(f, fail.in))
      BY <1>2, <3>2, FailInitInv
    <3> QED
      BY <2>1, <2>2, <3>3 DEF f
  <2>3. CASE fail.at \notin 1..inst.streams
    <3>1. inst.streams \in 0..inst.streams
      BY <1>2, StreamsAssumption
    <3>2. EncoderInv(OpenStreams(r, mode, inst, inst.streams))
      BY <1>1, <3>1, OpenStreamsInv
    <3> QED
      BY <1>2, <2>1, <2>3, <3>2, SetRatesInv
  <2> QED
    BY <2>2, <2>3
<1> QED
  BY <1>2, <1>4, <1>5, <1>6

-----------------------------------------------------------------------------
\* A restart makes the next frame a base layer frame.
LEMMA RestartIsBaseLayer ==
    ASSUME NEW last, NEW layers
    PROVE  /\ NextFrameConfig(last, layers, TRUE) = "key"
           /\ TemporalId(NextFrameConfig(last, layers, TRUE)) = 0
BY DEF NextFrameConfig, NextPattern, TemporalId

\* What a method may do to the pattern of the first layer and to the output.
LEMMA OutputInv ==
    ASSUME NEW e, EncoderInv(e), NEW cs \in Seq(LayerConfigs),
           DOMAIN cs = DOMAIN e.configurations,
           e.encoder = Garbage => cs = << >>,
           \A i \in DOMAIN cs : /\ cs[i].sending = e.configurations[i].sending
                                 /\ cs[i].keyReq = e.configurations[i].keyReq,
           NEW fresh \in BOOLEAN, NEW out \in Outputs, ~out.discarded
    PROVE  EncoderInv([e EXCEPT !.configurations = cs, !.pic = "frame",
                                !.fresh = fresh, !.ret = "ok", !.out = out])
<1> DEFINE f == [e EXCEPT !.configurations = cs, !.pic = "frame",
                                !.fresh = fresh, !.ret = "ok", !.out = out]
<1>1. e \in Encoders
  BY DEF EncoderInv
<1>2. f \in Encoders
  BY <1>1 DEF Encoders, Returns
<1>3. /\ f.configurations = cs /\ f.out = out /\ f.encoder = e.encoder
      /\ f.open = e.open /\ f.opened = e.opened /\ f.lib = e.lib
      /\ f.param = e.param /\ f.refused = e.refused
  BY <1>1 DEF Encoders
<1> HIDE DEF f
<1>4. EncoderInv(f)
  BY <1>2, <1>3 DEF EncoderInv, Live
<1> QED
  BY <1>4 DEF f

\* A picture made with a key frame request is of the base layer: delivered.
LEMMA DeliverInv ==
    ASSUME NEW e, EncoderInv(e), e.configurations # << >>, e.encoder # NULL,
           NEW asked \in BOOLEAN, NEW isKey \in BOOLEAN
    PROVE  EncoderInv(Deliver(e, TRUE, asked, isKey))
<1> DEFINE s == e.configurations
           out == [sent |-> TRUE, idr |-> TRUE, isKey |-> isKey,
                   asked |-> asked, discarded |-> FALSE]
           c == [s[1] EXCEPT !.pattern = "key"]
           cs == [s EXCEPT ![1] = c]
<1>1. /\ s \in Seq(LayerConfigs) /\ s[1] \in LayerConfigs /\ 1 \in DOMAIN s
      /\ e.encoder # Garbage /\ e \in Encoders
  BY FirstConfiguration DEF EncoderInv, Encoders
<1>2. c \in LayerConfigs /\ c.sending = s[1].sending /\ c.keyReq = s[1].keyReq
  BY <1>1 DEF LayerConfigs, Patterns
<1>3. out \in Outputs /\ ~out.discarded
  BY DEF Outputs
<1>4. Deliver(e, TRUE, asked, isKey) =
        [e EXCEPT !.configurations = cs, !.pic = "frame",
                  !.fresh = FALSE, !.ret = "ok", !.out = out]
  <2>1. /\ NextFrameConfig(s[1].pattern, s[1].layers, TRUE) = "key"
        /\ TemporalId("key") = 0
    BY RestartIsBaseLayer DEF TemporalId
  <2> QED
    BY <2>1 DEF Deliver
<1>5. /\ cs \in Seq(LayerConfigs) /\ DOMAIN cs = DOMAIN s
      /\ \A i \in DOMAIN cs : /\ cs[i].sending = s[i].sending
                               /\ cs[i].keyReq = s[i].keyReq
  <2> HIDE DEF c
  <2> QED
    BY <1>1, <1>2, FirstConfiguration
<1> HIDE DEF cs, out
<1>6. FALSE \in BOOLEAN /\ (e.encoder = Garbage => cs = << >>)
  BY <1>1
<1>7. EncoderInv([e EXCEPT !.configurations = cs, !.pic = "frame",
                  !.fresh = FALSE, !.ret = "ok", !.out = out])
  BY <1>3, <1>5, <1>6, OutputInv
<1> QED
  BY <1>4, <1>7

\* A frame x264 made no picture of.
LEMMA SkipPictureInv ==
    ASSUME NEW e, EncoderInv(e), e.configurations # << >>, e.encoder # NULL,
           NEW key \in BOOLEAN
    PROVE  EncoderInv(SkipPicture(e, key))
<1> DEFINE s == e.configurations
           pattern == IF key THEN "none" ELSE s[1].pattern
           c == [s[1] EXCEPT !.pattern = pattern]
           cs == [s EXCEPT ![1] = c]
<1>1. /\ s \in Seq(LayerConfigs) /\ s[1] \in LayerConfigs /\ 1 \in DOMAIN s
      /\ e.encoder # Garbage /\ e \in Encoders /\ e.fresh \in BOOLEAN
  BY FirstConfiguration DEF EncoderInv, Encoders
<1>2. c \in LayerConfigs /\ c.sending = s[1].sending /\ c.keyReq = s[1].keyReq
  BY <1>1 DEF LayerConfigs, Patterns
<1>3. NoOutput \in Outputs /\ ~NoOutput.discarded
  BY DEF Outputs, NoOutput
<1>4. SkipPicture(e, key) =
        [e EXCEPT !.configurations = cs, !.pic = "frame",
                  !.fresh = e.fresh, !.ret = "ok", !.out = NoOutput]
  BY <1>1 DEF SkipPicture, Encoders
<1>5. /\ cs \in Seq(LayerConfigs) /\ DOMAIN cs = DOMAIN s
      /\ \A i \in DOMAIN cs : /\ cs[i].sending = s[i].sending
                               /\ cs[i].keyReq = s[i].keyReq
  <2> HIDE DEF c
  <2> QED
    BY <1>1, <1>2, FirstConfiguration
<1> HIDE DEF cs
<1>6. e.fresh \in BOOLEAN /\ (e.encoder = Garbage => cs = << >>)
  BY <1>1
<1>7. EncoderInv([e EXCEPT !.configurations = cs, !.pic = "frame",
                  !.fresh = e.fresh, !.ret = "ok", !.out = NoOutput])
  BY <1>3, <1>5, <1>6, OutputInv
<1> QED
  BY <1>4, <1>7

\* An x264 error closes the handle and forgets it.
LEMMA EncodeFailsInv ==
    ASSUME NEW e, EncoderInv(e)
    PROVE  EncoderInv(EncodeFails(e))
<1> DEFINE os == e.open \ {e.encoder}
           ms == e.misuse \cup {"foreign_free"}
           f == [e EXCEPT !.open = os, !.encoder = NULL, !.pic = "frame",
                          !.misuse = ms, !.ret = "error", !.out = NoOutput]
<1>1. e \in Encoders /\ e.open \subseteq 1..e.opened
  BY DEF EncoderInv
<1>2. os \in SUBSET Nat /\ os \subseteq 1..e.opened /\ ms \in SUBSET Misuses
  BY <1>1 DEF Encoders, Misuses
<1>3. NoOutput \in Outputs /\ ~NoOutput.discarded /\ NULL \in Int
  BY DEF Outputs, NoOutput, NULL
<1>4. EncodeFails(e) = f
  BY <1>1 DEF EncodeFails, Encoders
<1> HIDE DEF os, ms
<1>5. f \in Encoders
  BY <1>1, <1>2, <1>3 DEF Encoders, Returns
<1>6. f.open = os /\ f.encoder = NULL /\ f.opened = e.opened /\ f.out = NoOutput
  BY <1>1 DEF Encoders
<1> HIDE DEF f
<1> QED
  BY <1>2, <1>3, <1>4, <1>5, <1>6 DEF EncoderInv, Live, NULL, Garbage

\* Encode: a layer that sends has a request, so every picture of a live handle
\* is a key frame of the structure and none is discarded.
LEMMA EncodeInv ==
    ASSUME NEW e, EncoderInv(e), NEW i420 \in BOOLEAN, NEW types,
           NEW answer \in X264Answers
    PROVE  EncoderInv(Encode(e, i420, types, answer))
<1> USE DEF X264Answers
<1>1. NoOutput \in Outputs /\ ~NoOutput.discarded
  BY DEF Outputs, NoOutput
<1>2. ASSUME NEW ret \in Returns
      PROVE  EncoderInv([e EXCEPT !.ret = ret, !.out = NoOutput])
  BY <1>1 DEF EncoderInv, Encoders, Live
<1>3. CASE ~e.inited \/ ~e.callback
  BY <1>2, <1>3 DEF Encode, Returns
<1>4. CASE e.inited /\ e.callback /\ ~i420
  <2>1. Encode(e, i420, types, answer) =
            [e EXCEPT !.ret = "failure", !.out = NoOutput]
    BY <1>4 DEF Encode
  <2> QED
    BY <1>2, <2>1 DEF Returns
<1>5. CASE e.inited /\ e.callback /\ i420
  <2>1. Encode(e, i420, types, answer) =
            IF e.configurations = << >>
            THEN EncodeUnconfigured(e, answer)
            ELSE IF ~e.configurations[1].sending \/ types[1] = "empty"
            THEN [e EXCEPT !.pic = "frame", !.ret = "ok", !.out = NoOutput]
            ELSE EncodeLayer(e, types, answer)
    BY <1>5 DEF Encode
  <2>2. CASE e.configurations = << >>
    BY <2>1, <2>2, EncodeUnconfiguredInv
  <2>3. EncoderInv([e EXCEPT !.pic = "frame", !.ret = "ok", !.out = NoOutput])
    BY <1>1 DEF EncoderInv, Encoders, Live, Returns
  <2>4. CASE e.configurations # << >> /\ e.configurations[1].sending
    <3> DEFINE key == SendsKeyFrame(e, types)
               asked == types[Len(e.configurations)] = "key"
    <3>1. CASE e.encoder = NULL
      <4>1. EncodeLayer(e, types, answer) = Crash(e, "null_encode")
        BY <3>1 DEF EncodeLayer
      <4> QED
        BY <2>1, <2>3, <2>4, <4>1, CrashInv DEF Misuses
    <3>2. CASE e.encoder # NULL
      <4>1. key
        <5>1. 1 \in DOMAIN e.configurations
          BY <2>4 DEF EncoderInv, Encoders
        <5>2. e.configurations[1].keyReq
          BY <2>4, <3>2, <5>1 DEF EncoderInv, Live
        <5> QED
          BY <2>4, <5>1, <5>2 DEF SendsKeyFrame
      <4>2. asked \in BOOLEAN
        OBVIOUS
      <4>3. key = TRUE
        BY <4>1 DEF SendsKeyFrame
      <4>4. /\ answer.res \in {"error", "skip", "picture"}
            /\ IsIdr(e, answer) \in BOOLEAN
        BY DEF IsIdr
      <4>5. EncodeLayer(e, types, answer) \in
                {EncodeFails(e), SkipPicture(e, TRUE),
                 Deliver(e, TRUE, asked, IsIdr(e, answer))}
        BY <3>2, <4>3, <4>4 DEF EncodeLayer
      <4>6. /\ EncoderInv(EncodeFails(e)) /\ EncoderInv(SkipPicture(e, TRUE))
            /\ EncoderInv(Deliver(e, TRUE, asked, IsIdr(e, answer)))
        BY <2>4, <3>2, <4>2, <4>4, EncodeFailsInv, SkipPictureInv, DeliverInv
      <4> QED
        BY <2>1, <2>3, <2>4, <4>5, <4>6
    <3> QED
      BY <3>1, <3>2
  <2>5. CASE e.configurations # << >> /\ ~e.configurations[1].sending
    BY <2>1, <2>3, <2>5
  <2> QED
    BY <2>2, <2>4, <2>5
<1> QED
  BY <1>3, <1>4, <1>5

=============================================================================
