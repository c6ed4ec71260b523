----------------------- MODULE VideoStreamEncoderProofs -----------------------
(***************************************************************************)
(* Proofs about VideoStreamEncoder, the owner of the encoder, for every set *)
(* of formats, sizes, bitrates, frame rates, utilisations, temporal layers  *)
(* and codec modes, every bound on the handles and both kinds of            *)
(* std::vector.                                                             *)
(*                                                                         *)
(* The five properties hold one another up.  That SetRates and Encode never *)
(* meet an object without configurations (NoUnconfiguredUse) rests on the   *)
(* allocator telling an initialised encoder (AllocatorOnlyWhenInitialized), *)
(* and on what no property says by itself: an initialised encoder has       *)
(* configurations.  That the encoder has the cached rate rests in turn on   *)
(* SetRates meeting a configured object.  A reconfiguration breaks three of *)
(* the four parts of the invariant on its way, as it destroys the encoder   *)
(* before it asks for another and gives itself an allocator before          *)
(* InitEncode has succeeded: one lemma per stage says what holds there.     *)
(***************************************************************************)
EXTENDS VideoStreamEncoder, H264ObjectProofs

RateSettings ==
    [target: Int, link: Nat, bitrate: Nat, fps: Nat, overused: BOOLEAN]

Codecs == [size: Nat, layers: 0..3, fps: Nat, start: Nat]

Streams ==
    [enc: Encoders, exists: BOOLEAN, initialized: BOOLEAN, allocator: BOOLEAN,
     creation: BOOLEAN, reconfiguration: BOOLEAN, configured: BOOLEAN,
     config: Configs, codec: Codecs, frame: Nat, rates: RateSettings,
     start: Nat, types: {"key", "delta"}, encoded: BOOLEAN, asked: BOOLEAN,
     signal: BOOLEAN, stopped: BOOLEAN]

\* What holds at every stage of every task: the members have their types, the
\* object its invariant, nothing has used it without configurations and a
\* request is kept.
Base(v) ==
    /\ v \in Streams
    /\ EncoderInv(v.enc)
    /\ "no_configuration" \notin v.enc.misuse
    /\ v.asked => v.types = "key"

Pending(v) == v.configured /\ ~v.exists /\ ~v.stopped => v.creation

\* An initialised encoder has configurations.
Configured(v) == v.exists /\ v.initialized => v.enc.configurations # << >>

Guarded(v) == v.exists /\ v.allocator => v.initialized

\* The buffer SetRates gives a rate in a mode, under either overuse signal.
BufferOfMode(rc, mode) ==
    \E overused \in BOOLEAN :
        rc.vbv = VbvSize(rc.kbps, VbvPercent(mode, overused))

\* What the object was given: the rate of the cache and a buffer of the mode.
\* x264 has the same unless it refused it, by EncoderInv.
Follows(v, mode) ==
    v.exists /\ v.initialized /\ Live(v.enc)
        /\ v.rates.bitrate > 0 /\ v.rates.fps >= 1 =>
            /\ v.enc.param.kbps = v.rates.bitrate \div 1000
            /\ v.enc.configurations[1].sending
            /\ BufferOfMode(v.enc.param, mode)

\* The inductive invariant, on the members.
StreamInv(v, mode) ==
    Base(v) /\ Pending(v) /\ Configured(v) /\ Guarded(v) /\ Follows(v, mode)

\* The inductive invariant of the specification.
IInv == codec_choose \in CodecModes /\ StreamInv(vs, codec_choose)

-----------------------------------------------------------------------------
(***************************************************************************)
(* What the methods of an object with configurations leave of it.           *)
(***************************************************************************)
\* The first configuration decides whether there is one.
LEMMA FirstMeansConfigured ==
    ASSUME NEW s, 1 \in DOMAIN s
    PROVE  s # << >>
OBVIOUS

\* Reconfigure puts the rate into the object and makes the layer send.
LEMMA ReconfigureApplies ==
    ASSUME NEW e, EncoderInv(e), e.configurations # << >>,
           NEW mode \in CodecModes, NEW r \in AnyRates
    PROVE  LET n == Reconfigure(e, mode, r)
           IN  /\ n.misuse = e.misuse /\ n.ret = e.ret
               /\ n.configurations # << >>
               /\ n.configurations[1].sending
               /\ n.param.kbps = r.layer0 \div 1000
               /\ BufferOfMode(n.param, mode)
<1> DEFINE s == e.configurations
           c == SetStreamState(s[1], TRUE)
           cs == [s EXCEPT ![1] = c]
           kbps == r.layer0 \div 1000
           vbv == VbvSize(kbps, VbvPercent(mode, r.overused))
           rc == [e.param EXCEPT !.kbps = kbps, !.vbv = vbv]
           lib == IF r.refused THEN e.lib ELSE rc
           n == [e EXCEPT !.configurations = cs, !.param = rc, !.lib = lib,
                          !.refused = r.refused]
<1>1. s \in Seq(LayerConfigs) /\ e \in Encoders /\ e.param \in RateControls
  BY DEF EncoderInv, Encoders
<1>2. 1 \in DOMAIN s /\ s[1] \in LayerConfigs
  BY <1>1
<1>3. c \in LayerConfigs /\ c.sending
  BY <1>2, SetStreamStateType
<1>4. Reconfigure(e, mode, r) = n
  <2> HIDE DEF c, vbv
  <2>1. Reconfigure(e, mode, r) =
          [e EXCEPT !.configurations[1] = c, !.param = rc, !.lib = lib,
                    !.refused = r.refused]
    BY DEF Reconfigure, vbv, c
  <2> HIDE DEF rc, lib
  <2> QED
    BY <1>1, <2>1 DEF Encoders
<1>5. cs[1] = c /\ 1 \in DOMAIN cs
  <2> HIDE DEF c
  <2> QED
    BY <1>1, <1>2, <1>3, FirstConfiguration
<1>6. rc.kbps = kbps /\ BufferOfMode(rc, mode)
  <2>1. r.overused \in BOOLEAN
    BY DEF AnyRates
  <2>2. rc.kbps = kbps /\ rc.vbv = vbv
    <3> HIDE DEF kbps, vbv
    <3> QED
      BY <1>1 DEF RateControls
  <2> HIDE DEF rc, kbps
  <2> QED
    BY <2>1, <2>2 DEF BufferOfMode
<1> HIDE DEF cs, rc, lib, c, kbps
<1>7. /\ n.misuse = e.misuse /\ n.ret = e.ret /\ n.configurations = cs
      /\ n.param = rc
  BY <1>1 DEF Encoders
<1> QED
  BY <1>3, <1>4, <1>5, <1>6, <1>7, FirstMeansConfigured DEF kbps

\* A SetRates call that meets configurations is legal and leaves some; one
\* with a rate puts it into the object of a live handle.
LEMMA SetRatesApplies ==
    ASSUME NEW e, EncoderInv(e), e.configurations # << >>,
           NEW mode \in CodecModes, NEW r \in AnyRates
    PROVE  LET n == SetRates(e, mode, r)
           IN  /\ n.misuse = e.misuse /\ n.ret = e.ret
               /\ n.configurations # << >>
               /\ r.fps >= 1 /\ r.layer0 > 0 /\ Live(n) =>
                    /\ n.configurations[1].sending
                    /\ n.param.kbps = r.layer0 \div 1000
                    /\ BufferOfMode(n.param, mode)
<1> DEFINE s == e.configurations
<1>1. /\ s \in Seq(LayerConfigs) /\ e \in Encoders /\ 1 \in DOMAIN s
      /\ s[1] \in LayerConfigs
  BY DEF EncoderInv, Encoders
<1>2. r.layer0 \in Nat /\ r.others \in Nat /\ r.fps \in Nat
  BY DEF AnyRates
<1>3. CASE e.encoder = NULL \/ r.fps < 1
  <2>0. ~(e.encoder # NULL /\ r.fps >= 1)
    BY <1>2, <1>3
  <2>1. SetRates(e, mode, r) = e
    BY <1>3, <2>0, Zenon DEF SetRates
  <2>2. r.fps >= 1 => ~Live(e)
    BY <1>2, <1>3 DEF Live
  <2> QED
    BY <2>1, <2>2
<1>4. CASE e.encoder # NULL /\ r.fps >= 1 /\ r.layer0 + r.others = 0
  <2> DEFINE cs == [i \in DOMAIN s |-> SetStreamState(s[i], FALSE)]
             n == [e EXCEPT !.configurations = cs]
  <2>1. SetRates(e, mode, r) = n
    BY <1>1, <1>2, <1>4 DEF SetRates, Encoders
  <2>2. 1 \in DOMAIN cs
    BY <1>1
  <2> HIDE DEF cs
  <2>3. n.misuse = e.misuse /\ n.ret = e.ret /\ n.configurations = cs
    BY <1>1 DEF Encoders
  <2>4. ~(r.layer0 > 0)
    BY <1>2, <1>4
  <2> QED
    BY <2>1, <2>2, <2>3, <2>4, FirstMeansConfigured
<1>5. CASE e.encoder # NULL /\ r.fps >= 1 /\ r.layer0 > 0
  <2>0. /\ e.encoder # NULL /\ r.fps >= 1 /\ ~(r.fps < 1) /\ r.layer0 > 0
        /\ r.layer0 + r.others > 0 /\ ~(r.layer0 + r.others = 0)
    BY <1>2, <1>5
  <2>1. SetRates(e, mode, r) = Reconfigure(e, mode, r)
    BY <2>0, Zenon DEF SetRates
  <2> QED
    BY <2>1, ReconfigureApplies
<1>6. CASE e.encoder # NULL /\ r.fps >= 1 /\ r.layer0 = 0 /\ r.others > 0
  <2> DEFINE c == SetStreamState(s[1], FALSE)
             cs == [s EXCEPT ![1] = c]
             n == [e EXCEPT !.configurations = cs]
  <2>1. SetRates(e, mode, r) = n
    BY <1>1, <1>2, <1>6 DEF SetRates, Encoders
  <2>2. 1 \in DOMAIN cs
    BY <1>1
  <2> HIDE DEF cs
  <2>3. n.misuse = e.misuse /\ n.ret = e.ret /\ n.configurations = cs
    BY <1>1 DEF Encoders
  <2>4. ~(r.layer0 > 0)
    BY <1>2, <1>6
  <2> QED
    BY <2>1, <2>2, <2>3, <2>4, FirstMeansConfigured
<1>7. \/ e.encoder = NULL \/ r.fps < 1
      \/ e.encoder # NULL /\ r.fps >= 1 /\ r.layer0 + r.others = 0
      \/ e.encoder # NULL /\ r.fps >= 1 /\ r.layer0 > 0
      \/ e.encoder # NULL /\ r.fps >= 1 /\ r.layer0 = 0 /\ r.others > 0
  BY <1>2
<1> QED
  BY <1>3, <1>4, <1>5, <1>6, <1>7

\* InitEncode itself never touches a missing configuration, and leaves an
\* object with configurations when it succeeds.
LEMMA InitEncodeConfigures ==
    ASSUME NEW e, EncoderInv(e), NEW mode \in CodecModes,
           NEW inst \in AnyInstances, NEW fail \in InitFailures,
           "no_configuration" \notin e.misuse
    PROVE  LET n == InitEncode(e, mode, inst, fail)
           IN  /\ "no_configuration" \notin n.misuse
               /\ n.ret = "ok" => n.configurations # << >>
<1> DEFINE r == Release(e)
<1>1. EncoderInv(r) /\ r.encoder = NULL /\ r.misuse = e.misuse
  BY ReleaseInv DEF Release, EncoderInv, Encoders
<1>2. /\ inst.kind \in {"invalid", "bad_simulcast", "good"}
      /\ inst.streams \in 1..MaxStreams /\ inst.streams \in Nat \ {0}
      /\ inst.start \in AnyRates
      /\ fail.at \in Nat /\ fail.in \in {"open", "setup"}
  BY StreamsAssumption DEF AnyInstances, InitFailures
<1> HIDE DEF r
<1>3. ASSUME NEW k \in 0..inst.streams
      PROVE  LET f == OpenStreams(r, mode, inst, k)
             IN  f \in Encoders /\ f.misuse = r.misuse /\ f.configurations # << >>
  <2> DEFINE f == OpenStreams(r, mode, inst, k)
             cs == [i \in 1..inst.streams |->
                IF i <= k THEN InitLayerConfig(inst.layers)
                ELSE DefaultLayerConfig]
  <2>1. f \in Encoders
    BY <1>1, OpenStreamsInv
  <2>2. 1 \in DOMAIN cs
    BY <1>2
  <2>3. r \in Encoders
    BY <1>1 DEF EncoderInv
  <2>4. f.misuse = r.misuse /\ f.configurations = cs
    BY <2>3 DEF OpenStreams, Encoders
  <2> QED
    BY <2>1, <2>2, <2>4, FirstMeansConfigured
<1>4. CASE inst.kind = "invalid"
  <2>1. InitEncode(e, mode, inst, fail) = [e EXCEPT !.ret = "parameter"]
    BY <1>4 DEF InitEncode
  <2> QED
    BY <2>1 DEF EncoderInv, Encoders
<1>5. CASE inst.kind = "bad_simulcast" /\ inst.streams > 1
  <2>1. InitEncode(e, mode, inst, fail) = [r EXCEPT !.ret = "simulcast"]
    BY <1>5 DEF InitEncode, r
  <2> QED
    BY <1>1, <2>1 DEF EncoderInv, Encoders
<1>6. CASE inst.kind # "invalid" /\ ~(inst.kind = "bad_simulcast" /\ inst.streams > 1)
  <2>1. InitEncode(e, mode, inst, fail) =
            IF fail.at \in 1..inst.streams
            THEN FailInit(OpenStreams(r, mode, inst, fail.at - 1), fail.in)
            ELSE SetRates(OpenStreams(r, mode, inst, inst.streams),
                          mode, inst.start)
    BY <1>6 DEF InitEncode, r
  <2>2. CASE fail.at \in 1..inst.streams
    <3> DEFINE k == fail.at - 1
               f == OpenStreams(r, mode, inst, k)
               n == FailInit(f, fail.in)
    <3>1. k \in 0..inst.streams
      BY <1>2, <2>2
    <3>2. f \in Encoders /\ f.misuse = e.misuse
      BY <1>1, <1>3, <3>1
    <3> HIDE DEF f
    <3>3. n.misuse \subseteq e.misuse \cup {"null_close"} /\ n.ret # "ok"
      <4>1. CASE fail.in = "open"
        BY <3>2, <4>1 DEF FailInit, Crash, Encoders
      <4>2. CASE fail.in = "setup" /\ f.encoder = NULL
        BY <3>2, <4>2 DEF FailInit, Crash, Encoders
      <4>3. CASE fail.in = "setup" /\ f.encoder # NULL
        BY <3>2, <4>3 DEF FailInit, Encoders
      <4> QED
        BY <1>2, <4>1, <4>2, <4>3
    <3>4. InitEncode(e, mode, inst, fail) = n
      BY <2>1, <2>2 DEF f
    <3> HIDE DEF n
    <3> QED
      BY <3>3, <3>4
  <2>3. CASE fail.at \notin 1..inst.streams
    <3> DEFINE f == OpenStreams(r, mode, inst, inst.streams)
    <3>1. inst.streams \in 0..inst.streams
      BY <1>2
    <3>2. EncoderInv(f) /\ f.misuse = e.misuse /\ f.configurations # << >>
      BY <1>1, <1>3, <3>1, OpenStreamsInv
    <3> HIDE DEF f
    <3>3. /\ SetRates(f, mode, inst.start).misuse = f.misuse
          /\ SetRates(f, mode, inst.start).configurations # << >>
      BY <1>2, <3>2, SetRatesApplies
    <3>4. InitEncode(e, mode, inst, fail) = SetRates(f, mode, inst.start)
      BY <2>1, <2>3 DEF f
    <3> QED
      BY <3>2, <3>3, <3>4
  <2> QED
    BY <2>2, <2>3
<1> QED
  BY <1>2, <1>4, <1>5, <1>6

\* A new pattern for the first layer leaves its stream state.
LEMMA PatternKeepsSending ==
    ASSUME NEW s \in Seq(LayerConfigs), s # << >>, NEW pattern \in Patterns
    PROVE  LET cs == [s EXCEPT ![1].pattern = pattern]
           IN  cs # << >> /\ cs[1].sending = s[1].sending
<1> DEFINE c == [s[1] EXCEPT !.pattern = pattern]
           cs == [s EXCEPT ![1] = c]
<1>1. 1 \in DOMAIN s /\ s[1] \in LayerConfigs
  OBVIOUS
<1>2. c \in LayerConfigs /\ c.sending = s[1].sending
  BY <1>1 DEF LayerConfigs
<1> HIDE DEF c
<1>3. cs[1] = c /\ 1 \in DOMAIN cs
  BY <1>2, FirstConfiguration
<1>4. [s EXCEPT ![1].pattern = pattern] = cs
  BY DEF c
<1> HIDE DEF cs
<1> QED
  BY <1>2, <1>3, <1>4, FirstMeansConfigured

\* NextFrameConfig yields a pattern.
LEMMA NextFrameConfigType ==
    ASSUME NEW last, NEW layers, NEW restart
    PROVE  NextFrameConfig(last, layers, restart) \in Patterns
BY DEF NextFrameConfig, NextPattern, Patterns

\* What Encode may change of an object with configurations.
Encoded(e, n) ==
    /\ n.misuse \subseteq e.misuse \cup {"null_encode", "foreign_free"}
    /\ n.configurations # << >>
    /\ Live(n) => /\ Live(e) /\ n.param = e.param
                  /\ n.configurations[1].sending = e.configurations[1].sending

\* The picture x264 produced, or none.
LEMMA PictureEncoded ==
    ASSUME NEW e, EncoderInv(e), e.configurations # << >>,
           NEW key, NEW asked, NEW isKey
    PROVE  /\ Encoded(e, Deliver(e, key, asked, isKey))
           /\ Encoded(e, SkipPicture(e, key))
<1> DEFINE s == e.configurations
           new == NextFrameConfig(s[1].pattern, s[1].layers, key)
           discard == s[1].layers > 1 /\ TemporalId(new) # 0
           p1 == IF discard THEN s[1].pattern ELSE new
           p2 == IF key THEN "none" ELSE s[1].pattern
           c1 == [s EXCEPT ![1].pattern = p1]
           c2 == [s EXCEPT ![1].pattern = p2]
           n1 == Deliver(e, key, asked, isKey)
           n2 == SkipPicture(e, key)
<1>1. /\ s \in Seq(LayerConfigs) /\ e \in Encoders
      /\ s[1].pattern \in Patterns
  <2>1. s \in Seq(LayerConfigs) /\ e \in Encoders
    BY DEF EncoderInv, Encoders
  <2>2. s[1] \in LayerConfigs
    BY <2>1
  <2> QED
    BY <2>1, <2>2 DEF LayerConfigs
<1>2. new \in Patterns /\ p2 \in Patterns
  BY <1>1, NextFrameConfigType DEF Patterns
<1>3. p1 \in Patterns
  BY <1>1, <1>2
<1>4. /\ n1.configurations = c1 /\ n1.misuse = e.misuse /\ n1.param = e.param
      /\ n1.encoder = e.encoder
  <2> HIDE DEF new, discard
  <2>1. n1 = [e EXCEPT !.configurations[1].pattern = p1,
                       !.pic = "frame", !.fresh = FALSE, !.ret = "ok",
                       !.out = [sent |-> ~discard, idr |-> ~discard /\ key,
                           isKey |-> isKey, asked |-> asked,
                           discarded |-> discard]]
    BY DEF Deliver, new, discard
  <2> HIDE DEF n1
  <2> QED
    BY <1>1, <2>1 DEF Encoders
<1>5. /\ n2.configurations = c2 /\ n2.misuse = e.misuse /\ n2.param = e.param
      /\ n2.encoder = e.encoder
  BY <1>1 DEF SkipPicture, Encoders
<1> HIDE DEF new, discard, p1, p2, n1, n2
<1>6. /\ c1 # << >> /\ c1[1].sending = s[1].sending
      /\ c2 # << >> /\ c2[1].sending = s[1].sending
  BY <1>1, <1>2, <1>3, PatternKeepsSending
<1> HIDE DEF c1, c2
<1>7. Encoded(e, n1)
  BY <1>4, <1>6 DEF Encoded, Live
<1>8. Encoded(e, n2)
  BY <1>5, <1>6 DEF Encoded, Live
<1> QED
  BY <1>7, <1>8 DEF n1, n2

\* An Encode call that meets configurations is legal up to x264's own errors,
\* and a handle it leaves is the one it found, with its rate.
LEMMA EncodeKeeps ==
    ASSUME NEW e, EncoderInv(e), e.configurations # << >>,
           NEW i420 \in BOOLEAN, NEW types, NEW answer \in X264Answers
    PROVE  Encoded(e, Encode(e, i420, types, answer))
<1>0. e \in Encoders
  BY DEF EncoderInv
<1>1. ASSUME NEW ret
      PROVE  Encoded(e, [e EXCEPT !.ret = ret, !.out = NoOutput])
  <2> DEFINE n == [e EXCEPT !.ret = ret, !.out = NoOutput]
  <2>1. /\ n.configurations = e.configurations /\ n.misuse = e.misuse
        /\ n.param = e.param /\ n.encoder = e.encoder
    BY <1>0 DEF Encoders
  <2> HIDE DEF n
  <2>2. Encoded(e, n)
    BY <2>1 DEF Encoded, Live
  <2> QED
    BY <2>2 DEF n
<1>2. Encoded(e, [e EXCEPT !.pic = "frame", !.ret = "ok", !.out = NoOutput])
  <2> DEFINE n == [e EXCEPT !.pic = "frame", !.ret = "ok", !.out = NoOutput]
  <2>1. /\ n.configurations = e.configurations /\ n.misuse = e.misuse
        /\ n.param = e.param /\ n.encoder = e.encoder
    BY <1>0 DEF Encoders
  <2> HIDE DEF n
  <2>2. Encoded(e, n)
    BY <2>1 DEF Encoded, Live
  <2> QED
    BY <2>2 DEF n
<1>3. Encoded(e, EncodeLayer(e, types, answer))
  <2> DEFINE key == SendsKeyFrame(e, types)
             asked == types[Len(e.configurations)] = "key"
  <2>1. answer.res \in {"error", "skip", "picture"}
    BY DEF X264Answers
  <2>2. CASE e.encoder = NULL
    <3> DEFINE n == Crash(e, "null_encode")
    <3>1. EncodeLayer(e, types, answer) = n
      BY <2>2 DEF EncodeLayer
    <3>2. /\ n.configurations = e.configurations /\ n.param = e.param
          /\ n.misuse = e.misuse \cup {"null_encode"} /\ n.encoder = e.encoder
      BY <1>0 DEF Crash, Encoders
    <3> HIDE DEF n
    <3> QED
      BY <2>2, <3>1, <3>2 DEF Encoded, Live
  <2>3. CASE e.encoder # NULL /\ answer.res = "error"
    <3> DEFINE n == EncodeFails(e)
    <3>1. EncodeLayer(e, types, answer) = n
      BY <2>3 DEF EncodeLayer
    <3>2. /\ n.configurations = e.configurations /\ n.encoder = NULL
          /\ n.misuse = e.misuse \cup {"foreign_free"}
      BY <1>0 DEF EncodeFails, Encoders
    <3> HIDE DEF n
    <3> QED
      BY <3>1, <3>2 DEF Encoded, Live
  <2>4. CASE e.encoder # NULL /\ answer.res = "skip"
    <3>1. EncodeLayer(e, types, answer) = SkipPicture(e, key)
      BY <2>4 DEF EncodeLayer
    <3> QED
      BY <3>1, PictureEncoded
  <2>5. CASE e.encoder # NULL /\ answer.res = "picture"
    <3>1. EncodeLayer(e, types, answer) =
            Deliver(e, key, asked, IsIdr(e, answer))
      BY <2>5 DEF EncodeLayer
    <3> QED
      BY <3>1, PictureEncoded
  <2> QED
    BY <2>1, <2>2, <2>3, <2>4, <2>5
<1>4. CASE ~e.inited \/ ~e.callback
  <2>1. Encode(e, i420, types, answer) =
            [e EXCEPT !.ret = "uninitialized", !.out = NoOutput]
    BY <1>4 DEF Encode
  <2> QED
    BY <1>1, <2>1
<1>5. CASE e.inited /\ e.callback /\ ~i420
  <2>1. Encode(e, i420, types, answer) =
            [e EXCEPT !.ret = "failure", !.out = NoOutput]
    BY <1>5 DEF Encode
  <2> QED
    BY <1>1, <2>1
<1>6. CASE e.inited /\ e.callback /\ i420
  <2>1. Encode(e, i420, types, answer) =
            IF ~e.configurations[1].sending \/ types[1] = "empty"
            THEN [e EXCEPT !.pic = "frame", !.ret = "ok", !.out = NoOutput]
            ELSE EncodeLayer(e, types, answer)
    BY <1>6 DEF Encode
  <2> QED
    BY <1>2, <1>3, <2>1
<1> QED
  BY <1>4, <1>5, <1>6

-----------------------------------------------------------------------------
(***************************************************************************)
(* The rates                                                               *)
(***************************************************************************)
\* Limits keep a rate a rate.
LEMMA ClampType ==
    ASSUME NEW x \in Nat, NEW low \in Nat, NEW high \in Nat
    PROVE  Clamp(x, low, high) \in Nat
BY DEF Clamp

\* An allocation is a rate, whatever the target.
LEMMA AllocateType ==
    ASSUME NEW bps \in Nat
    PROVE  Allocate(bps) \in Nat
<1> DEFINE low == 1000 * MinKbps
           high == 1000 * MaxKbps
           rate == Clamp(bps, low, high)
<1>1. low \in Nat /\ high \in Nat
  BY LimitsAssumption
<1> HIDE DEF low, high
<1>2. rate \in Nat
  BY <1>1, ClampType
<1> HIDE DEF rate
<1>4. 1000 * (rate \div 1000) \in Nat
  <2> DEFINE q == rate \div 1000
  <2>1. q \in Nat
    BY <1>2
  <2> HIDE DEF q
  <2>2. 1000 * q \in Nat
    BY <2>1
  <2> QED
    BY <2>2 DEF q
<1> QED
  BY <1>2, <1>4 DEF Allocate, rate, low, high

\* An empty cache has the type of one.
LEMMA NoRatesType == NoRates \in RateSettings /\ NoRates.bitrate = 0
BY DEF NoRates, RateSettings

\* The adjustment of a rate is a rate, and there is none of nothing.
LEMMA AdjustRateAllocationType ==
    ASSUME NEW bitrate \in Nat, NEW u \in Utilizations
    PROVE  /\ AdjustRateAllocation(bitrate, u) \in Nat
           /\ AdjustRateAllocation(bitrate, u) > 0 => bitrate > 0
<1> DEFINE x == 200 * bitrate + u
           y == 2 * u
           q == x \div y
           low == 1000 * MinKbps
<1>1. x \in Nat /\ y \in Nat \ {0} /\ low \in Nat
  <2>1. u \in 100..200
    BY UtilizationsAssumption
  <2> QED
    BY <2>1, LimitsAssumption
<1> HIDE DEF x, y, low
<1>2. q \in Nat
  BY <1>1
<1> HIDE DEF q
<1>3. AdjustRateAllocation(bitrate, u) =
        IF bitrate = 0 THEN 0 ELSE IF q < low THEN low ELSE q
  BY DEF AdjustRateAllocation, q, x, y, low
<1> QED
  BY <1>1, <1>2, <1>3

\* The frame rate of a codec is one.
LEMMA GetInputFramerateFpsType ==
    ASSUME NEW v \in Streams, NEW known \in BOOLEAN
    PROVE  GetInputFramerateFps(v, known) \in Nat
BY DEF GetInputFramerateFps, Streams, Codecs

\* UpdateBitrateAllocation yields settings; there is no bitrate without an
\* allocator.
LEMMA UpdateBitrateAllocationType ==
    ASSUME NEW v \in Streams, NEW r \in RateSettings, NEW u \in Utilizations
    PROVE  LET n == UpdateBitrateAllocation(v, r, u)
           IN  /\ n \in RateSettings
               /\ n.bitrate > 0 => v.allocator
<1> DEFINE bitrate == IF v.allocator /\ r.target > 0 THEN Allocate(r.target) ELSE 0
           adjusted == AdjustRateAllocation(bitrate, u)
           link == IF r.link < bitrate THEN bitrate ELSE r.link
           n == [r EXCEPT !.bitrate = adjusted, !.link = link]
<1>1. r.target \in Int /\ r.link \in Nat /\ v.allocator \in BOOLEAN
  BY DEF RateSettings, Streams
<1>2. bitrate \in Nat /\ (bitrate > 0 => v.allocator)
  <2>1. CASE v.allocator /\ r.target > 0
    <3>1. r.target \in Nat
      BY <1>1, <2>1
    <3> QED
      BY <2>1, <3>1, AllocateType
  <2>2. CASE ~(v.allocator /\ r.target > 0)
    BY <2>2
  <2> QED
    BY <2>1, <2>2
<1>3. UpdateBitrateAllocation(v, r, u) = n
  <2> HIDE DEF bitrate
  <2>1. UpdateBitrateAllocation(v, r, u) =
            [r EXCEPT !.bitrate = adjusted,
                      !.link = IF @ < bitrate THEN bitrate ELSE @]
    BY DEF UpdateBitrateAllocation, bitrate
  <2> HIDE DEF adjusted
  <2> QED
    BY <2>1 DEF RateSettings
<1> HIDE DEF bitrate
<1>4. link \in Nat
  BY <1>1, <1>2
<1>5. adjusted \in Nat /\ (adjusted > 0 => bitrate > 0)
  BY <1>2, AdjustRateAllocationType
<1> HIDE DEF link, adjusted
<1>6. n \in RateSettings /\ n.bitrate = adjusted
  BY <1>4, <1>5 DEF RateSettings
<1> QED
  BY <1>2, <1>3, <1>5, <1>6

\* The parameters of a SetRates call are rates.
LEMMA RateParametersType ==
    ASSUME NEW bitrate \in Nat, NEW fps \in Nat, NEW overused \in BOOLEAN,
           NEW refused \in BOOLEAN
    PROVE  LET p == RateParametersOf(bitrate, fps, overused, refused)
           IN  p \in AnyRates /\ p.fps = fps /\ p.layer0 = bitrate
BY DEF RateParametersOf, AnyRates

\* What SetEncoderRates leaves alone.
SameStage(v, n) ==
    /\ n.exists = v.exists /\ n.initialized = v.initialized
    /\ n.allocator = v.allocator /\ n.creation = v.creation
    /\ n.configured = v.configured /\ n.stopped = v.stopped

\* A cache entry that differs in nothing x264 knows of leaves the encoder where
\* the cache says it is; any other one reaches it.
LEMMA SetEncoderRatesInv ==
    ASSUME NEW v, NEW mode \in CodecModes,
           Base(v), Configured(v), Guarded(v), Follows(v, mode),
           NEW r \in RateSettings, NEW refused \in BOOLEAN,
           r.bitrate > 0 => v.allocator
    PROVE  LET n == SetEncoderRates(v, mode, r, refused)
           IN  /\ Base(n) /\ Configured(n) /\ Guarded(n) /\ Follows(n, mode)
               /\ SameStage(v, n)
<1> DEFINE changed == v.rates = NoRates \/ ~SameRateControl(v.rates, r)
           cached == IF changed \/ v.rates.target # r.target
                     THEN [v EXCEPT !.rates = r] ELSE v
           p == RateParametersOf(r.bitrate, r.fps, r.overused, refused)
           e == SetRates(v.enc, mode, p)
           n == [cached EXCEPT !.enc = e]
<1>1. v \in Streams /\ r.bitrate \in Nat /\ r.overused \in BOOLEAN
      /\ v.rates \in RateSettings /\ v.rates.bitrate \in Nat /\ r.fps \in Nat
  BY DEF Base, Streams, RateSettings
<1>2. /\ cached \in Streams /\ cached.enc = v.enc
      /\ cached.asked = v.asked /\ cached.types = v.types
      /\ SameStage(v, cached)
  BY <1>1 DEF Streams, SameStage
<1>3. /\ changed => cached.rates = r
      /\ ~changed => /\ cached.rates.bitrate = v.rates.bitrate
                     /\ cached.rates.fps = v.rates.fps
  <2>1. CASE changed
    BY <1>1, <2>1 DEF Streams
  <2>2. CASE ~changed
    BY <1>1, <2>2 DEF Streams, SameRateControl
  <2> QED
    BY <2>1, <2>2
<1>4. SetEncoderRates(v, mode, r, refused) =
        IF ~v.exists \/ r.bitrate = 0 \/ ~changed THEN cached
        ELSE [cached EXCEPT !.enc = SetRates(@, mode, p)]
  BY DEF SetEncoderRates
<1> HIDE DEF changed, cached, p
<1>5. CASE ~v.exists \/ r.bitrate = 0 \/ ~changed
  <2>1. SetEncoderRates(v, mode, r, refused) = cached
    BY <1>4, <1>5
  <2>2. Base(cached) /\ Configured(cached) /\ Guarded(cached)
    BY <1>2 DEF Base, Configured, Guarded, SameStage
  <2>3. Follows(cached, mode)
    BY <1>1, <1>2, <1>3, <1>5 DEF Follows, SameStage
  <2> QED
    BY <1>2, <2>1, <2>2, <2>3
<1>6. CASE v.exists /\ r.bitrate # 0 /\ changed
  <2>1. SetEncoderRates(v, mode, r, refused) = n
    BY <1>2, <1>4, <1>6
  <2>2. r.bitrate > 0 /\ v.initialized /\ v.enc.configurations # << >>
    BY <1>1, <1>6 DEF Guarded, Configured
  <2>3. EncoderInv(v.enc) /\ "no_configuration" \notin v.enc.misuse
    BY DEF Base
  <2>4. p \in AnyRates /\ p.fps = r.fps /\ p.layer0 = r.bitrate
    BY <1>1, RateParametersType DEF p
  <2>5. EncoderInv(e)
    BY <2>3, <2>4, SetRatesInv
  <2>6. /\ e.misuse = v.enc.misuse /\ e.configurations # << >>
        /\ r.fps >= 1 /\ Live(e) =>
                      /\ e.configurations[1].sending
                      /\ e.param.kbps = r.bitrate \div 1000
                      /\ BufferOfMode(e.param, mode)
    BY <2>2, <2>3, <2>4, SetRatesApplies
  <2>7. e \in Encoders
    BY <2>5 DEF EncoderInv
  <2> HIDE DEF e
  <2>8. /\ n \in Streams /\ n.enc = e /\ n.asked = v.asked
        /\ n.types = v.types /\ SameStage(v, n) /\ n.rates = r
    BY <1>2, <1>3, <1>6, <2>7 DEF Streams, SameStage
  <2> HIDE DEF n
  <2>9. Base(n) /\ Configured(n) /\ Guarded(n) /\ Follows(n, mode)
    BY <2>3, <2>5, <2>6, <2>8
       DEF Base, Configured, Guarded, Follows, SameStage
  <2> QED
    BY <2>1, <2>8, <2>9
<1> QED
  BY <1>5, <1>6

-----------------------------------------------------------------------------
(***************************************************************************)
(* The stages of ReconfigureEncoder                                        *)
(***************************************************************************)
\* An object that takes the place of another inherits its record.
LEMMA NewObjectInv ==
    ASSUME NEW e, EncoderInv(e), NEW inited \in BOOLEAN,
           NEW h \in {NULL, Garbage}
    PROVE  /\ EncoderInv(NewObject(e, inited, h))
           /\ NewObject(e, inited, h).misuse = e.misuse
           /\ ~Live(NewObject(e, inited, h))
<1> DEFINE c == ConstructedEncoder(inited, h)
           n == [c EXCEPT !.opened = e.opened, !.open = e.open,
                          !.alloc = e.alloc, !.misuse = e.misuse]
<1>1. EncoderInv(c) /\ c \in Encoders /\ c.encoder = h /\ e \in Encoders
      /\ c.configurations = << >>
  BY ConstructedInv DEF EncoderInv, ConstructedEncoder
<1>2. NewObject(e, inited, h) = n
  BY DEF NewObject
<1> HIDE DEF c
<1>3. /\ n \in Encoders /\ n.encoder = h /\ n.configurations = << >>
      /\ n.open = e.open /\ n.opened = e.opened /\ n.misuse = e.misuse
      /\ n.out = c.out
  BY <1>1 DEF Encoders
<1> HIDE DEF n
<1> QED
  BY <1>1, <1>2, <1>3 DEF EncoderInv, Live

\* Giving the owner another object.
LEMMA ObjectStage ==
    ASSUME NEW v \in Streams, NEW e \in Encoders
    PROVE  LET n == [v EXCEPT !.enc = e]
           IN  /\ n \in Streams /\ n.enc = e /\ SameStage(v, n)
               /\ n.asked = v.asked /\ n.types = v.types /\ n.rates = v.rates
               /\ n.codec = v.codec /\ n.config = v.config
BY DEF Streams, SameStage

\* CreateEncoder: the request and the configuration survive, the object is new.
LEMMA CreateEncoderInv ==
    ASSUME NEW v, Base(v), NEW env \in Environments
    PROVE  LET n == CreateEncoder(v, env)
           IN  /\ Base(n) /\ n.exists = env.created
               /\ n.creation = v.creation /\ n.configured = v.configured
               /\ n.stopped = v.stopped
<1> DEFINE i == IF env.created THEN env.inited ELSE FALSE
           h == IF env.created THEN env.pointer ELSE NULL
           e == NewObject(v.enc, i, h)
           n == [v EXCEPT !.enc = e, !.exists = env.created]
<1>1. env.created \in BOOLEAN /\ i \in BOOLEAN /\ h \in {NULL, Garbage}
  BY DEF Environments
<1>2. CreateEncoder(v, env) = n
  BY <1>1 DEF CreateEncoder, Base, Streams
<1> HIDE DEF i, h
<1>3. EncoderInv(e) /\ e.misuse = v.enc.misuse
  BY <1>1, NewObjectInv DEF Base
<1> HIDE DEF e
<1>4. v \in Streams /\ e \in Encoders
  BY <1>3 DEF Base, EncoderInv
<1>5. /\ n \in Streams /\ n.enc = e /\ n.exists = env.created
      /\ n.creation = v.creation /\ n.configured = v.configured
      /\ n.stopped = v.stopped /\ n.asked = v.asked /\ n.types = v.types
  BY <1>1, <1>4 DEF Streams
<1> HIDE DEF n
<1> QED
  BY <1>2, <1>3, <1>5 DEF Base

\* ReleaseEncoder leaves no initialised encoder.
LEMMA ReleaseEncoderInv ==
    ASSUME NEW v, Base(v)
    PROVE  LET n == ReleaseEncoder(v)
           IN  /\ Base(n) /\ (n.exists => ~n.initialized)
               /\ n.exists = v.exists /\ n.allocator = v.allocator
               /\ n.creation = v.creation /\ n.configured = v.configured
               /\ n.stopped = v.stopped /\ n.codec = v.codec
<1>1. v \in Streams
  BY DEF Base
<1>2. CASE v.exists /\ v.initialized
  <2> DEFINE e == Release(v.enc)
             n == [v EXCEPT !.enc = e, !.initialized = FALSE]
  <2>1. ReleaseEncoder(v) = n
    BY <1>1, <1>2 DEF ReleaseEncoder, Streams
  <2>2. EncoderInv(e) /\ e.misuse = v.enc.misuse
    BY ReleaseInv DEF Base, Release, EncoderInv, Encoders
  <2> HIDE DEF e
  <2>3. e \in Encoders
    BY <2>2 DEF EncoderInv
  <2>4. /\ n \in Streams /\ n.enc = e /\ ~n.initialized
        /\ n.exists = v.exists /\ n.allocator = v.allocator
        /\ n.creation = v.creation /\ n.configured = v.configured
        /\ n.stopped = v.stopped /\ n.codec = v.codec
        /\ n.asked = v.asked /\ n.types = v.types
    BY <1>1, <2>3 DEF Streams
  <2> HIDE DEF n
  <2> QED
    BY <2>1, <2>2, <2>4 DEF Base
<1>3. CASE ~(v.exists /\ v.initialized)
  BY <1>3 DEF ReleaseEncoder
<1> QED
  BY <1>2, <1>3

\* The result of a call and its output may be forgotten.
LEMMA ReadInv ==
    ASSUME NEW e, EncoderInv(e)
    PROVE  /\ EncoderInv(Read(e)) /\ Read(e).misuse = e.misuse
           /\ Read(e).configurations = e.configurations
           /\ Read(e).encoder = e.encoder /\ Read(e).param = e.param
<1> DEFINE n == [e EXCEPT !.ret = "ok", !.out = NoOutput]
<1>1. e \in Encoders /\ "ok" \in Returns /\ NoOutput \in Outputs
      /\ ~NoOutput.discarded
  BY DEF EncoderInv, Returns, Outputs, NoOutput
<1>2. /\ n \in Encoders /\ n.configurations = e.configurations
      /\ n.misuse = e.misuse /\ n.encoder = e.encoder /\ n.lib = e.lib
      /\ n.open = e.open /\ n.opened = e.opened /\ n.param = e.param
      /\ n.refused = e.refused /\ n.out = NoOutput
  BY <1>1 DEF Encoders
<1>3. Read(e) = n
  BY DEF Read
<1> HIDE DEF n
<1>4. EncoderInv(n)
  BY <1>1, <1>2 DEF EncoderInv, Live
<1> QED
  BY <1>2, <1>3, <1>4

\* The InitEncode parameters of the owner are those of an instance.
LEMMA InstanceOfType ==
    ASSUME NEW codec \in Codecs, codec.layers \in TemporalLayers,
           NEW overused \in BOOLEAN, NEW refused \in BOOLEAN
    PROVE  InstanceOf(codec, overused, refused) \in AnyInstances
<1> DEFINE start == RateParametersOf(Allocate(1000 * codec.start), codec.fps,
                                     overused, refused)
           kind == IF codec.fps = 0 THEN "invalid" ELSE "good"
<1>1. 1000 * codec.start \in Nat /\ codec.fps \in Nat
  BY DEF Codecs
<1>2. Allocate(1000 * codec.start) \in Nat
  BY <1>1, AllocateType
<1>3. start \in AnyRates
  BY <1>1, <1>2, RateParametersType
<1>4. kind \in {"invalid", "bad_simulcast", "good"} /\ 1 \in 1..MaxStreams
  BY StreamsAssumption
<1>5. InstanceOf(codec, overused, refused) =
        [kind |-> kind, streams |-> 1, layers |-> codec.layers, start |-> start]
  BY DEF InstanceOf
<1> HIDE DEF start, kind
<1> QED
  BY <1>3, <1>4, <1>5 DEF AnyInstances

\* A reset of an encoder leaves it initialised only with configurations, and
\* asks it for a key frame when it does.
LEMMA ResetEncoderInv ==
    ASSUME NEW v, Base(v), v.exists, v.codec.layers \in TemporalLayers,
           NEW mode \in CodecModes, NEW env \in Environments
    PROVE  LET n == ResetEncoder(v, mode, env)
           IN  /\ Base(n) /\ Configured(n) /\ n.exists
               /\ n.configured = v.configured /\ n.stopped = v.stopped
<1> DEFINE u == ReleaseEncoder(v)
           inst == InstanceOf(v.codec, env.overused, env.refused)
           e == InitEncode(u.enc, mode, inst, env.fail)
           f == RegisterEncodeCompleteCallback(e, TRUE)
           n1 == [u EXCEPT !.enc = f, !.initialized = TRUE, !.types = "key",
                           !.encoded = FALSE]
           n2 == [u EXCEPT !.enc = Read(e), !.encoded = FALSE]
<1>1. /\ Base(u) /\ ~u.initialized /\ u.exists
      /\ u.configured = v.configured /\ u.stopped = v.stopped
  BY ReleaseEncoderInv
<1>2. /\ env.overused \in BOOLEAN /\ env.refused \in BOOLEAN
      /\ env.fail \in InitFailures
  BY DEF Environments
<1>3. inst \in AnyInstances
  BY <1>2, InstanceOfType DEF Base, Streams
<1>4. ResetEncoder(v, mode, env) =
        IF e.ret = "ok" THEN n1 ELSE ReleaseEncoder(n2)
  BY DEF ResetEncoder
<1> HIDE DEF inst, u
<1>5. EncoderInv(u.enc) /\ "no_configuration" \notin u.enc.misuse
      /\ u \in Streams
  BY <1>1 DEF Base
<1>6. /\ EncoderInv(e) /\ "no_configuration" \notin e.misuse
      /\ e.ret = "ok" => e.configurations # << >>
  BY <1>2, <1>3, <1>5, InitEncodeInv, InitEncodeConfigures
<1> HIDE DEF e
<1>7. CASE e.ret = "ok"
  <2>1. /\ EncoderInv(f) /\ f.misuse = e.misuse
        /\ f.configurations = e.configurations
    <3>1. EncoderInv(f)
      BY <1>6, RegisterInv
    <3> QED
      BY <1>6, <3>1 DEF RegisterEncodeCompleteCallback, EncoderInv, Encoders
  <2> HIDE DEF f
  <2>2. f \in Encoders
    BY <2>1 DEF EncoderInv
  <2>3. /\ n1 \in Streams /\ n1.enc = f /\ n1.types = "key"
        /\ n1.exists = u.exists /\ n1.configured = u.configured
        /\ n1.stopped = u.stopped
    BY <1>5, <2>2 DEF Streams
  <2> HIDE DEF n1
  <2> QED
    BY <1>1, <1>4, <1>6, <1>7, <2>1, <2>3 DEF Base, Configured
<1>8. CASE e.ret # "ok"
  <2> DEFINE g == Read(e)
  <2>1. EncoderInv(g) /\ g.misuse = e.misuse
    BY <1>6, ReadInv
  <2>2. n2 = [u EXCEPT !.enc = g, !.encoded = FALSE]
    OBVIOUS
  <2> HIDE DEF g
  <2>3. g \in Encoders
    BY <2>1 DEF EncoderInv
  <2>4. /\ n2 \in Streams /\ n2.enc = g /\ n2.types = u.types
        /\ n2.asked = u.asked /\ n2.exists = u.exists
        /\ n2.configured = u.configured /\ n2.stopped = u.stopped
    BY <1>5, <2>2, <2>3 DEF Streams
  <2> HIDE DEF n2
  <2>5. Base(n2)
    BY <1>1, <1>6, <2>1, <2>4 DEF Base
  <2>6. /\ Base(ReleaseEncoder(n2))
        /\ ReleaseEncoder(n2).exists => ~ReleaseEncoder(n2).initialized
        /\ ReleaseEncoder(n2).exists = n2.exists
        /\ ReleaseEncoder(n2).configured = n2.configured
        /\ ReleaseEncoder(n2).stopped = n2.stopped
    BY <2>5, ReleaseEncoderInv
  <2> QED
    BY <1>1, <1>4, <1>8, <2>4, <2>6 DEF Configured
<1> QED
  BY <1>7, <1>8

\* The cached rates with the frame rate of the moment.
LEMMA CurrentRatesType ==
    ASSUME NEW v \in Streams, NEW how \in RateChoices
    PROVE  [v.rates EXCEPT !.fps = GetInputFramerateFps(v, how.known)]
                \in RateSettings
<1> DEFINE fps == GetInputFramerateFps(v, how.known)
<1>1. how.known \in BOOLEAN /\ v.rates \in RateSettings
  BY DEF RateChoices, Streams
<1>2. fps \in Nat
  BY <1>1, GetInputFramerateFpsType
<1> HIDE DEF fps
<1>3. [v.rates EXCEPT !.fps = fps] \in RateSettings
  BY <1>1, <1>2 DEF RateSettings
<1> QED
  BY <1>3 DEF fps

\* With an allocator exactly when the encoder is initialised, the cache ends up
\* telling what the encoder has, whatever it told before.
LEMMA ReapplyRatesInv ==
    ASSUME NEW v, Base(v), Configured(v), v.exists,
           v.allocator = v.initialized, NEW mode \in CodecModes,
           NEW how \in RateChoices
    PROVE  StreamInv(ReapplyRates(v, mode, how), mode)
<1> DEFINE u == [v EXCEPT !.rates = NoRates]
           q == [v.rates EXCEPT !.fps = GetInputFramerateFps(v, how.known)]
           r == UpdateBitrateAllocation(v, q, how.utilization)
<1>1. v \in Streams /\ v.rates \in RateSettings
  BY DEF Base, Streams
<1>0. how.refused \in BOOLEAN /\ how.utilization \in Utilizations
  BY DEF RateChoices
<1>4. q \in RateSettings
  BY <1>1, CurrentRatesType
<1>2. CASE v.allocator /\ v.rates # NoRates
  <2>1. /\ u \in Streams /\ u.enc = v.enc /\ u.asked = v.asked
        /\ u.types = v.types /\ SameStage(v, u) /\ u.rates = NoRates
    BY <1>1, NoRatesType DEF Streams, SameStage
  <2>2. r \in RateSettings /\ (r.bitrate > 0 => v.allocator)
    <3> HIDE DEF q
    <3> QED
      BY <1>0, <1>1, <1>4, UpdateBitrateAllocationType
  <2>3. ReapplyRates(v, mode, how) = SetEncoderRates(u, mode, r, how.refused)
    BY <1>2 DEF ReapplyRates
  <2> HIDE DEF u, r
  <2>4. Base(u) /\ Configured(u) /\ Guarded(u) /\ Follows(u, mode)
    BY <2>1, NoRatesType DEF Base, Configured, Guarded, Follows, SameStage
  <2>5. u.allocator = v.allocator /\ u.exists = v.exists
    BY <2>1 DEF SameStage
  <2> DEFINE n == SetEncoderRates(u, mode, r, how.refused)
  <2>6. /\ Base(n) /\ Configured(n) /\ Guarded(n) /\ Follows(n, mode)
        /\ SameStage(u, n)
    BY <1>0, <2>2, <2>4, <2>5, SetEncoderRatesInv
  <2> HIDE DEF n
  <2>7. Pending(n)
    BY <2>5, <2>6 DEF Pending, SameStage
  <2> QED
    BY <2>3, <2>6, <2>7 DEF StreamInv, n
<1>3. CASE ~(v.allocator /\ v.rates # NoRates)
  <2>1. ReapplyRates(v, mode, how) = v
    BY <1>3 DEF ReapplyRates
  <2>2. v.rates = NoRates => ~(v.rates.bitrate > 0)
    BY NoRatesType
  <2> QED
    BY <1>3, <2>1, <2>2 DEF StreamInv, Pending, Guarded, Follows
<1> QED
  BY <1>2, <1>3

\* A configuration yields the parameters of an instance.
LEMMA SetupCodecType ==
    ASSUME NEW v \in Streams
    PROVE  SetupCodec(v) \in Codecs /\ SetupCodec(v).layers \in TemporalLayers
<1> DEFINE kbps == v.start \div 1000
           start == Clamp(kbps, MinKbps, MaxKbps)
<1>1. v.start \in Nat /\ v.frame \in Nat /\ v.config \in Configs
  BY DEF Streams
<1>2. kbps \in Nat
  BY <1>1
<1> HIDE DEF kbps
<1>3. start \in Nat
  BY <1>2, ClampType, LimitsAssumption
<1>4. SetupCodec(v) = [size |-> v.frame, layers |-> v.config.layers,
                       fps |-> v.config.fps, start |-> start]
  BY DEF SetupCodec, kbps
<1>5. v.config.layers \in TemporalLayers /\ v.config.fps \in Nat
  BY <1>1, FrameRatesAssumption DEF Configs
<1>6. v.config.layers \in 0..3
  BY <1>5, LayersAssumption
<1> HIDE DEF start
<1>7. SetupCodec(v) \in Codecs
  BY <1>1, <1>3, <1>4, <1>5, <1>6 DEF Codecs
<1> QED
  BY <1>4, <1>5, <1>7

\* A whole reconfiguration, whether the factory fails, InitEncode fails or
\* nothing needs to be reset.
LEMMA ReconfigureEncoderInv ==
    ASSUME NEW v, NEW mode \in CodecModes, StreamInv(v, mode),
           NEW env \in Environments, NEW how \in RateChoices
    PROVE  StreamInv(ReconfigureEncoder(v, mode, env, how), mode)
<1> DEFINE w == IF v.creation THEN CreateEncoder(v, env) ELSE v
           codec == SetupCodec(w)
           reset == v.creation \/ RequiresEncoderReset(w.codec, codec, w.encoded)
           x == [w EXCEPT !.codec = codec, !.allocator = TRUE]
           y == IF reset THEN ResetEncoder(x, mode, env) ELSE x
           z == [y EXCEPT !.allocator = y.initialized, !.creation = FALSE,
                          !.reconfiguration = FALSE]
<1>1. ReconfigureEncoder(v, mode, env, how) =
        IF ~w.exists THEN w ELSE ReapplyRates(z, mode, how)
  BY DEF ReconfigureEncoder
<1>2. /\ Base(w) /\ w.configured = v.configured /\ w.stopped = v.stopped
      /\ w.creation = v.creation /\ (~v.creation => w = v)
  BY CreateEncoderInv DEF StreamInv
<1> HIDE DEF w
<1>3. CASE ~w.exists
  <2>1. Pending(w)
    <3>1. CASE v.creation
      BY <1>2, <3>1 DEF Pending
    <3>2. CASE ~v.creation
      BY <1>2, <3>2 DEF StreamInv
    <3> QED
      BY <3>1, <3>2
  <2> QED
    BY <1>1, <1>2, <1>3, <2>1 DEF StreamInv, Configured, Guarded, Follows
<1>4. CASE w.exists
  <2>1. w \in Streams
    BY <1>2 DEF Base
  <2>2. codec \in Codecs /\ codec.layers \in TemporalLayers
    BY <2>1, SetupCodecType
  <2> HIDE DEF codec
  <2>3. /\ x \in Streams /\ x.enc = w.enc /\ x.exists = w.exists
        /\ x.initialized = w.initialized /\ x.codec = codec
        /\ x.asked = w.asked /\ x.types = w.types
    BY <2>1, <2>2 DEF Streams
  <2> HIDE DEF x
  <2>4. Base(x)
    BY <1>2, <2>3 DEF Base
  <2>5. Base(y) /\ Configured(y) /\ y.exists
    <3>1. CASE reset
      <4>1. y = ResetEncoder(x, mode, env)
        BY <3>1
      <4> HIDE DEF y, reset
      <4> QED
        BY <1>4, <2>2, <2>3, <2>4, <4>1, ResetEncoderInv
    <3>2. CASE ~reset
      <4>1. y = x /\ w = v
        BY <1>2, <3>2
      <4> HIDE DEF y, reset
      <4> QED
        BY <1>4, <2>3, <2>4, <4>1 DEF StreamInv, Configured
    <3> QED
      BY <3>1, <3>2
  <2> HIDE DEF y
  <2>6. y \in Streams
    BY <2>5 DEF Base
  <2>7. /\ z \in Streams /\ z.enc = y.enc /\ z.exists = y.exists
        /\ z.initialized = y.initialized /\ z.allocator = y.initialized
        /\ z.asked = y.asked /\ z.types = y.types
    BY <2>6 DEF Streams
  <2> HIDE DEF z
  <2>8. Base(z) /\ Configured(z)
    BY <2>5, <2>7 DEF Base, Configured
  <2>9. StreamInv(ReapplyRates(z, mode, how), mode)
    BY <2>5, <2>7, <2>8, ReapplyRatesInv
  <2> QED
    BY <1>1, <1>4, <2>9
<1> QED
  BY <1>3, <1>4

-----------------------------------------------------------------------------
(***************************************************************************)
(* The tasks                                                               *)
(***************************************************************************)
\* ConfigureEncoder asks for an encoder unless there is one of that format.
LEMMA ConfigureEncoderInv ==
    ASSUME NEW v, NEW mode \in CodecModes, StreamInv(v, mode),
           NEW config \in Configs, NEW env \in Environments,
           NEW how \in RateChoices
    PROVE  StreamInv(ConfigureEncoder(v, mode, config, env, how), mode)
<1> DEFINE creation == ~v.exists \/ v.config.format # config.format
           w == [v EXCEPT !.creation = creation, !.config = config,
                          !.configured = TRUE, !.reconfiguration = TRUE]
<1>1. v \in Streams /\ creation \in BOOLEAN
  BY DEF StreamInv, Base
<1>2. ConfigureEncoder(v, mode, config, env, how) =
        IF v.frame = 0 THEN w ELSE ReconfigureEncoder(w, mode, env, how)
  BY DEF ConfigureEncoder
<1>3. ~v.exists => creation
  OBVIOUS
<1> HIDE DEF creation
<1>4. /\ w \in Streams /\ w.enc = v.enc /\ w.exists = v.exists
      /\ w.initialized = v.initialized /\ w.allocator = v.allocator
      /\ w.creation = creation /\ w.asked = v.asked /\ w.types = v.types
      /\ w.rates = v.rates
  BY <1>1 DEF Streams
<1> HIDE DEF w
<1>5. StreamInv(w, mode)
  BY <1>3, <1>4 DEF StreamInv, Base, Pending, Configured, Guarded, Follows
<1> QED
  BY <1>2, <1>5, ReconfigureEncoderInv

\* Members no part of the invariant speaks of.
LEMMA OtherMembersInv ==
    ASSUME NEW v, NEW mode \in CodecModes, StreamInv(v, mode),
           NEW n \in Streams, SameStage(v, n), n.enc = v.enc,
           n.asked = v.asked, n.types = v.types,
           n.rates = v.rates
    PROVE  StreamInv(n, mode)
BY DEF StreamInv, Base, Pending, Configured, Guarded, Follows, SameStage

\* Setting the rates anew.
LEMMA UpdateRatesInv ==
    ASSUME NEW v, NEW mode \in CodecModes, StreamInv(v, mode),
           NEW r \in RateSettings, NEW how \in RateChoices
    PROVE  StreamInv(SetEncoderRates(v, mode,
                        UpdateBitrateAllocation(v, r, how.utilization),
                        how.refused), mode)
<1> DEFINE q == UpdateBitrateAllocation(v, r, how.utilization)
           n == SetEncoderRates(v, mode, q, how.refused)
<1>1. /\ v \in Streams /\ how.utilization \in Utilizations
      /\ how.refused \in BOOLEAN
  BY DEF StreamInv, Base, RateChoices
<1>2. q \in RateSettings /\ (q.bitrate > 0 => v.allocator)
  BY <1>1, UpdateBitrateAllocationType
<1> HIDE DEF q
<1>3. /\ Base(n) /\ Configured(n) /\ Guarded(n) /\ Follows(n, mode)
      /\ SameStage(v, n)
  BY <1>1, <1>2, SetEncoderRatesInv DEF StreamInv
<1> HIDE DEF n
<1>4. Pending(n)
  BY <1>3 DEF StreamInv, Pending, SameStage
<1> QED
  BY <1>3, <1>4 DEF StreamInv, n, q

\* A start bitrate, used by the next reconfiguration only.
LEMMA SetStartBitrateInv ==
    ASSUME NEW v, NEW mode \in CodecModes, StreamInv(v, mode), NEW bps \in Nat
    PROVE  StreamInv(SetStartBitrate(v, bps), mode)
<1> DEFINE n == [v EXCEPT !.start = bps]
<1>1. v \in Streams
  BY DEF StreamInv, Base
<1>2. /\ n \in Streams /\ SameStage(v, n) /\ n.enc = v.enc
      /\ n.asked = v.asked /\ n.types = v.types /\ n.rates = v.rates
  BY <1>1 DEF Streams, SameStage
<1> HIDE DEF n
<1>3. StreamInv(n, mode)
  BY <1>2, OtherMembersInv
<1> QED
  BY <1>3 DEF SetStartBitrate, n

\* A new target, with or without an encoder.
LEMMA OnBitrateUpdatedInv ==
    ASSUME NEW v, NEW mode \in CodecModes, StreamInv(v, mode),
           NEW target \in Nat, NEW link \in Nat, NEW overused \in BOOLEAN,
           NEW how \in RateChoices
    PROVE  StreamInv(OnBitrateUpdated(v, mode, target, link, overused, how), mode)
<1> DEFINE r == [target |-> target, link |-> link, bitrate |-> 0, fps |-> 30,
                 overused |-> overused]
           w == SetEncoderRates(v, mode,
                                UpdateBitrateAllocation(v, r, how.utilization),
                                how.refused)
           start == IF target = 0 THEN w.start ELSE target
           n == [w EXCEPT !.start = start, !.signal = overused]
<1>1. r \in RateSettings
  BY DEF RateSettings
<1>2. OnBitrateUpdated(v, mode, target, link, overused, how) =
        [w EXCEPT !.start = IF target = 0 THEN @ ELSE target,
                  !.signal = overused]
  BY DEF OnBitrateUpdated
<1> HIDE DEF r
<1>3. StreamInv(w, mode)
  BY <1>1, UpdateRatesInv
<1> HIDE DEF w
<1>4. w \in Streams /\ w.start \in Nat
  BY <1>3 DEF StreamInv, Base, Streams
<1>5. start \in Nat
  BY <1>4
<1>6. OnBitrateUpdated(v, mode, target, link, overused, how) = n
  BY <1>2, <1>4 DEF Streams
<1> HIDE DEF start
<1>7. /\ n \in Streams /\ SameStage(w, n) /\ n.enc = w.enc
      /\ n.asked = w.asked /\ n.types = w.types /\ n.rates = w.rates
  BY <1>4, <1>5 DEF Streams, SameStage
<1> HIDE DEF n
<1> QED
  BY <1>3, <1>6, <1>7, OtherMembersInv

\* A frame for an initialised encoder meets configurations; the request it
\* takes is gone only if Encode succeeded.
LEMMA EncodeVideoFrameInv ==
    ASSUME NEW v, NEW mode \in CodecModes, StreamInv(v, mode),
           NEW i420 \in BOOLEAN, NEW answer \in X264Answers
    PROVE  StreamInv(EncodeVideoFrame(v, i420, answer), mode)
<1>1. CASE ~v.initialized \/ ~v.exists
  BY <1>1 DEF EncodeVideoFrame
<1>2. CASE v.initialized /\ v.exists
  <2> DEFINE e == Encode(v.enc, i420, [i \in 1..MaxStreams |-> v.types], answer)
             g == Read(e)
             types == IF e.ret = "ok" THEN "delta" ELSE v.types
             asked == v.asked /\ e.ret # "ok"
             n == [v EXCEPT !.enc = g, !.encoded = TRUE, !.types = types,
                            !.asked = asked]
  <2>1. /\ v \in Streams /\ EncoderInv(v.enc) /\ v.enc.configurations # << >>
        /\ "no_configuration" \notin v.enc.misuse
        /\ v.types \in {"key", "delta"} /\ v.asked \in BOOLEAN
        /\ v.asked => v.types = "key"
    BY <1>2 DEF StreamInv, Base, Configured, Streams
  <2>2. EncodeVideoFrame(v, i420, answer) = n
    <3> HIDE DEF e
    <3>1. EncodeVideoFrame(v, i420, answer) =
            [v EXCEPT !.enc = g, !.encoded = TRUE,
                      !.types = IF e.ret = "ok" THEN "delta" ELSE @,
                      !.asked = @ /\ e.ret # "ok"]
      BY <1>2 DEF EncodeVideoFrame, e
    <3> HIDE DEF g
    <3> QED
      BY <2>1, <3>1 DEF Streams
  <2>3. EncoderInv(e) /\ Encoded(v.enc, e)
    BY <2>1, EncodeInv, EncodeKeeps
  <2> HIDE DEF e
  <2>4. /\ EncoderInv(g) /\ g.misuse = e.misuse
        /\ g.configurations = e.configurations /\ g.encoder = e.encoder
        /\ g.param = e.param
    BY <2>3, ReadInv
  <2>5. /\ "no_configuration" \notin g.misuse /\ g.configurations # << >>
        /\ Live(g) => /\ Live(v.enc) /\ g.param = v.enc.param
                      /\ g.configurations[1].sending
                            = v.enc.configurations[1].sending
    BY <2>1, <2>3, <2>4 DEF Encoded, Live
  <2> HIDE DEF g
  <2>6. /\ types \in {"key", "delta"} /\ asked \in BOOLEAN
        /\ asked => types = "key"
    BY <2>1
  <2> HIDE DEF types, asked
  <2>7. g \in Encoders
    BY <2>4 DEF EncoderInv
  <2>8. /\ n \in Streams /\ n.enc = g /\ SameStage(v, n)
        /\ n.asked = asked /\ n.types = types /\ n.rates = v.rates
    BY <2>1, <2>6, <2>7 DEF Streams, SameStage
  <2> HIDE DEF n
  <2>9. StreamInv(n, mode)
    BY <1>2, <2>4, <2>5, <2>6, <2>8
       DEF StreamInv, Base, Pending, Configured, Guarded, Follows, SameStage
  <2> QED
    BY <2>2, <2>9
<1> QED
  BY <1>1, <1>2

\* A frame: reconfigures if its size is new, updates the rates if it is time.
LEMMA MaybeEncodeVideoFrameInv ==
    ASSUME NEW v, NEW mode \in CodecModes, StreamInv(v, mode), NEW size \in Nat,
           NEW due \in BOOLEAN, NEW env \in Environments,
           NEW how \in RateChoices, NEW i420 \in BOOLEAN,
           NEW answer \in X264Answers
    PROVE  StreamInv(MaybeEncodeVideoFrame(v, mode, size, due, env, how, i420,
                                           answer), mode)
<1> DEFINE w == IF size # v.frame
                THEN [v EXCEPT !.reconfiguration = TRUE, !.frame = size] ELSE v
           r == [w.rates EXCEPT !.fps = GetInputFramerateFps(w, how.known)]
           x == IF w.reconfiguration THEN ReconfigureEncoder(w, mode, env, how)
                ELSE IF due /\ w.rates # NoRates
                THEN SetEncoderRates(w, mode,
                            UpdateBitrateAllocation(w, r, how.utilization),
                            how.refused)
                ELSE w
<1>1. MaybeEncodeVideoFrame(v, mode, size, due, env, how, i420, answer) =
        EncodeVideoFrame(x, i420, answer)
  BY DEF MaybeEncodeVideoFrame
<1>2. StreamInv(w, mode)
  <2> DEFINE n == [v EXCEPT !.reconfiguration = TRUE, !.frame = size]
  <2>1. v \in Streams
    BY DEF StreamInv, Base
  <2>2. /\ n \in Streams /\ SameStage(v, n) /\ n.enc = v.enc
        /\ n.asked = v.asked /\ n.types = v.types /\ n.rates = v.rates
    BY <2>1 DEF Streams, SameStage
  <2> HIDE DEF n
  <2>3. StreamInv(n, mode)
    BY <2>2, OtherMembersInv
  <2> QED
    BY <2>3 DEF n
<1> HIDE DEF w
<1>3. r \in RateSettings
  BY <1>2, CurrentRatesType DEF StreamInv, Base
<1> HIDE DEF r
<1>4. StreamInv(x, mode)
  BY <1>2, <1>3, ReconfigureEncoderInv, UpdateRatesInv
<1> HIDE DEF x
<1> QED
  BY <1>1, <1>4, EncodeVideoFrameInv

\* A request is for an encoder that exists.
LEMMA SendKeyFrameInv ==
    ASSUME NEW v, NEW mode \in CodecModes, StreamInv(v, mode)
    PROVE  StreamInv(SendKeyFrame(v), mode)
<1> DEFINE n == [v EXCEPT !.types = "key", !.asked = TRUE]
<1>1. v \in Streams
  BY DEF StreamInv, Base
<1>2. /\ n \in Streams /\ n.enc = v.enc /\ SameStage(v, n)
      /\ n.types = "key" /\ n.rates = v.rates
  BY <1>1 DEF Streams, SameStage
<1> HIDE DEF n
<1>3. StreamInv(n, mode)
  BY <1>2 DEF StreamInv, Base, Pending, Configured, Guarded, Follows, SameStage
<1> QED
  BY <1>3 DEF SendKeyFrame, n

\* Stop leaves neither encoder nor allocator.
LEMMA StopInv ==
    ASSUME NEW v, NEW mode \in CodecModes, StreamInv(v, mode)
    PROVE  StreamInv(Stop(v), mode)
<1> DEFINE w == [v EXCEPT !.allocator = FALSE]
           x == ReleaseEncoder(w)
           e == NewObject(x.enc, FALSE, NULL)
           n == [x EXCEPT !.enc = e, !.exists = FALSE, !.stopped = TRUE]
<1>1. v \in Streams /\ Base(v)
  BY DEF StreamInv, Base
<1>2. /\ w \in Streams /\ w.enc = v.enc /\ w.asked = v.asked
      /\ w.types = v.types
  BY <1>1 DEF Streams
<1>3. Stop(v) = [x EXCEPT !.enc = NewObject(@, FALSE, NULL), !.exists = FALSE,
                          !.stopped = TRUE]
  BY DEF Stop
<1> HIDE DEF w
<1>4. Base(x)
  <2>1. Base(w)
    BY <1>1, <1>2 DEF Base
  <2> QED
    BY <2>1, ReleaseEncoderInv
<1> HIDE DEF x
<1>5. EncoderInv(e) /\ e.misuse = x.enc.misuse
  BY <1>4, NewObjectInv DEF Base
<1>6. Stop(v) = n
  BY <1>3, <1>4 DEF Base, Streams
<1> HIDE DEF e
<1>7. x \in Streams /\ e \in Encoders
  BY <1>4, <1>5 DEF Base, EncoderInv
<1>8. /\ n \in Streams /\ n.enc = e /\ ~n.exists /\ n.stopped
      /\ n.asked = x.asked /\ n.types = x.types
  BY <1>7 DEF Streams
<1> HIDE DEF n
<1> QED
  BY <1>4, <1>5, <1>6, <1>8
     DEF StreamInv, Base, Pending, Configured, Guarded, Follows

-----------------------------------------------------------------------------
\* Whatever order the tasks of the worker thread, the capturer, the RTCP and
\* the transport queues run in on encoder_queue_, and whatever fails in them,
\* the owner and its encoder satisfy StreamInv between two tasks.
THEOREM Invariance == Spec => []IInv
<1>1. Init => IInv
  <2> SUFFICES ASSUME Init PROVE IInv
    OBVIOUS
  <2>1. PICK config \in Configs : vs = Constructed(config)
    BY DEF Init
  <2> DEFINE e == ConstructedEncoder(FALSE, NULL)
             codec == [size |-> 0, layers |-> 0, fps |-> 30, start |-> 0]
  <2>2. EncoderInv(e) /\ e.misuse = {}
    BY ConstructedInv DEF ConstructedEncoder
  <2>3. codec \in Codecs
    BY DEF Codecs
  <2>4. vs = [enc |-> e, exists |-> FALSE,
     initialized |-> FALSE, allocator |-> FALSE, creation |-> FALSE,
     reconfiguration |-> FALSE, configured |-> FALSE, config |-> config,
     codec |-> codec, frame |-> 0, rates |-> NoRates, start |-> 0,
     types |-> "delta", encoded |-> FALSE, asked |-> FALSE,
     signal |-> FALSE, stopped |-> FALSE]
    BY <2>1 DEF Constructed
  <2> HIDE DEF e, codec
  <2>5. e \in Encoders
    BY <2>2 DEF EncoderInv
  <2>6. vs \in Streams
    BY <2>3, <2>4, <2>5, NoRatesType DEF Streams
  <2>7. /\ vs.enc = e /\ ~vs.exists /\ ~vs.asked /\ ~vs.configured
    BY <2>4
  <2> QED
    BY <2>2, <2>6, <2>7 DEF Init, IInv, StreamInv, Base, Pending, Configured,
                            Guarded, Follows
<1>2. IInv /\ [Next]_vars => IInv'
  <2> SUFFICES ASSUME IInv, [Next]_vars PROVE IInv'
    OBVIOUS
  <2>1. codec_choose \in CodecModes /\ StreamInv(vs, codec_choose)
    BY DEF IInv
  <2>2. ASSUME NEW v, NEW b, NEW c, NEW fps
        PROVE  /\ EnvironmentsFor(v, b, c, fps) \subseteq Environments
               /\ RateChoicesFor(b) \subseteq RateChoices
    BY DEF EnvironmentsFor, RateChoicesFor
  <2>3. CASE ConfigureTask
    BY <2>1, <2>2, <2>3, ConfigureEncoderInv DEF ConfigureTask, IInv
  <2>4. CASE StartBitrateTask
    BY <2>1, <2>4, SetStartBitrateInv, TargetAssumption
       DEF StartBitrateTask, IInv
  <2>5. CASE BitrateTask
    BY <2>1, <2>2, <2>5, OnBitrateUpdatedInv, TargetAssumption DEF BitrateTask, IInv
  <2>6. CASE FrameTask
    BY <2>1, <2>2, <2>6, MaybeEncodeVideoFrameInv, SizesAssumption
       DEF FrameTask, IInv
  <2>7. CASE KeyFrameTask
    BY <2>1, <2>7, SendKeyFrameInv DEF KeyFrameTask, IInv
  <2>8. CASE StopTask
    BY <2>1, <2>8, StopInv DEF StopTask, IInv
  <2>9. CASE UNCHANGED vars
    BY <2>1, <2>9 DEF vars, IInv
  <2> QED
    BY <2>3, <2>4, <2>5, <2>6, <2>7, <2>8, <2>9 DEF Next, Terminated
<1> QED
  BY <1>1, <1>2, PTL DEF Spec

\* SetRates never reaches an encoder whose InitEncode failed: an allocator next
\* to an encoder means the encoder is initialised.
THEOREM AllocatorGuards == Spec => []AllocatorOnlyWhenInitialized
<1>1. IInv => AllocatorOnlyWhenInitialized
  BY DEF IInv, StreamInv, Guarded, AllocatorOnlyWhenInitialized
<1> QED
  BY <1>1, Invariance, PTL

\* ReconfigureEncoder never dereferences a null encoder_: a configured stream
\* without one is about to create it.
THEOREM CreationStaysPending == Spec => []MissingEncoderIsPending
<1>1. IInv => MissingEncoderIsPending
  BY DEF IInv, StreamInv, Pending, MissingEncoderIsPending
<1> QED
  BY <1>1, Invariance, PTL

\* A rate SetEncoderRates holds back as already sent has reached the encoder,
\* whose layer sends, and is in force in x264 unless x264 refused it, across
\* reconfigurations, pauses and failed initialisations.
THEOREM CacheTellsTheTruth == Spec => []EncoderFollowsRates
<1>1. IInv => EncoderFollowsRates
  BY DEF IInv, StreamInv, Base, EncoderInv, Follows, EncoderFollowsRates
<1> QED
  BY <1>1, Invariance, PTL

\* No key frame request is lost before an Encode call has taken it.
THEOREM RequestSurvives == Spec => []KeyRequestKept
<1>1. IInv => KeyRequestKept
  BY DEF IInv, StreamInv, Base, KeyRequestKept
<1> QED
  BY <1>1, Invariance, PTL

\* Encode and SetRates never run on an object without configurations, however
\* often it is released, refused, destroyed and created anew.
THEOREM ConfiguredUse == Spec => []NoUnconfiguredUse
<1>1. IInv => NoUnconfiguredUse
  BY DEF IInv, StreamInv, Base, NoUnconfiguredUse
<1> QED
  BY <1>1, Invariance, PTL

\* The finding of OveruseSignalFollowed is confined to the modes from 4 on, which
\* read the signal: in every other one (2 original, 3 Salsify) the VBV buffer of
\* a rate the encoder was given is the one SetRates would give it now, whatever
\* signals the comparison of rate control parameters has held back, and x264 has
\* it unless it refused it.
THEOREM OnlyAdaptiveModesStale ==
    Spec => [](codec_choose < 4 /\ vs.exists /\ vs.initialized /\ Live(vs.enc)
                 /\ vs.rates.bitrate > 0 /\ vs.rates.fps >= 1 =>
                    /\ vs.enc.param.vbv =
                            VbvSize(vs.enc.param.kbps,
                                    VbvPercent(codec_choose, vs.signal))
                    /\ ~vs.enc.refused => vs.enc.lib = vs.enc.param)
<1> DEFINE Buffer ==
      codec_choose < 4 /\ vs.exists /\ vs.initialized /\ Live(vs.enc)
        /\ vs.rates.bitrate > 0 /\ vs.rates.fps >= 1 =>
            /\ vs.enc.param.vbv = VbvSize(vs.enc.param.kbps,
                                          VbvPercent(codec_choose, vs.signal))
            /\ ~vs.enc.refused => vs.enc.lib = vs.enc.param
<1>1. IInv => Buffer
  <2> SUFFICES ASSUME IInv, codec_choose < 4, vs.exists, vs.initialized,
                      Live(vs.enc), vs.rates.bitrate > 0, vs.rates.fps >= 1
               PROVE  /\ vs.enc.param.vbv =
                            VbvSize(vs.enc.param.kbps,
                                    VbvPercent(codec_choose, vs.signal))
                      /\ ~vs.enc.refused => vs.enc.lib = vs.enc.param
    OBVIOUS
  <2>1. PICK overused \in BOOLEAN :
          vs.enc.param.vbv =
            VbvSize(vs.enc.param.kbps, VbvPercent(codec_choose, overused))
    BY DEF IInv, StreamInv, Follows, BufferOfMode
  <2>2. codec_choose \in 0..5
    BY ModesAssumption DEF IInv
  <2>3. VbvPercent(codec_choose, overused) = VbvPercent(codec_choose, vs.signal)
    BY <2>2 DEF VbvPercent
  <2>4. ~vs.enc.refused => vs.enc.lib = vs.enc.param
    BY DEF IInv, StreamInv, Base, EncoderInv
  <2> QED
    BY <2>1, <2>3, <2>4
<1> QED
  BY <1>1, Invariance, PTL

\* Under its owner, too, the encoder keeps the invariant of the object: no
\* dangling handle, x264 in step with param_ unless it refused it, a VBV buffer
\* that holds a frame and no picture thrown away, for the rates and instances
\* the owner computes.
THEOREM ObjectUnderOwner == Spec => []EncoderInv(vs.enc)
<1>1. IInv => EncoderInv(vs.enc)
  BY DEF IInv, StreamInv, Base
<1> QED
  BY <1>1, Invariance, PTL

=============================================================================
