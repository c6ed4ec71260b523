# A TLA+ model of the MAE encoder in WebRTC

MAE (More Adaptive Encoder) is a WebRTC tree in which the H.264 encoder runs on
x264 and narrows its VBV buffer when the congestion controller sees the delay
grow. This directory specifies the parts the repository adds or changes and the
loop around them: from the packets a receiver acknowledges over the delay
detector, the rate control, the transport controller, the bitrate allocator and
the send stream to the encoder, the way of frames into the encoder, and the
receiver's requests for lost packets. What they do is written from the source as
TLA+, checked with TLC on small instances and, for the parts of section 5, proved
with TLAPS for every instance.

## 1. Inventory

| Part | State | Operations | Hard because |
|---|---|---|---|
| `H264EncoderImpl` (`modules/video_coding/codecs/h264/h264_encoder_impl.cc`) | `inited_`, `encoder_` (x264 handle), callback, one `LayerConfig` and one SVC controller per stream, `param_`, `pic_`; in x264: open handles, their rate control | constructor, `InitEncode`, `Release`, `RegisterEncodeCompleteCallback`, `SetRates`, `Encode` | two members are left uninitialised; errors return in the middle of a loop; the handle, `inited_` and the configurations are reset on different paths; the rate control exists twice |
| Temporal structures (`modules/video_coding/svc/scalability_structure_full_svc.cc`) | last pattern | `NextFrameConfig`, `OnEncodeDone` | advanced by one call, stored by another; the encoder always answers with layer 0 |
| `VideoStreamEncoder` (`video/video_stream_encoder.cc`) | owned encoder, `encoder_initialized_`, pending creation and reconfiguration, rate allocator, `send_codec_`, `last_encoder_rate_settings_`, `next_frame_types_` | tasks of `encoder_queue_`: `ConfigureEncoder`, `ReconfigureEncoder`, `SetStartBitrate`, `OnBitrateUpdated`, `OnFrame` → `MaybeEncodeVideoFrame` → `EncodeVideoFrame`, `SendKeyFrame`, `Stop` | tasks of unsynchronised threads in any order; cached rates decide whether the encoder is told; the factory and `InitEncode` may fail half way |
| `SimulcastRateAllocator`, `EncoderBitrateAdjuster`, `RateControlParameters` | overshoot detectors of the adjuster | `Allocate`, `AdjustRateAllocation`, `operator==` | limits, truncation to kbit/s, rates lowered by what the encoder overshoots; the comparison is the gate of the rate updates |
| `TrendlineEstimator` (`modules/congestion_controller/goog_cc/trendline_estimator.cc`) | window of delays, threshold, hypothesis, overuse ratio | `Update`, `Detect`, `UpdateThreshold` | window by duration; adaptive threshold; two detectors with one threshold |
| `InterArrivalDelta` (`goog_cc/inter_arrival_delta.cc`) | current and previous group of packets, count of disordered packets | `ComputeDeltas`, `Reset` | packets come reordered, in bursts, after jumps of either clock |
| `DelayBasedBwe`, `AimdRateControl`, `LinkCapacityEstimator` | rate, state (hold, increase, decrease), throughput, link capacity, ages, last reported rate and use | `IncomingPacketFeedbackVector`, `OnRttUpdate`, `SetStartBitrate`, `SetMinBitrate`, `Update` | the rate depends on how long ago things happened; some times are infinite; a change that is not reported is lost |
| `GoogCcNetworkController`, `CongestionControlHandler`, `RtpTransportControllerSend` | last values sent, last pushback rate, last incoming and last reported message, availability, pacer queue | feedback, sent packet, process interval, route change, availability, periodic queue update | three gates in a row drop what they take for unchanged; none compares the overuse signal |
| `BitrateAllocator` (`call/bitrate_allocator.cc`) | tracks with their last allocation, last target, limits | `OnNetworkEstimateChanged`, `AddObserver`, `RemoveObserver`, `UpdateStartRate`, `GetStartBitrate` | integer shares with three ways to allocate, hysteresis over calls |
| `VideoSendStreamImpl` (`video/video_send_stream_impl.cc`) | registration, rate of the encoder, activity, time-out, padding | start, stop, `OnBitrateUpdated`, `OnEncodedImage`, `OnEncoderConfigurationChanged`, activity check | tasks of the encoder's thread arrive after a stop; a rate must not overtake another |
| `FrameCadenceAdapterImpl` (`video/frame_cadence_adapter.cc`) | mode, queued frames, scheduled repeat, layers' quality, frames in flight | `OnFrame`, `OnConstraintsChanged`, `SetZeroHertzModeEnabled`, delayed tasks, `ProcessKeyFrameRequest`, layer updates | two threads, delayed tasks that outlive their frame, a mode two callers judge in different ways |
| `NackRequester` (`modules/video_coding/nack_requester.cc`) | list of missing packets with their tries, key frames, recovered packets | `OnReceivedPacket`, `ClearUpTo`, `ProcessNacks` | loss, repetition, reordering and wrap-around of 16 bit numbers |
| Settings (`rtc_base/helpers.cc`), local video program, signalling server, scripts | global flags, sockets, windows | command line, HTTP | I/O |

How they interact: `InterArrivalDelta` groups the acknowledged packets, the
`TrendlineEstimator` turns the deltas of two groups into a network state and an
overuse ratio, and `DelayBasedBwe` into a rate. `GoogCcNetworkController` sends a
target rate with the ratio when a rate, the pushback of its congestion window or the
loss has changed;
`CongestionControlHandler` sets it to 0 while there is no network or the pacer is
behind; `BitrateAllocator` divides it, and `VideoSendStreamImpl` hands its share
to `VideoStreamEncoder::OnBitrateUpdated`, which runs on the encoder queue, splits
the rate with its own allocator and calls `SetRates` of the encoder if the cached
settings differ. The rate is divided before by what the encoder overshoots (the
bitrate adjuster, on by default). Frames arrive on the same queue from the capturer's thread over
the cadence adapter, and key frame requests from RTCP; a receiver that misses
packets asks for them, and for a key frame when it misses too many. The codec mode
(`codec_choose`: 2 x264 original, 3 Salsify, 4 adaptive, 5 CBR) is a process-wide
flag, set before the call starts.

What makes each part correct: the encoder never uses a handle that is closed,
runs x264 with the rates it believes in, gives it a buffer a frame fits in and
loses no picture; its owner never calls an encoder that is missing or not
initialised, keeps its cache of rates equal to what the encoder runs with, loses
no key frame request, and passes the overuse signal on; the delay detector tells
the encoder of every overuse it tells the congestion controller of, not later,
and of none it has no fitted line for; the deltas add up; the rate never grows in
an overuse and is never changed behind the controller's back; what the streams are
told is the target in force, they share no more than it, and a stopped or
disconnected stream falls silent; frames reach the encoder in order and the
picture never freezes; a missing packet is asked for until it comes, is given up
or is no longer needed. The places where this is
hard to test are listed, line by line, under `hazards` in `PROJECT.json`.

## 2. Modules

| Module | Models |
|---|---|
| `H264Object` | the encoder object as a value: every method is an operator from the record before a call to the record after it, x264's own state included |
| `H264Encoder` | that object under any caller: one action per method, any order, any parameters, any failure of x264 |
| `MCH264Encoder` | constants for TLC |
| `H264ObjectProofs` | what each method preserves: `EncoderInv`, one lemma per method |
| `H264EncoderProofs` | the theorems about `H264Encoder` |
| `VideoStreamEncoder` | the owner: one action per task of the encoder queue, calling the operators of `H264Object` |
| `MCVideoStreamEncoder` | constants for TLC, the symmetry of the formats |
| `VideoStreamEncoderProofs` | the theorems about `VideoStreamEncoder`, from the lemmas of `H264ObjectProofs` |
| `TrendlineEstimator` | the delay detector, and its replacement by `DelayBasedBwe` after a time-out |
| `MCTrendline` | constants for TLC |
| `InterArrivalDelta`, `MCInterArrivalDelta` | the grouping of packets in front of the delay detector |
| `DelayDetectorProofs` | the theorems about `TrendlineEstimator` and `InterArrivalDelta` |
| `AimdRateControl` | the rate control with its estimate of the link capacity, as operators on a record |
| `DelayBasedBwe`, `MCDelayBasedBwe` | the delay based estimate under the calls of `GoogCcNetworkController`; extends `AimdRateControl` |
| `DelayBasedBweProofs` | the theorems about `DelayBasedBwe` |
| `TransportControl` | an estimate on its way through the gates of the controller, the handler and the allocator to a stream |
| `BitrateAllocator`, `MCBitrateAllocator` | the division of the target among the streams |
| `VideoSendStream` | the send stream between the allocator and the encoder queue |
| `VideoSendStreamProofs` | the theorems about `VideoSendStream` |
| `FrameFeed` | abstract: every captured frame is delivered, in order, except those held back when the mode is left |
| `FrameCadenceAdapter` | the cadence adapter in detail; implements `FrameFeed` |
| `FrameCadenceAdapterProofs` | the theorems about `FrameCadenceAdapter`, the refinement step by step |
| `NackRequester` | the receiver's requests for lost packets, with the network that loses, repeats and reorders |
| `TransportProofs` | the theorems about `TransportControl` and `NackRequester` |

Methods are operators on values because a handler of the owner makes several
calls of the encoder in one task: `ReconfigureEncoder` releases, initialises,
registers the callback and sets the rates, and all of it is one step of the
model, as it is one task of the queue.

### H264Object and H264Encoder

The record `enc` holds the members (`inited`, `encoder`, `callback`,
`configurations`, `param`, `pic`) and the part of x264's state the calls change:
`opened` and `open` (handles returned, handles not closed), `alloc` (planes
allocated and not freed), `lib` (rate control the current handle runs with),
`fresh` (no picture encoded yet), `refused` (the handle did not take the last
`x264_encoder_reconfig`). `SetRates` ignores the result of that call, which x264 may
refuse for parameters it does not accept, 0 kbit/s or an empty buffer among them, or
not copy into the handle (`x264.h:938-951`): the environment decides each time, and
the handle takes the rate control as a whole or not at all, while `param_` has it in
either case. `LibraryInSync` and `EncoderFollowsRates` say what then still agrees: the
object always, the handle unless it refused. `out` is what the last `Encode` gave to the
callback, `ret` what the last call returned, `misuse` which rules of x264's or
the vector's contract have been broken, `alive` whether one of them has ended the
process. `encoder` is `NULL`, a handle 1, 2, ... or `Garbage`: the constructor
initialises neither `encoder_` nor `inited_`, so `Init` starts with every
combination. Reading `configurations_[0]` after `Release` traps in a hardened
build and reads a destroyed element in any other; `HardenedVector` selects the
build.

What is abstracted: pictures, QP and NAL units; frame sizes; the overuse ratio,
of which only `> 2.0` is used (a Boolean); bitrates are numbers and keep the
truncations of the code (`bps / 1000`, `kbps * ratio` to `int`). A temporal
structure is its last pattern.

### VideoStreamEncoder

The record `vs` holds the members named in the inventory (`exists` for
`encoder_ != nullptr`, `creation` and `reconfiguration` for the two pending
flags, `codec` for `send_codec_`, `rates` for `last_encoder_rate_settings_`,
`types` for `next_frame_types_`), the object `enc`, and two history fields:
`asked`, a key frame request no `Encode` has taken, and `signal`, the last overuse
value received. Its environment decides whether the factory returns an encoder,
what memory the new object has, which x264 call fails and what the
uninitialised overuse value of `InitEncode`'s own `SetRates` is. There is one
active simulcast stream; a configuration is a format, a number of temporal
layers and a frame rate limit. `EncoderPaused` and
`DropDueToSize` return false in this tree, so `pending_frame_` is never set and
there is no dropping to model.

Whenever rates are applied the environment also decides (`how`) what utilisation the
overshoot detectors of the bitrate adjuster have measured, whether the cadence
adapter knows an input frame rate, and whether x264 refuses the rates.
`AdjustRateAllocation` divides the allocation by the utilisation, between 100 and 200
percent after the limits of the code, with its rounding and the minimum of the stream;
the bandwidth allocation is not divided, so the two differ. `GetInputFramerateFps` is
30 once frames have come in and the limit of the configuration before, and the frame
rate is compared with the cached one. A limit of 0 is refused by `InitEncode`, ignored
by `SetRates` and asserted against in debug builds (`video_codec_initializer.cc:104`,
`video_stream_encoder.cc:1691`), so the model is of a release build there. The stable
target is left out: neither the comparison of the cache nor the allocation of one
stream reads it. The frame drop interval of the congestion window is never set in this
tree (`UpdateTargetBitrate` clears the ratio), so no frame is dropped for it.

### TrendlineEstimator

The record `est` holds the members (`deltas` for `num_of_deltas_`, `window` for
the arrival times in `delay_hist_`, `threshold`, `update` for `last_update_ms_`,
`prevTrend`, `timer` for `time_over_using_`, `counter` for `overuse_counter_`,
`hypothesis`, `aggressive` for `hypothesis_aggresive_`) and one history field:
`fit`, the size of the window of the last fit. `Update` is a packet that completes
a group, through `UpdateTrendline`, `Detect` and `UpdateThreshold` in one step;
`TimeOut` is the new detector of `IncomingPacketFeedback`.

Trends and thresholds are integers in hundredths, the timer counts half
milliseconds (a first sample counts half), and a threshold step is rounded down to
a hundredth. The ratio for the encoder is only compared with 2.0, so it has three
values; with `kAggressiveRatio` 0.5, above 2.0 means a modified trend above the
threshold. The delays in the window are arbitrary, so a fit has any slope of
`Slopes`; the slope is not taken when all samples have one arrival time, as in
`LinearFitSlope`. The optional cap only lowers a slope, which the choice covers;
what the cap reads is described in section 4. The optional sort of the window
is off, as by default, so arrival times need not increase: the packets of a
feedback message are sorted, those of two messages are not.

### InterArrivalDelta

`current` and `prev` are the two groups, `reordered` the counter; times are
milliseconds of three clocks (send, arrival, feedback). `Packet` is one call of
`ComputeDeltas`, split by its early returns; packets of one message come sorted by
arrival, messages in order. `base` and `sum` are history: where the reported
deltas start and what they add up to. Packet sizes are left out, no one reads the
size delta. The specification is `DeltaSpec`: a proof module extends this one and
`TrendlineEstimator`, so their names are disjoint.

### AimdRateControl and DelayBasedBwe

The record `rc` holds the members of `AimdRateControl` and the link capacity;
points in time are ages, counted up to `MaxAge` and `None` for infinity.
Rates are bit/s, the capacity kbit/s as in the code; the weighted averages and the
exponent of the multiplicative increase are integer arithmetic, and whether a
throughput is outside of three deviations is computed for the smallest and the
largest deviation the code allows (`Deviations`). A feedback message leaves the
detector in any state and may bring an acknowledged rate and a probe result.
Constraints, streams' minima, round trip times and route changes are the other
actions. Default field trials, no network state estimator, no audio detector.

### TransportControl

`incoming` and `reported` are the last messages of the controller and of the
handler; a message is target, link capacity, loss with round trip time as one
value, and the overuse signal. The `last_` members the controller compares with are
the fields of its last message, so the model needs no copies of them, except for
`pushback`, which no message carries. The congestion window is on, as by default
(`QueueSize:350,MinBitrate:30000,DropFrame:true`, `rate_control_settings.cc:31`): the
pushback rate lies between the minimum and the target, it bounds the stable rate, and a
change of it alone is a reason to send a message. With `DropFrame` the message keeps
the target; the ratio it carries besides is cleared by the encoder's owner. How full the
window is comes from outside, so an estimate is any target, pushback and stable rate in
that order. `OnSentPacket` looks for a change at every packet. `told` is
what one registered stream has heard last.

### BitrateAllocator

`tracks` is the list of observers with configuration, last allocation and media
ratio. Each way to allocate (`Zero`, `Low`, `Normal`, `MaxRateAllocation`) is an
operator with the sorting, the integer divisions and the carry over of the code;
what an observer answers about its protection rate is an input. Rates are kbit/s.

### VideoSendStream

A rate is above 0 or not. `worker` holds the tasks the encoder's thread has posted,
`encoder` the rates posted to the encoder queue, `heard` the rate the encoder has.
The allocator is what it promises: no target, no rate; with one, a stream that may
be suspended can still get 0. `CheckEncoderActivity` is the repeated task with both
of its outcomes. Whether the source delivers frames is the environment's choice.

### FrameFeed and FrameCadenceAdapter

`FrameFeed` is what the encoder may expect: captured frames are delivered in order,
each once as a new frame, and all of them in the end unless the mode that holds
frames back is left. `FrameCadenceAdapter` has both modes, the switch between them,
the capturer's thread, which counts a frame and posts it in two steps, the delayed
tasks for frames and repeats, key frame requests and layer updates; the end of
`VideoStreamEncoder::OnFrame` is included: it drops a frame when more are counted, and
one whose NTP time is not later than that of the frame before it, with nothing behind
it (`video_stream_encoder.cc:1538`). `outcome` tells the two apart; the times of frames
are the capturer's and a repeat has that of its frame or a new one, so any frame but the
first may be old. The refinement maps `pending` to the set of frames held back or
posted (`InFlight`) and `holding` to the zero hertz mode. Delays are left out: a delayed task runs at any
time after it was posted.

### NackRequester

The record `nacker` holds the members; `top`, `arrived`, `keys`, `tries`, `complete`
and `requested` are the network's side, counted without end, so that a property can
tell a packet from its successor one wrap later. `SeqMod` stands for 2^16. Whether
the round trip time or the delay of a new entry has passed is a choice at each
batch. `ClearUpTo` follows a frame that has become continuous. The specification is
`NackSpec`.

The bounds on the network are those within which 16 bit numbers can work at all, in
terms of half a round of them: a late packet is less than half a round behind (it is
not classified as late otherwise), the newest packet is less than half a round ahead
of the last complete frame (`MaxIncomplete`; `recovered_list_` is pruned by `ClearUpTo`
and by recovered packets only, never by new ones), and a jump is at most
`kMaxPacketAge`, 10000 in the code (a recovered packet further back is forgotten while
packets before it are still missing).

## 3. Runs

| Run | Shows |
|---|---|
| `h264_encoder` | under any caller: `NoDanglingHandle`, `LibraryInSync`, `NoPictureDiscarded` although the encoder answers with layer 0 only, `VbvHoldsOneFrame` |
| `video_stream_encoder` | under the owner: `AllocatorOnlyWhenInitialized`, `MissingEncoderIsPending`, `EncoderFollowsRates`, `KeyRequestKept`, `NoUnconfiguredUse` |
| `trendline` | `OveruseReachesEncoder` and `EncoderSignalLeads`: the ratio for the encoder is above 2.0 during every overuse, and one sample before it is declared; `UsageRestsOnFit`; the threshold keeps its limits (`TypeOK`) |
| `inter_arrival` | `GroupsApart`: two groups that are compared were sent apart; `DeltasTelescope`: the deltas add up to the distance of the groups, none is lost or counted twice |
| `delay_based_bwe` | `IncreaseDefined`: the increase always has a rate and a time to compute with; `ChangesReported`; `OveruseNeverRaises`; `RecoversGently`: no jump after a hold |
| `bitrate_allocator` | `WithinTarget`, `PausedOrMinimum` (enforced minima included), `StartRateKnown`, and among equal streams `ResumeWithHysteresis` |
| `transport_control` | `TargetInForce` through all orders of estimates, pauses and availability; the first message exists with the controller (`TypeOK`); live: `SignalDelivered` if the target, the loss or the round trip time keeps changing, `PauseEnds` |
| `video_send_stream` | `RegisteredOnlyWhileActive` with tasks in flight, `EncoderFollows`: no rate overtakes another and a stopped stream is told 0; live: `LostNetworkSilences`, `ProducingRegisters` |
| `frame_cadence` | `AdapterMatchesMode`, `TasksMatchFrames`: every delayed task finds its frame, `NeverFrozen`, `DroppedForNewer`; `FeedsFrames`: the refinement of `FrameFeed`, liveness included |
| `nack_requester` | `ArrivedNotListed` and `MissingListed` across the wrap, `TriesLimited`; live: `ListEmpties` |
| `h264_release` | violated: `Release` leaks the handle |
| `overuse_signal` | violated: an overuse signal with an unchanged bitrate does not reach the encoder |

The two violated properties state what the interface and a comment say; the lines
are quoted under `findings` in `PROJECT.json`.

Bounds. `h264_encoder`: modes 3 to 5 (mode 2 is mode 4 without an overuse), one or
two streams, one or three temporal
layers, rates 0, 999 and 149000 bit/s, which are the edges of the
conversions (no rate, below 1 kbit/s, and one whose 40 ms buffer, truncated to kbit,
only just holds a frame), and `MaxOpens = 2` handles, enough for a second
initialisation and for a loop that fails at its second stream; every reconfiguration
may be refused.
`video_stream_encoder`: mode 4, two formats (so that an encoder is replaced),
rates 0 and 200 kbit/s with a limit of 150 (so that a rate is cut and the
bitrate and the link rate differ), utilisations of 100 and 120 percent (none, and the
one the adjuster assumes before it has measured, so that an unchanged target gives a
changed rate), frame rates 0 and 30 (refused and accepted), two handles (an encoder and its successor), one
frame size: a second size adds no transition a second format does not give.
`MaxOpens` bounds `InitEncode` in the guards, nothing else is cut off. Deadlock is
checked: a process that has ended stutters in `Terminated`. The formats are
symmetric: they are only compared with each other.
`trendline`: slopes that give modified trends far below the negative threshold,
below half of it, between half and all of it, and above it, the third of these
depending on how many deltas are counted; arrivals 20 ms before, 40 ms and
110 ms after the last one (reordered, within the window, emptying it); send deltas
of -1, 3 and 24 ms (a group that begins before the end of the last one; an overuse
waits for the timer, or for the counter). `kMinNumDeltas` and
`kDeltaCounterMax` are 3 and 4 instead of 60 and 1000, so that both limits are
reached within `MaxSamples = 8`, the bound on a behaviour's samples; eight samples
are enough for an overuse, its end and a second one, with time-outs in between.

`inter_arrival`: the constants of the code; send times within a group, in three
later ones, arrivals that burst, pause and jump by more than the offset threshold,
three feedback messages. No bound beyond the sets.
`delay_based_bwe`: a rate near the minimum and one whose additive increase exceeds
its floor, times within and beyond the reduction interval and beyond
`kInitializationTime`; `MaxMessages = 4` messages are a first estimate, an overuse, a
hold and an increase, with constraints and route changes anywhere in between.
`bitrate_allocator`: up to three observers of four kinds (audio with an enforced
minimum, a small and a large video stream, a prioritised one), targets from 0 over
values below, at and above the sums of minima to more than all can use. The
observers are symmetric; the run has no liveness property.
`transport_control`: two targets and two values of loss, everything else unbounded.
`video_send_stream`: three tasks and three rates in flight, enough for a stop, a
start and a task from before both; a suspended stream is possible.
`frame_cadence`: four frames, two layers, two waiting tasks, key frame requests up
to the third frame id.
`nack_requester`: 16 sequence numbers, packets 14 to 20, so that the numbers wrap
while both halves are in the lists; jumps of one and three packets, packets up to
two late, two entries and two tries, so that every limit is reached. The run may
stop when packet 20 has come and nothing is missing, so deadlock is not checked.

Fairness. The encoder's, the detector's, the rate control's and the allocator's runs
assume none. `video_send_stream`: both task queues run what was posted, the activity
check is a repeating task, and a source that delivers makes the encoder produce;
where the bound on one queue can disable a step of the other thread the fairness is
strong, since the real queues have no bound. `transport_control`: the task that
updates the pacer's queue repeats. `frame_cadence`: the encoder queue runs its tasks,
delayed ones for frames included; nothing is assumed about the capturer.
`nack_requester`: `ProcessNacks` is a repeating task. No fairness is assumed about the
network, the capturer or the peers; where a property needs their help it is an
assumption of the property (`SignalDelivered`: what the handler compares keeps changing).

## 4. Where the code differs from its comments

Met while modelling, besides the two findings; the models follow the code.

- `h264_encoder_impl.cc:664`: after a failed encode, `x264_picture_clean` is called on
  planes of the video frame; `x264.h:918`: "allocated with x264_picture_alloc ONLY".
- `h264_encoder_impl.cc:633`: a requested key frame sets `b_keyframe`, which `x264.h:877`
  documents as "Out: whether this frame is a keyframe."; x264 chooses the type.
- `h264_encoder_impl.cc:527`: `codec_mode >= 4` catches mode 5, so the constant bitrate
  mode ("5: CBR", `flag_defs.h:56`) gets the buffer of the adaptive one.
- `h264_encoder_impl.cc:551`: the result of `x264_encoder_reconfig` is ignored, so after a
  refusal `param_` and x264 differ until a later call; `x264.h:943`: "returns 0 on success,
  negative on parameter validation error".
- `video_stream_encoder.cc:2051`: `encoder_failed_` is never set, so a failed encoder is
  given the next frame; line 1909: "If the encoder fail we can't continue to encode
  frames."
- `video_stream_encoder.cc:1615`: frames are encoded while the rate is 0; line 1607:
  "Pause video if paused by caller or as long as the network is down".
- `trendline_estimator.cc:242`: a fit may have two samples; the optional
  `ComputeSlopeCap` takes seven from each end.
- `inter_arrival_delta.cc:73`: the counter counts packets behind one disordered group;
  `inter_arrival_delta.h:26`: "After this many packet groups received out of order".
- `aimd_rate_control.cc:138`: the guard compares half the rate with half the rate less
  one, so every message of an overuse without an acknowledged rate halves it;
  `delay_based_bwe.cc:229`: "Reduce send rate by 50% every 200 ms."
- `bitrate_allocator.cc:215`: streams of unequal weight can resume without the
  hysteresis; line 38: "Require a bitrate increase of max(10%, 20kbps) to resume
  paused streams."
- `bitrate_allocator.cc:325`: a target of 0 pauses streams with an enforced minimum too;
  `bitrate_allocator.h:55`: "True means track may not be paused by allocating 0 bitrate".
- `video_send_stream_impl.cc:386`: an idle encoder whose rate is 0 at the check is not
  deregistered later, because `timed_out_` stays set; line 383: "If the encoder has not
  produced anything the last kEncoderTimeOut and it is supposed to, deregister".
- `nack_requester.cc:229`: `ClearUpTo` forgets packets recovered ahead of the newest one,
  which are asked for again; line 284: "Do not send nack for packets that are already
  recovered by FEC or RTX".

## 5. Proofs

### The encoder object

Assumptions: the `ASSUME`s of `H264Object` and `H264Encoder`, that is: modes in
0..5, bitrates natural numbers, up to three temporal layers, at least one stream.
`MaxOpens`, `MaxStreams`, the sets of rates and layers are arbitrary.

`EncoderInv(e)` in `H264ObjectProofs` is the inductive invariant of the object:

- the record is well formed;
- a live handle (neither `NULL` nor `Garbage`) is in `open`, at most `opened`, and
  the object has configurations and, unless x264 refused the last reconfiguration,
  equal `param` and `lib`;
- a sending configuration on a live handle has a key frame request. This is what
  makes the discarding branch of `Encode` unreachable: every frame restarts the
  temporal structure, so its temporal id is 0;
- the buffer x264 runs with is large enough at 125 kbit/s and above: a refusal keeps
  the rate and the buffer of an earlier call together;
- the last output was not discarded.

`NoDanglingHandle` alone is not inductive: a handle opened later could be equal to
a closed one unless handles are bounded by `opened`, and `NoPictureDiscarded` says
nothing about the next frame. Each method has a lemma that it preserves
`EncoderInv` (`ReleaseInv`, `RegisterInv`, `SetRatesInv`, `InitEncodeInv`,
`EncodeInv`); `Invariance` combines them, one step per action, and `TypeCorrect`,
`HandleSafety`, `RateControlInSync`, `AllPicturesDelivered` and `VbvSufficient`
follow. They are facts about the model for every value of the constants; TLC shows
the same properties on the bounded instance. The lemmas take any natural rates
(`AnyRates`, `AnyInstances`), not only those of `TargetBps`, as the owner computes
rates of its own.

### The owner of the encoder

Assumptions: those of `H264Object`, sizes and limits natural numbers with
`MinKbps <= MaxKbps`, utilisations of 100 to 200 percent; formats, sizes, rates,
limits, frame rates, the number of handles and the
kind of `std::vector` are arbitrary.

`StreamInv(v, mode)` of `VideoStreamEncoderProofs` has five parts:

- `Base`: types, `EncoderInv` of the object, no use without configurations so far, a
  request that is kept;
- `Pending`: a configured stream without an encoder is about to create one;
- `Configured`: an encoder that is initialised has configurations. No run states it;
  it is what makes `NoUnconfiguredUse` inductive;
- `Guarded`: an allocator next to an encoder means that it is initialised;
- `Follows`: the object has the rate of the cache and a buffer of the mode, and sends;
  x264 has the same unless it refused it, by `EncoderInv`.

`Configured`, `Guarded` and `Follows` are false in the middle of a reconfiguration,
which replaces the object, gives itself an allocator and only then initialises. The
lemmas follow the stages: `CreateEncoderInv` and `ReleaseEncoderInv` keep only `Base`;
`ResetEncoderInv` restores `Configured`; the assignment of the allocator restores
`Guarded`; `ReapplyRatesInv` restores `Follows` from an emptied cache, whatever was in
it; `ReconfigureEncoderInv` joins them for the three ways through (no encoder, reset,
no reset). `SetEncoderRatesInv` is the core of `EncoderFollowsRates`: a setting that
is held back has the bitrate of the cache, any other reaches a configured object or is
0. Below these, `SetRatesApplies`, `InitEncodeConfigures` and `EncodeKeeps` say what
the methods leave of an object with configurations. TLC has checked `IInv` on the
instance of `video_stream_encoder`.

From `Invariance` follow `AllocatorGuards`, `CreationStaysPending`,
`CacheTellsTheTruth`, `RequestSurvives` and `ConfiguredUse`, that is all properties of
the run; `ObjectUnderOwner`, the invariant of the object for the rates and instances
the owner computes; and `OnlyAdaptiveModesStale`, the counterpart of the finding
`OveruseSignalFollowed`: below mode 4 the buffer the object asks for is the one of the
current signal, and x264 has it unless it refused it, so that the signals `RateControlParameters::operator==` holds back matter in modes 4
and 5 only.

### The delay detector

Assumptions: slopes, arrival steps and send deltas are integers,
`MinNumDeltas` is at least 1 and `DeltaCounterMax` at least 2 (with a limit of 1
`Detect` would never leave its first branch, and a counted sample could not be
told from a first one).

The invariant `IInv` adds to the types:

- `Lead`: during an overuse, and while `counter` is above 0, the ratio is above
  2.0. `EncoderSignalLeads` rests on the second half: an overuse is declared at
  the second counted sample or later, so the sample before was counted too, and it
  was compared with the same threshold as the ratio. A declared overuse sets the
  counter back to 0, which is why the first half is needed as well;
- `Quiet`: before the first fit the trend is 0 and the use normal; a fit has a
  window of two samples or more.

`DroppedStops` shows that the loop over the window stops and leaves two samples
when it drops any; the least place where it can stop exists because `<` is well
founded on `Nat`. `AdaptedInRange` bounds the threshold after any step. From
`Invariance` follow `TypeCorrect`, `OveruseShared`, `EncoderFirst` and `FitFirst`.
That the integer arithmetic stands for the code's doubles is not proved; the
proofs use no property of the step of the threshold but the clamp after it.

### The groups of packets

Assumptions: times are natural numbers, and so are the four thresholds. Their order
does not matter.

`DeltaInv` of `DelayDetectorProofs` is `DeltaTypeOK`, `GroupsApart` and `DeltasTelescope`
with the history as integers. The clause of `DeltaTypeOK` that there is no previous group
without a current one is what carries the telescoping through a reset: the first group
closed after it has nothing to be compared with, and `base` starts there. `PacketInv`
goes through the ways a packet can take (first, disordered, of a new group, joined)
with one lemma for each kind of group it leaves (`GroupOfOne`, `JoinedGroup`,
`StartsApart`); `ResetInv` covers the clock jump and the disorder limit. From
`DeltaInvariance` follow `Separation` and `NothingLost`.

### The rate control

Assumptions: rates are natural numbers above 0, times and round trip times natural
numbers, ages are counted beyond `kInitializationTime`. The number of messages is
arbitrary.

`IInv` of `DelayBasedBweProofs`: the record is well formed, a link capacity comes with
the time of a change, the rate is at least the minimum, and the minimum is the larger
of what the constraints and the streams ask for. `IncreaseDefined` is part of it; the
two action properties about the rate need it because the clamp to the minimum, the
last step of every change, would otherwise raise a rate. Each setter and each of the
three branches (hold, increase, decrease) has a lemma. `IncreaseInv` bounds an increase
at the time of the last change by 1000 bit/s, for the additive and the multiplicative
rule alike, which is `GentleRecovery`; `DecreaseInv` gives `OveruseLowers`;
`NothingHidden` goes through the branches of `MaybeUpdateEstimate`.

The attempt to prove `OveruseNeverRaises` without `rc.valid` failed for a reason: after
a route change without a start rate the rate is a placeholder of 30 Mbit/s and no
estimate, and a message that finds an overuse may replace it by a larger acknowledged
rate. The property now speaks of estimates; the instance of the run has no rate that
large.

### The gates of the transport controller

Assumptions: at least one target above 0 and one value of loss, natural numbers.

`IInv` of `TransportProofs` adds `Started` to `TypeOK` and `TargetInForce`:
before a controller exists the pacer's queue counts as empty and nothing was reported,
afterwards the last messages are made of estimates. `TargetInForce` needs both: the
first message must not be taken for unchanged by a gate that has seen none, and a
message that a gate drops must equal the last one in all a stream is told.
`FirstEstimateChanges` is the first half: before the first message every estimate counts
as a change, whatever the pushback.
`UpdateInForce` is the lemma about the handler, used for every action that ends in it.
The theorems are of `FairSpec`; its fairness is not used.

### The send stream

Assumptions: `Suspend` is a Boolean; the bounds on the queues are any numbers above 0.

`IInv` of `VideoSendStreamProofs` is `TypeOK`, `RegisteredOnlyWhileActive` and
`EncoderFollows`. The second half of `EncoderFollows` (a stopped stream is told 0) is
kept by a network update only because a stopped stream is not registered, so neither
is inductive without the other. `PostedIsLast` and `TakenInOrder` say what appending to
the encoder's queue and taking from it do to the last rate told, and are all the
sequence reasoning there is.

### The frame cadence adapter

Assumptions: the four bounds are natural numbers above 0. Layers, frames, queued tasks
and frame ids are as many as they allow.

`IInv` of `FrameCadenceAdapterProofs` has, besides types and `AdapterMatchesMode`:

- `CountMatches`: `frames_scheduled_for_processing_` is incremented on the capturer's
  thread before the task is posted and decremented by the task, so what the encoder
  queue reads is ahead of the queue by at most the frame that is entering.
  `Taken`, the frames captured less that count, is the newest frame that has left the
  queue; the frames on the queue are exactly those after it, in order. Without it
  `DroppedForNewer` cannot be proved: the decision to drop reads the count, the
  property speaks of the frames;
- `AdapterInv`: no delayed repeat is ahead of the frame id, so that a new id is not in
  use; exactly one repeat is live while one is scheduled, and none otherwise; there
  are as many delayed cadence tasks as frames, or a frame is requested; the frames
  held are in order, after the last one sent unless that one is being repeated, and
  not after `Taken`.

`TasksMatchFrames` and `NeverFrozen` are consequences: the first says nothing about
stale repeats, which a reused id would revive, the second nothing about ids. Queues are
sequences: `PostedAppend`, `PostedTail`, `FrameTaken`, `LiveAppended` and
`LiveRemoved` say what appending to a queue, taking its head or removing a delayed task
from the middle does, and carry all reasoning about sequences.

`GoodStep` is what one step must do: keep `IInv`, be a step of `FrameFeed` or leave its
variables alone, and drop no frame because the encoder is blocked without a newer one. `EveryStep` proves it for each
action, since the refinement of a step needs the invariant: that a frame sent is the
oldest one in flight follows from the order of the held frames and from `Taken`, and
that leaving the mode drops the oldest ones from the same. `ModeMatches`,
`DelayedTasksMatch`, `StreamNeverFrozen`, `OnlyDroppedForNewer` and `ImplementsFeed`
follow; the last is the safety part of `FeedsFrames`.

### The list of missing packets

Assumptions: an even number of sequence numbers, `kMaxPacketAge` below half of it, and
the bounds on the network of section 2. The size of the list, the number of tries and
whether entries are delayed are arbitrary; so is the length of a behaviour.

The first lemmas are about `uint16_t`: `Distinct` (packets less than a round apart have
different numbers) and `Compare` (`AheadOf` orders packets less than half a round apart
as they were sent). Everything else is said of packets, and every comparison the code
makes is shown to be within that distance.

`NackInv` of `TransportProofs` is `ArrivedNotListed`, `MissingListed` and

- `ListInv`: every entry is of a packet before the newest one and not old, and its
  retries are the number of times the packet was asked for. `TriesLimited` follows; it
  is not inductive without it, since an entry is removed by its own counter only;
- `NetworkInv`: how far apart the newest packet, the last complete frame and what has
  arrived can be, which is what `Compare` and `Distinct` need;
- `KeysInv`: the key frames of the list have arrived, so entries removed before one of
  them are not needed (`MissingListed`);
- `RecoveredInv`: a packet that came ahead of the newest one is in `recovered_list_`
  until a complete frame passes it, and a number in that list stands for such a packet
  and not for one a round later. Without it a gap could list a packet that has arrived,
  or leave out one that has not.

`PacketsAdded` follows `AddPacketsToNack` through the three ways entries leave the list
(old, before a key frame, all of them with a key frame request), `MakeRoomRemoves` the
loop in it; that an oldest fitting key frame exists is well-foundedness of `<`.
`AskedAndCounted` is about both callers of `GetNackBatch`. Then there is one lemma per
action. TLC has checked `NackInv` on the instance of `nack_requester`. From
`NackInvariance` follow `NoPacketAskedTooOften`, `ArrivedLeavesList` and
`MissingIsListed`.

### Only model-checked

- `BitrateAllocator`: its rules are folds over the list of observers, and what a fold
  computes for every list needs induction over data. `StartRateKnown` is moreover a
  fact about rates of a useful size: the division fails it for a target below the
  number of streams.
- All liveness (`SignalDelivered`, `PauseEnds`, `LostNetworkSilences`,
  `ProducingRegisters`, `ListEmpties`, the liveness half of `FeedsFrames`): the prover
  does not reason about fairness.

## 6. Plan

1. The encoder object, its owner, the delay detector: modelled and proved.
2. The loop around them (`InterArrivalDelta` to `VideoSendStream`), the frame feed and
   the requests for lost packets: modelled, and proved except for the division among
   the streams in `BitrateAllocator`.
3. Several simulcast streams in the owner; the pacer and its probes.

## 7. Not modelled

The pixel path, bitstream parsing and RTP packetisation (data without control),
resource adaptation and encoder switching of the owner, the loss based estimators
and the acknowledged rate of the congestion controller (their results are inputs),
the pacer's queue and its probes, statistics and histograms, the example programs,
the signalling server and the experiment scripts (I/O), and the rest of WebRTC
(peer connection, audio, ICE), which this repository does not change and no part
above depends on. The reasons, part by part, are the notes of
`components` in `PROJECT.json`.
