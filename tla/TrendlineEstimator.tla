-------------------------- MODULE TrendlineEstimator --------------------------
(***************************************************************************)
(* TrendlineEstimator (modules/congestion_controller/goog_cc), the delay    *)
(* detector that feeds the congestion controller (hypothesis_) and, in MAE, *)
(* the encoder (hypothesis_aggresive_), under DelayBasedBwe, which replaces *)
(* it when the stream has timed out.                                        *)
(*                                                                         *)
(* Trends and thresholds are numbers in hundredths, times in milliseconds,  *)
(* time_over_using_ in half milliseconds.  The slope of a fit is any member *)
(* of Slopes, since the delays of the window are arbitrary; so is a slope   *)
(* the optional cap has lowered.  The window keeps the arrival times alone, *)
(* in order of processing (enable_sort is off).  hypothesis_aggresive_ is   *)
(* only compared with 2.0: it is 1.0 ("one"), at most 2.0 ("raised") or     *)
(* above ("over").  There is no network state predictor.                    *)
(***************************************************************************)
EXTENDS Integers, Sequences

CONSTANTS
    Slopes,             \* slopes LinearFitSlope computes
    ArrivalSteps,       \* from one group's arrival to the next, reordering too
    SendDeltas,         \* ts_delta, between the send times of two groups; below 0
                        \* after a group that starts before the last one's end
    MinNumDeltas,       \* kMinNumDeltas
    DeltaCounterMax,    \* kDeltaCounterMax
    MaxSamples          \* bound: samples of a behaviour

ASSUME SlopesAssumption == Slopes \subseteq Int
ASSUME StepsAssumption == ArrivalSteps \subseteq Int /\ SendDeltas \subseteq Int
ASSUME CountersAssumption ==
    MinNumDeltas \in Nat \ {0} /\ DeltaCounterMax \in Nat \ {0, 1}
ASSUME SamplesAssumption == MaxSamples \in Nat

None == -1      \* last_update_ms_ without a value
NoTimer == -2   \* time_over_using_ without a value, -1 ms
Gain == 4       \* threshold_gain_
MaxDuration == 100
OverUsingTimeThreshold == 2 * 10
MaxAdaptOffset == 1500
MinThreshold == 600
MaxThreshold == 60000
Thresholds == {t \in Nat : MinThreshold <= t /\ t <= MaxThreshold}

Usages == {"normal", "overusing", "underusing"}
Ratios == {"one", "raised", "over"}

\* fit is the size of the window of the last fit, 0 before the first.
Estimators ==
    [deltas: Nat, window: Seq(Int), threshold: Thresholds,
     update: Int, prevTrend: Int, timer: Int, counter: Nat,
     hypothesis: Usages, aggressive: Ratios, fit: Nat]

\* Mutant: the previous trend is not initialised.
NewEstimatorStaleTrend ==
    [deltas |-> 0, window |-> << >>, threshold |-> 1250, update |-> None,
     prevTrend |-> 1000, timer |-> NoTimer, counter |-> 0, hypothesis |-> "normal",
     aggressive |-> "one", fit |-> 0]

NewEstimator ==
    [deltas |-> 0, window |-> << >>, threshold |-> 1250, update |-> None,
     prevTrend |-> 0, timer |-> NoTimer, counter |-> 0, hypothesis |-> "normal",
     aggressive |-> "one", fit |-> 0]

-----------------------------------------------------------------------------
Abs(x) == IF x < 0 THEN -x ELSE x
Least(x, y) == IF x < y THEN x ELSE y

\* Mutant: no lower limit.
SafeClampAbove(x) == IF x > MaxThreshold THEN MaxThreshold ELSE x

SafeClamp(x) ==
    IF x > MaxThreshold THEN MaxThreshold
    ELSE IF x < MinThreshold THEN MinThreshold ELSE x

\* The threshold after a step towards the modified trend: k_down_ 0.039 and
\* k_up_ 0.0087 per millisecond, for at most 100 ms.  A group that arrived
\* before the last one moves it away.
Adapted(threshold, modified, elapsed) ==
    LET k == IF Abs(modified) < threshold THEN 390 ELSE 87
    IN  SafeClamp(threshold +
            (k * (Abs(modified) - threshold) * Least(elapsed, 100)) \div 10000)

UpdateThreshold(e, modified, now) ==
    LET last == IF e.update = None THEN now ELSE e.update
    IN  IF Abs(modified) > e.threshold + MaxAdaptOffset
        THEN [e EXCEPT !.update = now]
        ELSE [e EXCEPT !.update = now,
                       !.threshold = Adapted(@, modified, now - last)]

\* Mutant: a sample that does not exceed the threshold leaves the counter.
DetectUsageKeepsCounter(e, trend, modified, delta) ==
    LET timer == IF e.timer = NoTimer THEN delta ELSE e.timer + 2 * delta
        counter == e.counter + 1
        overuse == /\ timer > OverUsingTimeThreshold
                   /\ counter > 1
                   /\ trend >= e.prevTrend
    IN  IF modified > e.threshold THEN
            IF overuse THEN [e EXCEPT !.timer = 0, !.counter = 0,
                                      !.hypothesis = "overusing"]
            ELSE [e EXCEPT !.timer = timer, !.counter = counter]
        ELSE [e EXCEPT !.timer = NoTimer,
                !.hypothesis = IF modified < -e.threshold THEN "underusing"
                               ELSE "normal"]

\* Mutant: a sample between the two thresholds does not end an overuse.
DetectUsageSticks(e, trend, modified, delta) ==
    LET timer == IF e.timer = NoTimer THEN delta ELSE e.timer + 2 * delta
        counter == e.counter + 1
        overuse == /\ timer > OverUsingTimeThreshold
                   /\ counter > 1
                   /\ trend >= e.prevTrend
    IN  IF modified > e.threshold THEN
            IF overuse THEN [e EXCEPT !.timer = 0, !.counter = 0,
                                      !.hypothesis = "overusing"]
            ELSE [e EXCEPT !.timer = timer, !.counter = counter]
        ELSE [e EXCEPT !.timer = NoTimer, !.counter = 0,
                !.hypothesis = IF modified < -e.threshold THEN "underusing"
                               ELSE @]

\* Overuse: above the threshold for more than 10 ms and two samples, and the
\* trend does not fall.  A sample above the threshold otherwise leaves the
\* hypothesis as it was.
DetectUsage(e, trend, modified, delta) ==
    LET timer == IF e.timer = NoTimer THEN delta ELSE e.timer + 2 * delta
        counter == e.counter + 1
        overuse == /\ timer > OverUsingTimeThreshold
                   /\ counter > 1
                   /\ trend >= e.prevTrend
    IN  IF modified > e.threshold THEN
            IF overuse THEN [e EXCEPT !.timer = 0, !.counter = 0,
                                      !.hypothesis = "overusing"]
            ELSE [e EXCEPT !.timer = timer, !.counter = counter]
        ELSE [e EXCEPT !.timer = NoTimer, !.counter = 0,
                !.hypothesis = IF modified < -e.threshold THEN "underusing"
                               ELSE "normal"]

\* modified_trend / (threshold_ * kAggressiveRatio)
AggressiveRatio(threshold, modified) ==
    IF modified > threshold THEN "over"
    ELSE IF 2 * modified > threshold THEN "raised" ELSE "one"

Detect(e, trend, delta, now) ==
    LET modified == Least(e.deltas, MinNumDeltas) * trend * Gain
    IN  IF e.deltas < 2
        THEN [e EXCEPT !.hypothesis = "normal", !.aggressive = "one"]
        ELSE UpdateThreshold(
                [DetectUsage(e, trend, modified, delta) EXCEPT
                    !.aggressive = AggressiveRatio(e.threshold, modified),
                    !.prevTrend = trend],
                modified, now)

-----------------------------------------------------------------------------
\* Where the loop that drops old samples can stop, as samples dropped.
StopsAt(w) ==
    {k \in 0..(Len(w) - 1) :
        Len(w) - k <= 2 \/ w[Len(w)] - w[k + 1] <= MaxDuration}

\* Samples dropped so that the window spans at most MaxDuration; two stay.
Dropped(w) == CHOOSE k \in StopsAt(w) : \A j \in StopsAt(w) : k <= j

\* LinearFitSlope has no value if all samples arrived at the same time.
HasSlope(w) == \E i, j \in DOMAIN w : w[i] # w[j]

\* A line is fitted only when a sample was dropped; otherwise the last trend
\* counts again.
UpdateTrendline(e, slope, delta, now) ==
    LET w == Append(e.window, now)
        k == Dropped(w)
        window == SubSeq(w, k + 1, Len(w))
        counted == [e EXCEPT !.deltas = Least(@ + 1, DeltaCounterMax),
                             !.window = window,
                             !.fit = IF k > 0 THEN Len(window) ELSE @]
        trend == IF k > 0 /\ HasSlope(window) THEN slope ELSE e.prevTrend
    IN  Detect(counted, trend, delta, now)

-----------------------------------------------------------------------------
(***************************************************************************)
(* Specification                                                           *)
(***************************************************************************)
VARIABLES
    est,        \* the active delay detector
    clock,      \* arrival time of the last group
    samples     \* groups so far

vars == <<est, clock, samples>>

Init == est = NewEstimator /\ clock = 0 /\ samples = 0

\* A packet that completes a group: Update with calculated_deltas.
Update ==
    /\ samples < MaxSamples
    /\ \E step \in ArrivalSteps, slope \in Slopes, delta \in SendDeltas :
        /\ clock + step >= 0
        /\ clock' = clock + step
        /\ est' = UpdateTrendline(est, slope, delta, clock + step)
    /\ samples' = samples + 1

\* A packet after more than kStreamTimeOut without one.
TimeOut ==
    /\ samples > 0
    /\ est' = NewEstimator
    /\ UNCHANGED <<clock, samples>>

Next == Update \/ TimeOut

Spec == Init /\ [][Next]_vars

-----------------------------------------------------------------------------
(***************************************************************************)
(* Properties                                                              *)
(***************************************************************************)
\* The members are well formed; the threshold keeps its limits although it
\* adapts by up to 3.9 times its distance from the trend.
TypeOK == est \in Estimators /\ clock \in Nat /\ samples \in Nat

\* Whenever the congestion controller is told of an overuse, the ratio for the
\* encoder is above 2.0: the two detectors of Detect, one with a memory and
\* one without, never disagree in this direction.
OveruseReachesEncoder ==
    est.hypothesis = "overusing" => est.aggressive = "over"

\* The encoder hears first: a new overuse is only declared when the ratio was
\* already above 2.0 after the sample before.
EncoderSignalLeads ==
    [][est.hypothesis # "overusing" /\ est'.hypothesis = "overusing" =>
            est.aggressive = "over"]_vars

\* Nothing but normal use is reported before a line was fitted, though every
\* sample is run through the detector.
UsageRestsOnFit == est.hypothesis # "normal" => est.fit >= 2

=============================================================================
