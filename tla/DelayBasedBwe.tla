----------------------------- MODULE DelayBasedBwe -----------------------------
(***************************************************************************)
(* DelayBasedBwe (modules/congestion_controller/goog_cc): the rate control  *)
(* of AimdRateControl driven by the delay detector, the acknowledged rate   *)
(* and probe results, and by what GoogCcNetworkController asks of it: new   *)
(* constraints, a new minimum for the streams, round trip times and a route *)
(* change.                                                                  *)
(*                                                                         *)
(* A feedback message leaves the delay detector in any state               *)
(* (TrendlineEstimator models it).  Init is the controller after its first  *)
(* OnProcessInterval, which applies the initial constraints.  A message     *)
(* without a received packet changes nothing here.  Audio has no detector   *)
(* of its own (separate_audio_ is off).                                     *)
(***************************************************************************)
EXTENDS AimdRateControl

CONSTANTS
    Rates,          \* acknowledged, probed and configured rates
    Times,          \* from one feedback message to the next
    Rtts,           \* round trip times
    MaxMessages     \* bound: feedback messages of a behaviour

ASSUME RatesAssumption == Rates \subseteq Nat \ {0} /\ Rates # {}
ASSUME TimesAssumption == Times \subseteq Nat /\ Rtts \subseteq Nat
ASSUME MessagesAssumption == MaxMessages \in Nat

Usages == {"normal", "overusing", "underusing"}
Optional(S) == S \cup {None}

VARIABLES
    rc,             \* rate_control_
    prevRate,       \* prev_bitrate_, the last estimate
    prevState,      \* prev_state_
    minTarget,      \* min_target_rate_
    minAllocated,   \* min_total_allocated_bitrate_
    messages,       \* feedback messages so far
    last            \* history: the message of the last step

members == <<rc, prevRate, prevState>>
vars == <<members, minTarget, minAllocated, messages, last>>

Message(time, usage, acked, probe) ==
    [time |-> time, usage |-> usage, acked |-> acked, probe |-> probe]

NoMessage == Message(0, "normal", None, None)

-----------------------------------------------------------------------------
\* ClampConstraints, without the maximum, which the delay based rate ignores.
MinDataRate(target, allocated) == Larger(Larger(target, MinBitrate), allocated)

ResetConstraints(control, start, min) ==
    SetMinBitrate(IF start = None THEN control
                  ELSE SetStartBitrate(control, Larger(start, min)), min)

Init ==
    /\ \E start \in Rates :
        rc = ResetConstraints(NewRateControl, start, MinBitrate)
    /\ prevRate = 0 /\ prevState = "normal"
    /\ minTarget = 0 /\ minAllocated = 0
    /\ messages = 0 /\ last = NoMessage

OnTargetRateConstraints(start, min) ==
    /\ minTarget' = min
    /\ rc' = ResetConstraints(rc, start, MinDataRate(min, minAllocated))
    /\ last' = NoMessage
    /\ UNCHANGED <<prevRate, prevState, minAllocated, messages>>

\* A new estimator; detectors and clocks start again.
OnNetworkRouteChange(start, min) ==
    /\ minTarget' = min
    /\ rc' = ResetConstraints(NewRateControl, start, MinDataRate(min, minAllocated))
    /\ prevRate' = 0 /\ prevState' = "normal"
    /\ last' = NoMessage
    /\ UNCHANGED <<minAllocated, messages>>

\* OnStreamsConfig with another min_total_allocated_bitrate.
OnStreamsConfig(allocated) ==
    /\ allocated # minAllocated
    /\ minAllocated' = allocated
    /\ rc' = SetMinBitrate(rc, MinDataRate(minTarget, allocated))
    /\ last' = NoMessage
    /\ UNCHANGED <<prevRate, prevState, minTarget, messages>>

OnRttUpdate(rtt) ==
    /\ rc' = SetRtt(rc, rtt)
    /\ last' = NoMessage
    /\ UNCHANGED <<prevRate, prevState, minTarget, minAllocated, messages>>

-----------------------------------------------------------------------------
\* Overusing before a rate was acknowledged: the rate is halved.
Halves(control, usage, acked) ==
    usage = "overusing" /\ acked = None /\ InitialTimeToReduceFurther(control)

\* The rate control after MaybeUpdateEstimate.
Estimated(control, usage, acked, probe, deviation) ==
    CASE Halves(control, usage, acked) -> SetEstimate(control, control.rate \div 2)
      [] usage = "overusing" /\ acked # None /\ TimeToReduceFurther(control, acked) ->
            Update(control, usage, acked, deviation)
      [] usage # "overusing" /\ probe # None -> SetEstimate(control, probe)
      [] usage # "overusing" /\ probe = None ->
            Update(control, usage, acked, deviation)
      [] OTHER -> control

\* result.updated
Updated(control, usage, acked, probe, estimated) ==
    \/ Halves(control, usage, acked)
    \/ usage = "overusing" /\ acked # None /\ TimeToReduceFurther(control, acked)
    \/ usage # "overusing" /\ estimated.valid

\* Mutant: the last estimate is noted when the detector's state changes.
MaybeUpdateEstimateOnState(time, usage, acked, probe, deviation) ==
    LET control == Aged(rc, time)
        estimated == Estimated(control, usage, acked, probe, deviation)
        updated == Updated(control, usage, acked, probe, estimated)
    IN  /\ rc' = estimated
        /\ prevRate' = IF updated /\ usage # prevState THEN estimated.rate
                       ELSE prevRate
        /\ prevState' = usage

MaybeUpdateEstimate(time, usage, acked, probe, deviation) ==
    LET control == Aged(rc, time)
        estimated == Estimated(control, usage, acked, probe, deviation)
        updated == Updated(control, usage, acked, probe, estimated)
    IN  /\ rc' = estimated
        /\ prevRate' = IF updated THEN estimated.rate ELSE prevRate
        /\ prevState' = usage

IncomingPacketFeedbackVector(time, usage, acked, probe, deviation) ==
    /\ messages < MaxMessages
    /\ messages' = messages + 1
    /\ MaybeUpdateEstimate(time, usage, acked, probe, deviation)
    /\ last' = Message(time, usage, acked, probe)
    /\ UNCHANGED <<minTarget, minAllocated>>

Next ==
    \/ \E time \in Times, usage \in Usages, acked, probe \in Optional(Rates),
          deviation \in Deviations :
            IncomingPacketFeedbackVector(time, usage, acked, probe, deviation)
    \/ \E start \in Optional(Rates), min \in Rates :
            OnTargetRateConstraints(start, min)
    \/ \E start \in Optional(Rates), min \in Rates :
            OnNetworkRouteChange(start, min)
    \/ \E allocated \in Rates : OnStreamsConfig(allocated)
    \/ \E rtt \in Rtts : OnRttUpdate(rtt)

Spec == Init /\ [][Next]_vars

-----------------------------------------------------------------------------
(***************************************************************************)
(* Properties                                                              *)
(***************************************************************************)
\* The increase always has what it computes with, through every change of the
\* constraints and the routes: a rate above 0, which is at least the minimum of
\* the constraints and of the streams (GetNearMaxIncreaseRateBpsPerSecond asserts
\* it), and with a link capacity also the time of the last change, so that an
\* additive increase never starts from an infinite age.
IncreaseDefined ==
    /\ rc.rate > 0
    /\ rc.rate >= MinDataRate(minTarget, minAllocated)
    /\ rc.link # None => rc.age # None

Feedback == messages' = messages + 1

\* A message changes the rate only if it reports the new one: the controller,
\* which acts on reported estimates alone, never lags behind.
ChangesReported ==
    [][Feedback /\ rc'.rate # rc.rate => prevRate' = rc'.rate]_vars

\* A message that leaves the detector overusing never raises an estimate,
\* whatever was acknowledged and whatever the link capacity was.  Only a rate
\* that is no estimate yet, after a route change without a start rate, may be
\* below the first acknowledged one that replaces it.
OveruseNeverRaises ==
    [][Feedback /\ rc.valid /\ last'.usage = "overusing" =>
            rc'.rate <= rc.rate]_vars

\* After a hold the rate grows by at most 1 kbps with the first message,
\* however long the hold was.
RecoversGently ==
    [][Feedback /\ last'.probe = None /\ rc.valid
            /\ rc.state = "hold" /\ rc'.state = "increase" =>
                rc'.rate <= rc.rate + 1000]_vars

=============================================================================
