---------------------------- MODULE AimdRateControl ----------------------------
(***************************************************************************)
(* AimdRateControl and its LinkCapacityEstimator                            *)
(* (modules/remote_bitrate_estimator, .../goog_cc): the delay based rate as *)
(* operators on the members, in bits per second and milliseconds, for the   *)
(* default field trials and without a network state estimator.              *)
(*                                                                         *)
(* The times of the last change and of the first throughput are kept as     *)
(* ages.  1.08 to the power of the age in seconds is taken linear, which is *)
(* never below it.  The deviation of the link capacity, within 0.4 and 2.5, *)
(* only decides whether a throughput is far from the capacity: it is an     *)
(* input, one of its two limits, which give every outcome in between.  The  *)
(* size of the last decrease, an input of the probing interval, is left     *)
(* out.                                                                     *)
(***************************************************************************)
EXTENDS Integers

CONSTANT MaxAge     \* bound: ages are counted up to here
ASSUME MaxAgeAssumption == MaxAge \in Nat /\ MaxAge > 5000

None == -1
MinBitrate == 5000                  \* kCongestionControllerMinBitrate
InitializationTime == 5000          \* kInitializationTime
Deviations == {4, 25}               \* tenths

NewRateControl ==
    [rate |-> 30000000, throughput |-> 30000000, link |-> None,
     min |-> MinBitrate, state |-> "hold", age |-> None, valid |-> FALSE,
     firstAge |-> None, rtt |-> 200]

Smaller(x, y) == IF x < y THEN x ELSE y
Larger(x, y) == IF x > y THEN x ELSE y
Older(age, time) == IF age = None THEN None ELSE Smaller(age + time, MaxAge)

\* The same members a while later.
Aged(rc, time) == [rc EXCEPT !.age = Older(@, time), !.firstAge = Older(@, time)]

-----------------------------------------------------------------------------
(* LinkCapacityEstimator, in kbps *)

\* Further from the capacity than three times its deviation.
FarFrom(capacity, kbps, deviation) ==
    (kbps - capacity) * (kbps - capacity) > (9 * deviation * capacity) \div 10

AboveUpperBound(capacity, rate, deviation) ==
    capacity # None /\ rate \div 1000 > capacity
        /\ FarFrom(capacity, rate \div 1000, deviation)

BelowLowerBound(capacity, rate, deviation) ==
    capacity # None /\ rate \div 1000 < capacity
        /\ FarFrom(capacity, rate \div 1000, deviation)

OnOveruseDetected(capacity, rate) ==
    IF capacity = None THEN rate \div 1000
    ELSE (19 * capacity + rate \div 1000) \div 20

-----------------------------------------------------------------------------
(* AimdRateControl *)
SetStartBitrate(rc, rate) ==
    [rc EXCEPT !.rate = rate, !.throughput = rate, !.valid = TRUE]

SetMinBitrate(rc, min) == [rc EXCEPT !.min = min, !.rate = Larger(min, @)]

SetRtt(rc, rtt) == [rc EXCEPT !.rtt = rtt]

ClampBitrate(rc, rate) == Larger(rate, rc.min)

\* The rtt within 10 and 200 ms.
ReductionInterval(rc) == Smaller(Larger(rc.rtt, 10), 200)

TimeToReduceFurther(rc, throughput) ==
    \/ rc.age = None
    \/ rc.age >= ReductionInterval(rc)
    \/ rc.valid /\ 2 * throughput < rc.rate

InitialTimeToReduceFurther(rc) ==
    rc.valid /\ TimeToReduceFurther(rc, rc.rate \div 2 - 1)

SetEstimate(rc, rate) ==
    [rc EXCEPT !.rate = ClampBitrate(rc, rate), !.valid = TRUE, !.age = 0]

\* bits per second gained in a second, with about one packet per round trip
GetNearMaxIncreaseRate(rc) ==
    LET frame == rc.rate \div 30
        packets == Larger(1, (frame + 9599) \div 9600)
    IN  Larger(4000, ((frame \div packets) * 1000) \div (2 * (rc.rtt + 100)))

AdditiveRateIncrease(rc) == (GetNearMaxIncreaseRate(rc) * rc.age) \div 1000

MultiplicativeRateIncrease(rc) ==
    LET time == IF rc.age = None THEN 1000 ELSE Smaller(rc.age, 1000)
    IN  Larger(1000, (((rc.rate * 8) \div 10000) * time) \div 10)

\* Mutant: leaving hold does not restart the clock of the increase.
ChangeStateKeepsTime(rc, usage) ==
    CASE usage = "normal" -> [rc EXCEPT !.state = "increase"]
      [] usage = "underusing" -> [rc EXCEPT !.state = "hold"]
      [] OTHER -> [rc EXCEPT !.state = "decrease"]

ChangeState(rc, usage) ==
    CASE usage = "normal" ->
            IF rc.state = "hold" THEN [rc EXCEPT !.state = "increase", !.age = 0]
            ELSE rc
      [] usage = "underusing" -> [rc EXCEPT !.state = "hold"]
      [] OTHER -> [rc EXCEPT !.state = "decrease"]

Increase(rc, throughput, deviation) ==
    LET link == IF AboveUpperBound(rc.link, throughput, deviation) THEN None
                ELSE rc.link
        step == IF link # None THEN AdditiveRateIncrease(rc)
                ELSE MultiplicativeRateIncrease(rc)
        limit == (3 * throughput) \div 2 + 10000
        rate == IF rc.rate < limit THEN Smaller(rc.rate + step, limit)
                ELSE rc.rate
    IN  [rc EXCEPT !.link = link, !.age = 0, !.rate = ClampBitrate(rc, rate)]

\* Below the throughput, or below the link's capacity where that is lower
\* still; never above the rate.
Decreased(rc, throughput) ==
    LET scaled == (throughput \div 20) * 17
        lower == IF scaled > 5000 THEN scaled - 5000 ELSE scaled
    IN  IF lower > rc.rate /\ rc.link # None THEN rc.link * 850 ELSE lower

\* Mutant: no guard against an increase.
DecreaseUnguarded(rc, throughput, deviation) ==
    LET link == IF BelowLowerBound(rc.link, throughput, deviation) THEN None
                ELSE rc.link
    IN  [rc EXCEPT !.rate = ClampBitrate(rc, Decreased(rc, throughput)),
                   !.valid = TRUE,
                   !.link = OnOveruseDetected(link, throughput),
                   !.state = "hold",
                   !.age = 0]

\* Mutant: the time of the change is not noted.
DecreaseUndated(rc, throughput, deviation) ==
    LET link == IF BelowLowerBound(rc.link, throughput, deviation) THEN None
                ELSE rc.link
    IN  [rc EXCEPT !.rate = ClampBitrate(rc, Smaller(@, Decreased(rc, throughput))),
                   !.valid = TRUE,
                   !.link = OnOveruseDetected(link, throughput),
                   !.state = "hold"]

Decrease(rc, throughput, deviation) ==
    LET link == IF BelowLowerBound(rc.link, throughput, deviation) THEN None
                ELSE rc.link
    IN  [rc EXCEPT !.rate = ClampBitrate(rc, Smaller(@, Decreased(rc, throughput))),
                   !.valid = TRUE,
                   !.link = OnOveruseDetected(link, throughput),
                   !.state = "hold",
                   !.age = 0]

ChangeBitrate(rc, usage, acked, deviation) ==
    LET throughput == IF acked = None THEN rc.throughput ELSE acked
        noted == [rc EXCEPT !.throughput = throughput]
        changed == ChangeState(noted, usage)
    IN  CASE ~rc.valid /\ usage # "overusing" -> noted
          [] OTHER ->
             CASE changed.state = "hold" ->
                    [changed EXCEPT !.rate = ClampBitrate(rc, @)]
               [] changed.state = "increase" ->
                    Increase(changed, throughput, deviation)
               [] OTHER -> Decrease(changed, throughput, deviation)

\* Without a start rate the first estimate is the throughput after 5 seconds.
Initialized(rc, acked) ==
    IF rc.valid \/ acked = None THEN rc
    ELSE IF rc.firstAge = None THEN [rc EXCEPT !.firstAge = 0]
    ELSE IF rc.firstAge > InitializationTime
    THEN [rc EXCEPT !.rate = acked, !.valid = TRUE]
    ELSE rc

Update(rc, usage, acked, deviation) ==
    ChangeBitrate(Initialized(rc, acked), usage, acked, deviation)

=============================================================================
