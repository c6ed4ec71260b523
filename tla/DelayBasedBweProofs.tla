-------------------------- MODULE DelayBasedBweProofs --------------------------
(***************************************************************************)
(* The safety theorems about DelayBasedBwe, for all rates, times and round  *)
(* trip times and any number of messages.                                   *)
(***************************************************************************)
EXTENDS DelayBasedBwe, TLAPS

Controls ==
    [rate: Nat, throughput: Nat, link: Nat \cup {None}, min: Nat,
     state: {"hold", "increase", "decrease"}, age: Nat \cup {None},
     valid: BOOLEAN, firstAge: Nat \cup {None}, rtt: Nat]

\* The members of the rate control: a link capacity has a time of change.
Dated(c) == c \in Controls /\ (c.link # None => c.age # None)

\* The rate respects the minimum as well.
ControlInv(c) == Dated(c) /\ c.rate >= c.min

\* The inductive invariant: the minimum of the rate control is the one that the
\* constraints and the streams ask for.
IInv ==
    /\ ControlInv(rc)
    /\ minTarget \in Nat /\ minAllocated \in Nat
    /\ rc.min = MinDataRate(minTarget, minAllocated)
    /\ messages \in Nat

-----------------------------------------------------------------------------
(* Setters *)

\* The passing of time, which only ages the decrease and the estimate.
LEMMA AgedInv ==
    ASSUME NEW c, ControlInv(c), NEW time \in Nat
    PROVE  /\ ControlInv(Aged(c, time))
           /\ Aged(c, time).rate = c.rate /\ Aged(c, time).min = c.min
           /\ Aged(c, time).valid = c.valid /\ Aged(c, time).state = c.state
<1> DEFINE age == Older(c.age, time)
           firstAge == Older(c.firstAge, time)
           n == Aged(c, time)
<1>1. c \in Controls /\ (c.link # None => c.age # None) /\ c.rate >= c.min
  BY DEF ControlInv, Dated
<1>2. /\ age \in Nat \cup {None} /\ firstAge \in Nat \cup {None}
      /\ c.age # None => age # None
  BY <1>1, MaxAgeAssumption DEF Controls, Older, Smaller, None
<1> HIDE DEF age, firstAge
<1>3. n = [c EXCEPT !.age = age, !.firstAge = firstAge]
  BY <1>1 DEF Aged, age, firstAge, Controls
<1> HIDE DEF n
<1>4. /\ n \in Controls /\ n.age = age
      /\ n.rate = c.rate /\ n.min = c.min /\ n.link = c.link
      /\ n.valid = c.valid /\ n.state = c.state
  BY <1>1, <1>2, <1>3 DEF Controls
<1> QED
  BY <1>1, <1>2, <1>4 DEF ControlInv, Dated, n

\* SetEstimate clamps to the minimum and dates the estimate.
LEMMA SetEstimateInv ==
    ASSUME NEW c, ControlInv(c), NEW rate \in Nat
    PROVE  /\ ControlInv(SetEstimate(c, rate))
           /\ SetEstimate(c, rate).rate = Larger(rate, c.min)
           /\ SetEstimate(c, rate).min = c.min
           /\ SetEstimate(c, rate).state = c.state
           /\ SetEstimate(c, rate).valid
<1> DEFINE new == Larger(rate, c.min)
           n == SetEstimate(c, rate)
<1>1. c \in Controls
  BY DEF ControlInv, Dated
<1>2. new \in Nat /\ new >= c.min
  BY <1>1 DEF Controls, Larger
<1> HIDE DEF new
<1>3. n = [c EXCEPT !.rate = new, !.valid = TRUE, !.age = 0]
  BY DEF SetEstimate, ClampBitrate, new
<1> HIDE DEF n
<1>4. /\ n \in Controls /\ n.rate = new /\ n.valid = TRUE /\ n.age = 0
      /\ n.min = c.min /\ n.state = c.state
  BY <1>1, <1>2, <1>3 DEF Controls
<1>5. n.age # None
  BY <1>4 DEF None
<1> QED
  BY <1>2, <1>4, <1>5 DEF ControlInv, Dated, n, new

\* A new minimum raises an estimate below it and nothing else.
LEMMA MinInv ==
    ASSUME NEW c, Dated(c), NEW min \in Nat
    PROVE  /\ ControlInv(SetMinBitrate(c, min))
           /\ SetMinBitrate(c, min).min = min
<1> DEFINE new == Larger(min, c.rate)
           n == SetMinBitrate(c, min)
<1>1. c \in Controls /\ (c.link # None => c.age # None)
  BY DEF Dated
<1>2. new \in Nat /\ new >= min
  BY <1>1 DEF Controls, Larger
<1> HIDE DEF new
<1>3. n = [c EXCEPT !.min = min, !.rate = new]
  BY <1>1 DEF SetMinBitrate, new, Controls
<1> HIDE DEF n
<1>4. /\ n \in Controls /\ n.rate = new /\ n.min = min
      /\ n.link = c.link /\ n.age = c.age
  BY <1>1, <1>2, <1>3 DEF Controls
<1> QED
  BY <1>1, <1>2, <1>4 DEF ControlInv, Dated, n

\* New constraints: a start bitrate, if any, and a minimum, in that order.
LEMMA ResetInv ==
    ASSUME NEW c, Dated(c), NEW start \in Optional(Rates), NEW min \in Nat
    PROVE  /\ ControlInv(ResetConstraints(c, start, min))
           /\ ResetConstraints(c, start, min).min = min
<1> DEFINE s == IF start = None THEN c ELSE SetStartBitrate(c, Larger(start, min))
<1>1. Dated(s)
  BY RatesAssumption
     DEF Dated, Controls, SetStartBitrate, Larger, Optional, None
<1> HIDE DEF s
<1>2. ControlInv(SetMinBitrate(s, min)) /\ SetMinBitrate(s, min).min = min
  BY <1>1, MinInv
<1> QED
  BY <1>2 DEF ResetConstraints, s

\* A new round trip time touches no other member.
LEMMA RttInv ==
    ASSUME NEW c, ControlInv(c), NEW rtt \in Nat
    PROVE  ControlInv(SetRtt(c, rtt)) /\ SetRtt(c, rtt).min = c.min
BY DEF ControlInv, Dated, Controls, SetRtt

\* A new rate control has no link estimate, so needs no date.
LEMMA NewDated == Dated(NewRateControl)
BY DEF Dated, NewRateControl, Controls, None, MinBitrate

\* The larger of the two minima is a rate.
LEMMA MinDataRateType ==
    ASSUME NEW t \in Nat, NEW a \in Nat
    PROVE  MinDataRate(t, a) \in Nat /\ MinDataRate(t, a) > 0
BY DEF MinDataRate, Larger, MinBitrate

-----------------------------------------------------------------------------
(* Increase and decrease *)

\* The rate of an additive increase is a number.
LEMMA NearMaxType ==
    ASSUME NEW c \in Controls
    PROVE  GetNearMaxIncreaseRate(c) \in Nat
<1> DEFINE frame == c.rate \div 30
           packets == Larger(1, (frame + 9599) \div 9600)
           size == frame \div packets
           time == 2 * (c.rtt + 100)
<1>1. frame \in Nat /\ time \in Nat \ {0}
  BY DEF Controls
<1> HIDE DEF frame, time
<1>2. packets \in Nat \ {0}
  BY <1>1 DEF Larger
<1> HIDE DEF packets
<1>3. size \in Nat
  BY <1>1, <1>2
<1> HIDE DEF size
<1>4. (size * 1000) \div time \in Nat
  BY <1>1, <1>3
<1>5. Larger(4000, (size * 1000) \div time) \in Nat
  BY <1>4 DEF Larger
<1> QED
  BY <1>5 DEF GetNearMaxIncreaseRate, frame, packets, size, time

\* So is either step of the increase, which is small right after a change.
LEMMA StepType ==
    ASSUME NEW c \in Controls
    PROVE  /\ c.age # None => AdditiveRateIncrease(c) \in Nat
           /\ MultiplicativeRateIncrease(c) \in Nat
           /\ c.age = 0 => /\ AdditiveRateIncrease(c) = 0
                           /\ MultiplicativeRateIncrease(c) = 1000
<1> DEFINE near == GetNearMaxIncreaseRate(c)
           time == IF c.age = None THEN 1000 ELSE Smaller(c.age, 1000)
           eighth == (c.rate * 8) \div 10000
<1>1. near \in Nat
  BY NearMaxType
<1> HIDE DEF near
<1>2. eighth \in Nat
  BY DEF Controls
<1>3. time \in Nat /\ (c.age = 0 => time = 0)
  BY DEF Controls, Smaller, None
<1> HIDE DEF eighth, time
<1>4. ASSUME c.age # None
      PROVE  (near * c.age) \div 1000 \in Nat
  <2>1. c.age \in Nat
    BY <1>4 DEF Controls
  <2>2. near * c.age \in Nat
    BY <1>1, <2>1
  <2> QED
    BY <2>2
<1>5. eighth * time \in Nat /\ (c.age = 0 => near * c.age = 0 /\ eighth * time = 0)
  BY <1>1, <1>2, <1>3
<1>6. /\ Larger(1000, (eighth * time) \div 10) \in Nat
      /\ c.age = 0 => Larger(1000, (eighth * time) \div 10) = 1000
  BY <1>5 DEF Larger
<1> QED
  BY <1>4, <1>5, <1>6
     DEF AdditiveRateIncrease, MultiplicativeRateIncrease, near, time, eighth

\* An increase keeps the control well formed, and one at the time of the last
\* change adds at most 1000 bit/s.
LEMMA IncreaseInv ==
    ASSUME NEW c, Dated(c), NEW throughput \in Nat, NEW deviation
    PROVE  /\ ControlInv(Increase(c, throughput, deviation))
           /\ Increase(c, throughput, deviation).min = c.min
           /\ Increase(c, throughput, deviation).valid = c.valid
           /\ c.age = 0 /\ c.rate >= c.min =>
                Increase(c, throughput, deviation).rate <= c.rate + 1000
<1> DEFINE link == IF AboveUpperBound(c.link, throughput, deviation) THEN None
                   ELSE c.link
           step == IF link # None THEN AdditiveRateIncrease(c)
                   ELSE MultiplicativeRateIncrease(c)
           limit == (3 * throughput) \div 2 + 10000
           rate == IF c.rate < limit THEN Smaller(c.rate + step, limit) ELSE c.rate
<1>1. c \in Controls /\ c.rate \in Nat /\ c.min \in Nat
  BY DEF Dated, Controls
<1>2. link \in Nat \cup {None} /\ (link # None => c.age # None)
  BY DEF Dated, Controls
<1> HIDE DEF link
<1>3. step \in Nat /\ (c.age = 0 => step <= 1000)
  BY <1>1, <1>2, StepType
<1>4. limit \in Nat
  OBVIOUS
<1> HIDE DEF step, limit
<1>5. rate \in Nat /\ (c.age = 0 => rate <= c.rate + 1000)
  BY <1>1, <1>3, <1>4 DEF Smaller
<1> HIDE DEF rate
<1>6. Increase(c, throughput, deviation) =
        [c EXCEPT !.link = link, !.age = 0, !.rate = ClampBitrate(c, rate)]
  BY DEF Increase, link, step, limit, rate
<1> DEFINE new == ClampBitrate(c, rate)
           n == Increase(c, throughput, deviation)
<1>7. new \in Nat /\ new >= c.min
      /\ (c.age = 0 /\ c.rate >= c.min => new <= c.rate + 1000)
  BY <1>1, <1>5 DEF ClampBitrate, Larger
<1> HIDE DEF new, n
<1>8. /\ n \in Controls /\ n.link = link /\ n.age = 0 /\ n.rate = new
      /\ n.min = c.min /\ n.valid = c.valid
  <2>1. n = [c EXCEPT !.link = link, !.age = 0, !.rate = new]
    BY <1>6 DEF new, n
  <2> QED
    BY <1>1, <1>2, <1>7, <2>1 DEF Controls
<1>9. n.age # None
  BY <1>8 DEF None
<1> QED
  BY <1>7, <1>8, <1>9 DEF ControlInv, Dated, n

\* A decrease keeps the control well formed, holds next and never raises.
LEMMA DecreaseInv ==
    ASSUME NEW c, Dated(c), NEW throughput \in Nat, NEW deviation
    PROVE  /\ ControlInv(Decrease(c, throughput, deviation))
           /\ Decrease(c, throughput, deviation).min = c.min
           /\ Decrease(c, throughput, deviation).valid
           /\ Decrease(c, throughput, deviation).state = "hold"
           /\ c.rate >= c.min => Decrease(c, throughput, deviation).rate <= c.rate
<1> DEFINE link == IF BelowLowerBound(c.link, throughput, deviation) THEN None
                   ELSE c.link
           lower == Decreased(c, throughput)
           new == OnOveruseDetected(link, throughput)
           rate == ClampBitrate(c, Smaller(c.rate, lower))
<1>1. c \in Controls /\ c.rate \in Nat /\ c.min \in Nat
  BY DEF Dated, Controls
<1>2. link \in Nat \cup {None}
  BY DEF Dated, Controls
<1>3. lower \in Nat
  <2>1. (throughput \div 20) * 17 \in Nat
    OBVIOUS
  <2>2. c.link # None => c.link * 850 \in Nat
    BY DEF Dated, Controls
  <2> QED
    BY <2>1, <2>2 DEF Decreased
<1> HIDE DEF link, lower
<1>4. new \in Nat
  BY <1>2 DEF OnOveruseDetected
<1>5. rate \in Nat /\ rate >= c.min /\ (c.rate >= c.min => rate <= c.rate)
  BY <1>1, <1>3 DEF ClampBitrate, Smaller, Larger
<1> HIDE DEF new, rate
<1>6. Decrease(c, throughput, deviation) =
        [c EXCEPT !.rate = rate, !.valid = TRUE, !.link = new,
                  !.state = "hold", !.age = 0]
  BY <1>1 DEF Decrease, link, lower, new, rate, Controls
<1> DEFINE n == Decrease(c, throughput, deviation)
<1> HIDE DEF n
<1>7. /\ n \in Controls /\ n.link = new /\ n.age = 0 /\ n.rate = rate
      /\ n.min = c.min /\ n.valid = TRUE /\ n.state = "hold"
  <2>1. n = [c EXCEPT !.rate = rate, !.valid = TRUE, !.link = new,
                      !.state = "hold", !.age = 0]
    BY <1>6 DEF n
  <2> QED
    BY <1>1, <1>4, <1>5, <2>1 DEF Controls
<1>8. n.age # None
  BY <1>7 DEF None
<1> QED
  BY <1>5, <1>7, <1>8 DEF ControlInv, Dated, n

-----------------------------------------------------------------------------
(* The update with a message *)

\* The first estimate keeps everything but the rate, which it makes valid.
LEMMA InitializedInv ==
    ASSUME NEW c, Dated(c), NEW acked \in Optional(Rates)
    PROVE  LET n == Initialized(c, acked) IN
           /\ Dated(n) /\ n.min = c.min
           /\ c.valid => n = c
           /\ ~n.valid => n.rate = c.rate
<1> DEFINE n == Initialized(c, acked)
<1>1. c \in Controls /\ (c.link # None => c.age # None)
  BY DEF Dated
<1>2. CASE n = c
  BY <1>2
<1>3. CASE n = [c EXCEPT !.firstAge = 0] /\ ~c.valid
  <2> HIDE DEF n
  <2>1. /\ n \in Controls /\ n.min = c.min /\ n.rate = c.rate
        /\ n.link = c.link /\ n.age = c.age
    BY <1>1, <1>3 DEF Controls
  <2> QED
    BY <1>1, <1>3, <2>1 DEF Dated, n
<1>4. CASE n = [c EXCEPT !.rate = acked, !.valid = TRUE] /\ acked # None /\ ~c.valid
  <2>1. acked \in Nat
    BY <1>4, RatesAssumption DEF Optional
  <2> HIDE DEF n
  <2>2. /\ n \in Controls /\ n.min = c.min /\ n.valid = TRUE
        /\ n.link = c.link /\ n.age = c.age
    BY <1>1, <1>4, <2>1 DEF Controls
  <2> QED
    BY <1>1, <1>4, <2>2 DEF Dated, n
<1> QED
  BY <1>2, <1>3, <1>4 DEF Initialized

\* A new state leaves the rate alone; leaving hold restarts the clock.
LEMMA ChangeStateInv ==
    ASSUME NEW c, Dated(c), NEW usage \in Usages
    PROVE  LET n == ChangeState(c, usage) IN
           /\ Dated(n)
           /\ n.rate = c.rate /\ n.min = c.min /\ n.valid = c.valid
           /\ usage = "overusing" => n.state = "decrease"
           /\ usage = "underusing" => n.state = "hold"
           /\ usage = "normal" /\ c.state = "hold" =>
                n.state = "increase" /\ n.age = 0
<1> DEFINE n == ChangeState(c, usage)
<1>1. c \in Controls /\ (c.link # None => c.age # None)
  BY DEF Dated
<1>2. CASE usage = "normal" /\ c.state = "hold"
  <2>1. n = [c EXCEPT !.state = "increase", !.age = 0]
    BY <1>2 DEF ChangeState
  <2> HIDE DEF n
  <2>2. /\ n \in Controls /\ n.state = "increase" /\ n.age = 0
        /\ n.rate = c.rate /\ n.min = c.min /\ n.valid = c.valid
    BY <1>1, <2>1 DEF Controls
  <2>3. n.age # None
    BY <2>2 DEF None
  <2> QED
    BY <1>2, <2>2, <2>3 DEF Dated, n
<1>3. CASE usage = "normal" /\ c.state # "hold"
  BY <1>3 DEF ChangeState
<1>4. ASSUME NEW state \in {"hold", "decrease"}, n = [c EXCEPT !.state = state]
      PROVE  /\ Dated(n) /\ n.state = state
             /\ n.rate = c.rate /\ n.min = c.min /\ n.valid = c.valid
  <2> HIDE DEF n
  <2>1. /\ n \in Controls /\ n.state = state /\ n.link = c.link /\ n.age = c.age
        /\ n.rate = c.rate /\ n.min = c.min /\ n.valid = c.valid
    BY <1>1, <1>4 DEF Controls
  <2> QED
    BY <1>1, <2>1 DEF Dated
<1>5. CASE usage = "underusing"
  <2>1. n = [c EXCEPT !.state = "hold"]
    BY <1>5 DEF ChangeState
  <2> QED
    BY <1>4, <1>5, <2>1
<1>6. CASE usage = "overusing"
  <2>1. n = [c EXCEPT !.state = "decrease"]
    BY <1>6 DEF ChangeState
  <2> QED
    BY <1>4, <1>6, <2>1
<1> QED
  BY <1>2, <1>3, <1>5, <1>6 DEF Usages

\* An update keeps the invariant.  A rate it changes is valid afterwards; an
\* overuse lowers an estimate and the first increase after a hold is small.
LEMMA UpdateInv ==
    ASSUME NEW c, ControlInv(c), NEW usage \in Usages,
           NEW acked \in Optional(Rates), NEW deviation
    PROVE  LET n == Update(c, usage, acked, deviation) IN
           /\ ControlInv(n) /\ n.min = c.min
           /\ ~n.valid => n.rate = c.rate
           /\ c.valid /\ usage = "overusing" => n.rate <= c.rate
           /\ c.valid /\ c.state = "hold" /\ n.state = "increase" =>
                n.rate <= c.rate + 1000
<1> DEFINE first == Initialized(c, acked)
           throughput == IF acked = None THEN first.throughput ELSE acked
           noted == [first EXCEPT !.throughput = throughput]
           changed == ChangeState(noted, usage)
           n == Update(c, usage, acked, deviation)
<1>1. Dated(c) /\ c.rate >= c.min /\ c \in Controls
  BY DEF ControlInv, Dated
<1>2. /\ Dated(first) /\ first.min = c.min
      /\ c.valid => first = c
      /\ ~first.valid => first.rate = c.rate
  BY <1>1, InitializedInv
<1>3. n = IF ~first.valid /\ usage # "overusing" THEN noted
          ELSE IF changed.state = "hold"
               THEN [changed EXCEPT !.rate = ClampBitrate(first, @)]
          ELSE IF changed.state = "increase"
               THEN Increase(changed, throughput, deviation)
          ELSE Decrease(changed, throughput, deviation)
  BY DEF Update, ChangeBitrate
<1> HIDE DEF first, n
<1>4. first \in Controls /\ (first.link # None => first.age # None)
  BY <1>2 DEF Dated
<1>5. throughput \in Nat
  BY <1>4, RatesAssumption DEF Controls, Optional
<1> HIDE DEF throughput
<1>6. /\ Dated(noted)
      /\ noted.rate = first.rate /\ noted.min = first.min
      /\ noted.valid = first.valid /\ noted.state = first.state
  <2>1. /\ noted \in Controls /\ noted.link = first.link /\ noted.age = first.age
        /\ noted.rate = first.rate /\ noted.min = first.min
        /\ noted.valid = first.valid /\ noted.state = first.state
    BY <1>4, <1>5 DEF Controls
  <2> HIDE DEF noted
  <2> QED
    BY <1>4, <2>1 DEF Dated
<1> HIDE DEF noted
<1>7. /\ Dated(changed) /\ changed.rate = first.rate /\ changed.min = first.min
      /\ changed.valid = first.valid
      /\ usage = "overusing" => changed.state = "decrease"
      /\ usage = "underusing" => changed.state = "hold"
      /\ usage = "normal" /\ first.state = "hold" =>
            changed.state = "increase" /\ changed.age = 0
  BY <1>6, ChangeStateInv
<1> HIDE DEF changed
<1>8. CASE ~first.valid /\ usage # "overusing"
  <2>1. n = noted
    BY <1>3, <1>8
  <2> QED
    BY <1>1, <1>2, <1>6, <1>8, <2>1 DEF ControlInv, n, first
<1>9. CASE (first.valid \/ usage = "overusing") /\ changed.state = "hold"
  <2> DEFINE rate == ClampBitrate(first, changed.rate)
  <2>1. changed \in Controls /\ (changed.link # None => changed.age # None)
    BY <1>7 DEF Dated
  <2>2. rate \in Nat /\ rate >= changed.min
    BY <1>4, <1>7, <2>1 DEF ClampBitrate, Larger, Controls
  <2>3. n = [changed EXCEPT !.rate = rate]
    BY <1>3, <1>9
  <2> HIDE DEF rate
  <2>4. /\ n \in Controls /\ n.rate = rate /\ n.min = changed.min
        /\ n.link = changed.link /\ n.age = changed.age
        /\ n.valid = changed.valid /\ n.state = "hold"
    BY <1>9, <2>1, <2>2, <2>3 DEF Controls
  <2>5. usage # "overusing"
    BY <1>7, <1>9
  <2> QED
    BY <1>2, <1>7, <1>9, <2>1, <2>2, <2>4, <2>5 DEF ControlInv, Dated, n
<1>10. CASE (first.valid \/ usage = "overusing") /\ changed.state = "increase"
  <2>1. n = Increase(changed, throughput, deviation)
    BY <1>3, <1>10
  <2>2. /\ ControlInv(n) /\ n.min = changed.min /\ n.valid = changed.valid
        /\ changed.age = 0 /\ changed.rate >= changed.min =>
                n.rate <= changed.rate + 1000
    BY <1>5, <1>7, <2>1, IncreaseInv
  <2>3. usage # "overusing"
    BY <1>7, <1>10
  <2>4. c.valid /\ c.state = "hold" => changed.age = 0
    BY <1>2, <1>7, <1>10, <2>3 DEF Usages
  <2> QED
    BY <1>1, <1>2, <1>7, <1>10, <2>2, <2>3, <2>4 DEF n
<1>11. CASE (first.valid \/ usage = "overusing")
            /\ changed.state \notin {"hold", "increase"}
  <2>1. n = Decrease(changed, throughput, deviation)
    BY <1>3, <1>11
  <2>2. /\ ControlInv(n) /\ n.min = changed.min /\ n.valid /\ n.state = "hold"
        /\ changed.rate >= changed.min => n.rate <= changed.rate
    BY <1>5, <1>7, <2>1, DecreaseInv
  <2> QED
    BY <1>1, <1>2, <1>7, <2>2 DEF n
<1> QED
  BY <1>8, <1>9, <1>10, <1>11

-----------------------------------------------------------------------------
(* The message *)

\* The whole of MaybeUpdateEstimate: the invariant, what is reported and what an
\* overuse or the end of a hold does to the rate.
LEMMA EstimatedInv ==
    ASSUME NEW c, ControlInv(c), NEW usage \in Usages,
           NEW acked \in Optional(Rates), NEW probe \in Optional(Rates),
           NEW deviation
    PROVE  LET n == Estimated(c, usage, acked, probe, deviation) IN
           /\ ControlInv(n) /\ n.min = c.min
           /\ ~Updated(c, usage, acked, probe, n) => n.rate = c.rate
           /\ c.valid /\ usage = "overusing" => n.rate <= c.rate
           /\ probe = None /\ c.valid /\ c.state = "hold" /\ n.state = "increase" =>
                n.rate <= c.rate + 1000
<1> DEFINE n == Estimated(c, usage, acked, probe, deviation)
           reduces == usage = "overusing" /\ acked # None
                        /\ TimeToReduceFurther(c, acked)
<1>1. c \in Controls /\ c.rate >= c.min /\ c.rate \in Nat /\ c.min \in Nat
  BY DEF ControlInv, Dated, Controls
<1>2. CASE Halves(c, usage, acked)
  <2>1. n = SetEstimate(c, c.rate \div 2)
    BY <1>2 DEF Estimated, Halves
  <2>2. c.rate \div 2 \in Nat /\ c.rate \div 2 <= c.rate
    BY <1>1
  <2>3. /\ ControlInv(n) /\ n.min = c.min /\ n.state = c.state
        /\ n.rate = Larger(c.rate \div 2, c.min)
    BY <2>1, <2>2, SetEstimateInv
  <2>4. n.rate <= c.rate
    BY <1>1, <2>2, <2>3 DEF Larger
  <2> HIDE DEF n
  <2> QED
    BY <1>2, <2>3, <2>4 DEF Updated, n
<1>3. CASE reduces
  <2>1. n = Update(c, usage, acked, deviation) /\ Updated(c, usage, acked, probe, n)
    BY <1>3 DEF Estimated, Halves, Updated
  <2> HIDE DEF n
  <2> QED
    BY <1>3, <2>1, UpdateInv DEF n
<1>4. CASE usage # "overusing" /\ probe # None
  <2>1. n = SetEstimate(c, probe) /\ probe \in Nat
    BY <1>4, RatesAssumption DEF Estimated, Halves, Optional
  <2>2. ControlInv(n) /\ n.min = c.min /\ n.valid
    BY <2>1, SetEstimateInv
  <2> HIDE DEF n
  <2> QED
    BY <1>4, <2>2 DEF Updated, n
<1>5. CASE usage # "overusing" /\ probe = None
  <2>1. n = Update(c, usage, acked, deviation)
    BY <1>5 DEF Estimated, Halves
  <2>2. /\ ControlInv(n) /\ n.min = c.min
        /\ ~n.valid => n.rate = c.rate
        /\ c.valid /\ c.state = "hold" /\ n.state = "increase" =>
                n.rate <= c.rate + 1000
    BY <2>1, UpdateInv
  <2> HIDE DEF n
  <2> QED
    BY <1>5, <2>2 DEF Updated, n
<1>6. CASE usage = "overusing" /\ ~Halves(c, usage, acked) /\ ~reduces
  <2>1. n = c
    BY <1>6 DEF Estimated
  <2> QED
    BY <1>1, <1>6, <2>1
<1> QED
  BY <1>2, <1>3, <1>4, <1>5, <1>6

\* What a feedback message does to the members.
LEMMA FeedbackStep ==
    ASSUME IInv, NEW time \in Times, NEW usage \in Usages,
           NEW acked \in Optional(Rates), NEW probe \in Optional(Rates),
           NEW deviation \in Deviations,
           IncomingPacketFeedbackVector(time, usage, acked, probe, deviation)
    PROVE  /\ ControlInv(rc') /\ rc'.min = rc.min /\ messages' \in Nat
           /\ rc'.rate # rc.rate => prevRate' = rc'.rate
           /\ rc.valid /\ usage = "overusing" => rc'.rate <= rc.rate
           /\ probe = None /\ rc.valid /\ rc.state = "hold"
                /\ rc'.state = "increase" => rc'.rate <= rc.rate + 1000
<1> DEFINE c == Aged(rc, time)
           n == Estimated(c, usage, acked, probe, deviation)
<1>1. /\ rc' = n
      /\ prevRate' = IF Updated(c, usage, acked, probe, n) THEN n.rate ELSE prevRate
      /\ messages' = messages + 1
  BY DEF IncomingPacketFeedbackVector, MaybeUpdateEstimate
<1>2. time \in Nat
  BY TimesAssumption
<1>3. /\ ControlInv(c) /\ c.rate = rc.rate /\ c.min = rc.min
      /\ c.valid = rc.valid /\ c.state = rc.state
  BY <1>2, AgedInv DEF IInv
<1> HIDE DEF c
<1>4. /\ ControlInv(n) /\ n.min = c.min
      /\ ~Updated(c, usage, acked, probe, n) => n.rate = c.rate
      /\ c.valid /\ usage = "overusing" => n.rate <= c.rate
      /\ probe = None /\ c.valid /\ c.state = "hold" /\ n.state = "increase" =>
                n.rate <= c.rate + 1000
  BY <1>3, EstimatedInv
<1> HIDE DEF n
<1> QED
  BY <1>1, <1>3, <1>4 DEF IInv

\* The other steps bring no message.
LEMMA QuietStep ==
    ASSUME IInv, UNCHANGED messages
    PROVE  ~Feedback
BY DEF IInv, Feedback

-----------------------------------------------------------------------------
\* The invariant holds after the first constraints.
LEMMA InitInv == Init => IInv
<1> SUFFICES ASSUME NEW start \in Rates, Init,
                    rc = ResetConstraints(NewRateControl, start, MinBitrate)
             PROVE  IInv
  BY DEF Init
<1>1. MinBitrate \in Nat /\ start \in Optional(Rates)
  BY DEF MinBitrate, Optional
<1>2. ControlInv(rc) /\ rc.min = MinBitrate
  BY <1>1, NewDated, ResetInv
<1>3. MinDataRate(0, 0) = MinBitrate
  BY DEF MinDataRate, Larger, MinBitrate
<1> QED
  BY <1>2, <1>3 DEF Init, IInv

\* Every step keeps it.
LEMMA NextInv == IInv /\ [Next]_vars => IInv'
<1> SUFFICES ASSUME IInv, [Next]_vars
             PROVE  IInv'
  OBVIOUS
<1>1. ASSUME NEW time \in Times, NEW usage \in Usages,
             NEW acked \in Optional(Rates), NEW probe \in Optional(Rates),
             NEW deviation \in Deviations,
             IncomingPacketFeedbackVector(time, usage, acked, probe, deviation)
      PROVE  IInv'
  <2>1. UNCHANGED <<minTarget, minAllocated>>
    BY <1>1 DEF IncomingPacketFeedbackVector
  <2> QED
    BY <1>1, <2>1, FeedbackStep DEF IInv
<1>2. ASSUME NEW start \in Optional(Rates), NEW min \in Rates,
             OnTargetRateConstraints(start, min)
      PROVE  IInv'
  <2>1. min \in Nat /\ MinDataRate(min, minAllocated) \in Nat
    BY RatesAssumption, MinDataRateType DEF IInv
  <2>2. /\ ControlInv(rc') /\ rc'.min = MinDataRate(min, minAllocated)
    BY <1>2, <2>1, ResetInv DEF IInv, ControlInv, OnTargetRateConstraints
  <2> QED
    BY <1>2, <2>1, <2>2 DEF IInv, OnTargetRateConstraints
<1>3. ASSUME NEW start \in Optional(Rates), NEW min \in Rates,
             OnNetworkRouteChange(start, min)
      PROVE  IInv'
  <2>1. min \in Nat /\ MinDataRate(min, minAllocated) \in Nat
    BY RatesAssumption, MinDataRateType DEF IInv
  <2>2. /\ ControlInv(rc') /\ rc'.min = MinDataRate(min, minAllocated)
    BY <1>3, <2>1, NewDated, ResetInv DEF OnNetworkRouteChange
  <2> QED
    BY <1>3, <2>1, <2>2 DEF IInv, OnNetworkRouteChange
<1>4. ASSUME NEW allocated \in Rates, OnStreamsConfig(allocated)
      PROVE  IInv'
  <2>1. allocated \in Nat /\ MinDataRate(minTarget, allocated) \in Nat
    BY RatesAssumption, MinDataRateType DEF IInv
  <2>2. /\ ControlInv(rc') /\ rc'.min = MinDataRate(minTarget, allocated)
    BY <1>4, <2>1, MinInv DEF IInv, ControlInv, OnStreamsConfig
  <2> QED
    BY <1>4, <2>1, <2>2 DEF IInv, OnStreamsConfig
<1>5. ASSUME NEW rtt \in Rtts, OnRttUpdate(rtt)
      PROVE  IInv'
  <2>1. rtt \in Nat
    BY TimesAssumption
  <2> QED
    BY <1>5, <2>1, RttInv DEF IInv, OnRttUpdate
<1>6. CASE UNCHANGED vars
  BY <1>6 DEF IInv, vars, members
<1> QED
  BY <1>1, <1>2, <1>3, <1>4, <1>5, <1>6 DEF Next

\* The three action properties, for one step.
LEMMA StepProperties ==
    ASSUME IInv, [Next]_vars, Feedback
    PROVE  /\ rc'.rate # rc.rate => prevRate' = rc'.rate
           /\ rc.valid /\ last'.usage = "overusing" => rc'.rate <= rc.rate
           /\ last'.probe = None /\ rc.valid /\ rc.state = "hold"
                /\ rc'.state = "increase" => rc'.rate <= rc.rate + 1000
<1>1. messages' # messages
  BY QuietStep
<1>2. PICK time \in Times, usage \in Usages, acked \in Optional(Rates),
           probe \in Optional(Rates), deviation \in Deviations :
             IncomingPacketFeedbackVector(time, usage, acked, probe, deviation)
  BY <1>1 DEF Next, vars, OnTargetRateConstraints, OnNetworkRouteChange,
              OnStreamsConfig, OnRttUpdate
<1>3. last'.usage = usage /\ last'.probe = probe
  BY <1>2 DEF IncomingPacketFeedbackVector, Message
<1> QED
  BY <1>2, <1>3, FeedbackStep

\* The inductive invariant holds in every reachable state.
THEOREM Invariance == Spec => []IInv
BY InitInv, NextInv, PTL DEF Spec

\* Increase always has a rate above 0, which respects every minimum, and with a
\* link capacity a time to compute with.
THEOREM AlwaysDefined == Spec => []IncreaseDefined
<1>1. IInv => IncreaseDefined
  BY MinDataRateType DEF IInv, ControlInv, Dated, Controls, IncreaseDefined
<1> QED
  BY <1>1, Invariance, PTL

\* MaybeUpdateEstimate changes no rate without reporting it.
THEOREM NothingHidden == Spec => ChangesReported
<1>1. IInv /\ [Next]_vars =>
        [Feedback /\ rc'.rate # rc.rate => prevRate' = rc'.rate]_vars
  BY StepProperties
<1> QED
  BY <1>1, Invariance, PTL DEF Spec, ChangesReported

\* An overuse never raises an estimate, in any of the ways it can be lowered.
THEOREM OveruseLowers == Spec => OveruseNeverRaises
<1>1. IInv /\ [Next]_vars =>
        [Feedback /\ rc.valid /\ last'.usage = "overusing" =>
            rc'.rate <= rc.rate]_vars
  BY StepProperties
<1> QED
  BY <1>1, Invariance, PTL DEF Spec, OveruseNeverRaises

\* However long a hold was, the first increase after it is at most 1 kbit/s.
THEOREM GentleRecovery == Spec => RecoversGently
<1>1. IInv /\ [Next]_vars =>
        [Feedback /\ last'.probe = None /\ rc.valid
            /\ rc.state = "hold" /\ rc'.state = "increase" =>
                rc'.rate <= rc.rate + 1000]_vars
  BY StepProperties
<1> QED
  BY <1>1, Invariance, PTL DEF Spec, RecoversGently

=============================================================================
