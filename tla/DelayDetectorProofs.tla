-------------------------- MODULE DelayDetectorProofs --------------------------
(***************************************************************************)
(* The two parts of the delay detector, which DelayBasedBwe runs on every   *)
(* packet of a feedback message: InterArrivalDelta, for all times of        *)
(* packets and feedback, and TrendlineEstimator, for every set of slopes,   *)
(* steps and deltas and any number of samples.  WellFoundedInduction gives  *)
(* the least place at which the loop over the window stops.                 *)
(***************************************************************************)
EXTENDS TrendlineEstimator, InterArrivalDelta, WellFoundedInduction, TLAPS

-----------------------------------------------------------------------------
(* TrendlineEstimator *)


(***************************************************************************)
(* The inductive invariant.  Lead is what OveruseReachesEncoder and         *)
(* EncoderSignalLeads need of the state before a sample: while samples      *)
(* above the threshold are being counted the ratio is above 2.0.  Quiet is  *)
(* what UsageRestsOnFit needs: before the first fit the trend is 0.         *)
(***************************************************************************)
Lead(e) ==
    /\ e.hypothesis = "overusing" => e.aggressive = "over"
    /\ e.counter >= 1 => e.aggressive = "over" /\ e.deltas >= 2

Quiet(e) ==
    /\ e.fit # 0 => e.fit >= 2
    /\ e.fit = 0 => e.prevTrend = 0 /\ e.hypothesis = "normal"

EstInv(e) == e \in Estimators /\ Lead(e) /\ Quiet(e)

IInv == TypeOK /\ EstInv(est)

\* The loop over the window stops, and leaves two samples if it drops any.
LEMMA DroppedStops ==
    ASSUME NEW w \in Seq(Int), Len(w) > 0
    PROVE  /\ Dropped(w) \in 0..(Len(w) - 1)
           /\ Dropped(w) > 0 => Len(w) - Dropped(w) >= 2
<1> DEFINE S == StopsAt(w)
           R == OpToRel(<, Nat)
<1>1. S \subseteq Nat /\ S \subseteq 0..(Len(w) - 1)
  BY DEF StopsAt
<1>2. Len(w) - 1 \in S
  BY DEF StopsAt
<1>3. \E k \in S : \A j \in S : ~(<<j, k>> \in R)
  <2>1. IsWellFoundedOn(R, Nat)
    BY NatLessThanWellFounded
  <2>2. S # {}
    BY <1>2
  <2> HIDE DEF S, R
  <2> QED
    BY <1>1, <2>1, <2>2, WFMin
<1>4. \E k \in S : \A j \in S : k <= j
  <2>1. PICK k \in S : \A j \in S : ~(<<j, k>> \in R)
    BY <1>3
  <2>2. ASSUME NEW j \in S
        PROVE  k <= j
    <3>1. j \in Nat /\ k \in Nat
      BY <1>1
    <3>2. ~(<<j, k>> \in R)
      BY <2>1
    <3>3. ~(j < k)
      BY <3>1, <3>2 DEF OpToRel
    <3> QED
      BY <3>1, <3>3
  <2> QED
    BY <2>2
<1>5. Dropped(w) \in S /\ \A j \in S : Dropped(w) <= j
  BY <1>4 DEF Dropped
<1>6. ASSUME Dropped(w) > 0
      PROVE  Len(w) - Dropped(w) >= 2
  <2>1. Dropped(w) \in Nat /\ Dropped(w) - 1 \in 0..(Len(w) - 1)
    BY <1>1, <1>5, <1>6
  <2>2. Dropped(w) - 1 \notin S
    BY <1>5, <2>1
  <2>3. ~(Len(w) - (Dropped(w) - 1) <= 2)
    BY <2>1, <2>2 DEF StopsAt
  <2> QED
    BY <2>1, <2>3
<1> QED
  BY <1>1, <1>5, <1>6

\* The adapted threshold is within its limits.
LEMMA AdaptedInRange ==
    ASSUME NEW t \in Int, NEW m \in Int, NEW d \in Int
    PROVE  Adapted(t, m, d) \in Thresholds
<1>1. ASSUME NEW x \in Int
      PROVE  SafeClamp(x) \in Thresholds
  BY DEF SafeClamp, Thresholds, MinThreshold, MaxThreshold
<1> DEFINE k == IF Abs(m) < t THEN 390 ELSE 87
           p == k * (Abs(m) - t) * Least(d, 100)
<1>2. Abs(m) \in Int /\ Least(d, 100) \in Int /\ k \in Int
  BY DEF Abs, Least
<1>3. p \in Int
  <2> HIDE DEF k
  <2> QED
    BY <1>2
<1>4. t + p \div 10000 \in Int
  <2> HIDE DEF p
  <2> QED
    BY <1>3
<1>5. Adapted(t, m, d) = SafeClamp(t + p \div 10000)
  BY DEF Adapted
<1> HIDE DEF p
<1> QED
  BY <1>1, <1>4, <1>5

\* UpdateThreshold changes the threshold and the time of its update alone, and
\* keeps the invariant.
LEMMA UpdateThresholdInv ==
    ASSUME NEW e, EstInv(e), NEW m \in Int, NEW now \in Int
    PROVE  /\ EstInv(UpdateThreshold(e, m, now))
           /\ UpdateThreshold(e, m, now).hypothesis = e.hypothesis
<1>1. e \in Estimators
  BY DEF EstInv
<1>2. e.threshold \in Int /\ e.update \in Int /\ e.threshold \in Thresholds
  BY <1>1 DEF Estimators, Thresholds
<1> DEFINE last == IF e.update = None THEN now ELSE e.update
           t == IF Abs(m) > e.threshold + MaxAdaptOffset THEN e.threshold
                ELSE Adapted(e.threshold, m, now - last)
           f == [e EXCEPT !.update = now, !.threshold = t]
<1>3. t \in Thresholds
  <2>1. now - last \in Int
    BY <1>2
  <2> HIDE DEF last
  <2>2. Adapted(e.threshold, m, now - last) \in Thresholds
    BY <1>2, <2>1, AdaptedInRange
  <2> QED
    BY <1>2, <2>2
<1>4. UpdateThreshold(e, m, now) = f
  BY <1>1 DEF UpdateThreshold, Estimators
<1> HIDE DEF t
<1>5. f \in Estimators
  BY <1>1, <1>3 DEF Estimators
<1>6. /\ f.hypothesis = e.hypothesis /\ f.counter = e.counter
      /\ f.deltas = e.deltas /\ f.aggressive = e.aggressive
      /\ f.fit = e.fit /\ f.prevTrend = e.prevTrend
  BY <1>1 DEF Estimators
<1> HIDE DEF f
<1>7. Lead(f) /\ Quiet(f)
  BY <1>6 DEF Lead, Quiet, EstInv
<1> QED
  BY <1>4, <1>5, <1>6, <1>7 DEF EstInv

\* What Detect has decided before the threshold is adapted.
Judged(e, trend, m, delta) ==
    [DetectUsage(e, trend, m, delta) EXCEPT
        !.aggressive = AggressiveRatio(e.threshold, m), !.prevTrend = trend]

\* DetectUsage with the ratio of the same sample keeps Lead, whatever the
\* threshold: overuse and counting happen above it only.
LEMMA DetectUsageLeads ==
    ASSUME NEW e \in Estimators, NEW trend \in Int, NEW m \in Int,
           NEW delta \in Int, Lead(e), e.deltas >= 2, NEW d,
           d = Judged(e, trend, m, delta)
    PROVE  /\ d \in Estimators
           /\ Lead(d)
           /\ d.fit = e.fit /\ d.prevTrend = trend
           /\ m = 0 => d.hypothesis = "normal"
           /\ d.hypothesis = "overusing" =>
                e.hypothesis = "overusing" \/ e.counter >= 1
<1>1. e.threshold \in Nat /\ e.threshold >= 600 /\ e.timer \in Int
      /\ e.counter \in Nat
  BY DEF Estimators, Thresholds, MinThreshold
<1>2. AggressiveRatio(e.threshold, m) \in Ratios
  BY DEF AggressiveRatio, Ratios
<1>3. m > e.threshold => AggressiveRatio(e.threshold, m) = "over"
  BY DEF AggressiveRatio
<1> DEFINE u == DetectUsage(e, trend, m, delta)
<1>4. u \in Estimators
  <2>1. CASE m > e.threshold
    <3> DEFINE timer == IF e.timer = NoTimer THEN delta ELSE e.timer + 2 * delta
               counter == e.counter + 1
    <3>1. timer \in Int /\ counter \in Nat
      BY <1>1
    <3>2. \/ u = [e EXCEPT !.timer = 0, !.counter = 0, !.hypothesis = "overusing"]
          \/ u = [e EXCEPT !.timer = timer, !.counter = counter]
      BY <2>1 DEF DetectUsage
    <3> HIDE DEF timer, counter, u
    <3>3. [e EXCEPT !.timer = timer, !.counter = counter] \in Estimators
      BY <3>1 DEF Estimators
    <3>4. [e EXCEPT !.timer = 0, !.counter = 0, !.hypothesis = "overusing"]
            \in Estimators
      <4>1. ASSUME NEW h \in Usages, NEW i \in Int, NEW n \in Nat
            PROVE  [e EXCEPT !.timer = i, !.counter = n, !.hypothesis = h]
                        \in Estimators
        BY DEF Estimators
      <4>2. "overusing" \in Usages /\ 0 \in Int /\ 0 \in Nat
        BY DEF Usages
      <4> QED
        BY <4>1, <4>2
    <3> QED
      BY <3>2, <3>3, <3>4
  <2>2. CASE ~(m > e.threshold)
    <3> DEFINE h == IF m < -e.threshold THEN "underusing" ELSE "normal"
    <3>1. u = [e EXCEPT !.timer = NoTimer, !.counter = 0, !.hypothesis = h]
      BY <2>2 DEF DetectUsage
    <3>2. h \in Usages
      BY DEF Usages
    <3>3. NoTimer \in Int
      BY DEF NoTimer
    <3> HIDE DEF h, u
    <3> QED
      BY <3>1, <3>2, <3>3 DEF Estimators
  <2> QED
    BY <2>1, <2>2
<1>5. /\ u.hypothesis = "overusing" => m > e.threshold
      /\ u.counter >= 1 => m > e.threshold
      /\ u.fit = e.fit /\ u.deltas = e.deltas
      /\ m = 0 => u.hypothesis = "normal"
      /\ u.hypothesis = "overusing" =>
            e.hypothesis = "overusing" \/ e.counter >= 1
  BY <1>1 DEF DetectUsage, Estimators
<1>10. d = [u EXCEPT !.aggressive = AggressiveRatio(e.threshold, m),
                     !.prevTrend = trend]
  BY DEF Judged
<1> HIDE DEF u
<1>6. d \in Estimators
  BY <1>2, <1>4, <1>10 DEF Estimators
<1>7. /\ d.hypothesis = u.hypothesis /\ d.counter = u.counter
      /\ d.fit = u.fit /\ d.prevTrend = trend /\ d.deltas = u.deltas
      /\ d.aggressive = AggressiveRatio(e.threshold, m)
  BY <1>4, <1>10 DEF Estimators
<1>8. Lead(d)
  BY <1>3, <1>5, <1>7 DEF Lead
<1>9. /\ d.fit = e.fit /\ d.prevTrend = trend
      /\ m = 0 => d.hypothesis = "normal"
      /\ d.hypothesis = "overusing" =>
            e.hypothesis = "overusing" \/ e.counter >= 1
  BY <1>5, <1>7
<1> QED
  BY <1>6, <1>8, <1>9

\* Detect keeps the invariant, given a trend that is 0 before the first fit.
LEMMA DetectInv ==
    ASSUME NEW e \in Estimators, Lead(e), NEW trend \in Int, NEW delta \in Int,
           NEW now \in Int, e.fit # 0 => e.fit >= 2,
           e.fit = 0 => trend = 0 /\ e.prevTrend = 0
    PROVE  /\ EstInv(Detect(e, trend, delta, now))
           /\ Detect(e, trend, delta, now).hypothesis = "overusing" =>
                e.hypothesis = "overusing" \/ e.counter >= 1
<1>1. CASE e.deltas < 2
  <2> DEFINE f == [e EXCEPT !.hypothesis = "normal", !.aggressive = "one"]
  <2>1. Detect(e, trend, delta, now) = f
    BY <1>1 DEF Detect
  <2>2. f \in Estimators
    BY DEF Estimators, Usages, Ratios
  <2>3. /\ f.hypothesis = "normal" /\ f.counter = e.counter
        /\ f.fit = e.fit /\ f.prevTrend = e.prevTrend
    BY DEF Estimators
  <2>4. ~(e.counter >= 1)
    BY <1>1 DEF Lead, Estimators
  <2> HIDE DEF f
  <2>5. Lead(f) /\ Quiet(f)
    BY <2>3, <2>4 DEF Lead, Quiet
  <2> QED
    BY <2>1, <2>2, <2>3, <2>5 DEF EstInv
<1>2. CASE ~(e.deltas < 2)
  <2>1. Least(e.deltas, MinNumDeltas) \in Int
    BY CountersAssumption DEF Least, Estimators
  <2>2. PICK m \in Int : /\ m = Least(e.deltas, MinNumDeltas) * trend * Gain
                         /\ trend = 0 => m = 0
    BY <2>1 DEF Gain
  <2>3. PICK d : d = Judged(e, trend, m, delta)
    OBVIOUS
  <2>4. e.deltas >= 2
    BY <1>2 DEF Estimators
  <2>5. /\ d \in Estimators /\ Lead(d)
        /\ d.fit = e.fit /\ d.prevTrend = trend
        /\ m = 0 => d.hypothesis = "normal"
        /\ d.hypothesis = "overusing" =>
                e.hypothesis = "overusing" \/ e.counter >= 1
    BY <2>3, <2>4, DetectUsageLeads
  <2>6. Detect(e, trend, delta, now) = UpdateThreshold(d, m, now)
    BY <1>2, <2>2, <2>3 DEF Detect, Judged
  <2>7. Quiet(d)
    BY <2>2, <2>5 DEF Quiet
  <2>8. EstInv(d)
    BY <2>5, <2>7 DEF EstInv
  <2> QED
    BY <2>5, <2>6, <2>8, UpdateThresholdInv
<1> QED
  BY <1>1, <1>2

\* A sample keeps the invariant, and declares a new overuse only if the ratio
\* was above 2.0 before.
LEMMA UpdateTrendlineInv ==
    ASSUME NEW e, EstInv(e), NEW slope \in Int, NEW delta \in Int,
           NEW now \in Int
    PROVE  /\ EstInv(UpdateTrendline(e, slope, delta, now))
           /\ UpdateTrendline(e, slope, delta, now).hypothesis = "overusing" =>
                e.hypothesis = "overusing" \/ e.aggressive = "over"
<1> DEFINE w == Append(e.window, now)
           k == Dropped(w)
           window == SubSeq(w, k + 1, Len(w))
           n == Least(e.deltas + 1, DeltaCounterMax)
           fit == IF k > 0 THEN Len(window) ELSE e.fit
           c == [e EXCEPT !.deltas = n, !.window = window, !.fit = fit]
           trend == IF k > 0 /\ HasSlope(window) THEN slope ELSE e.prevTrend
<1>1. e \in Estimators
  BY DEF EstInv
<1>2. w \in Seq(Int) /\ Len(w) > 0
  BY <1>1 DEF Estimators
<1>3. k \in 0..(Len(w) - 1) /\ (k > 0 => Len(w) - k >= 2)
  <2> HIDE DEF w
  <2> QED
    BY <1>2, DroppedStops
<1>4. window \in Seq(Int) /\ Len(window) = Len(w) - k
  <2> HIDE DEF w, k
  <2> QED
    BY <1>2, <1>3
<1>5. n \in Nat
  BY <1>1, CountersAssumption DEF Least, Estimators
<1>6. /\ fit \in Nat
      /\ fit # 0 => fit >= 2
      /\ fit = 0 => e.fit = 0 /\ k = 0
  <2>1. e.fit \in Nat /\ (e.fit # 0 => e.fit >= 2)
    BY <1>1 DEF Estimators, EstInv, Quiet
  <2> HIDE DEF w, k, window
  <2> QED
    BY <1>2, <1>3, <1>4, <2>1
<1>7. trend \in Int
  BY <1>1 DEF Estimators
<1>8. fit = 0 => trend = 0 /\ e.prevTrend = 0
  <2> HIDE DEF fit, w, k, window
  <2>1. k = 0 => trend = e.prevTrend
    OBVIOUS
  <2>2. e.fit = 0 => e.prevTrend = 0
    BY DEF EstInv, Quiet
  <2> HIDE DEF trend
  <2> QED
    BY <1>6, <2>1, <2>2
<1>13. e.deltas >= 2 => n >= 2
  BY <1>1, CountersAssumption DEF Least, Estimators
<1>9. UpdateTrendline(e, slope, delta, now) = Detect(c, trend, delta, now)
  BY DEF UpdateTrendline
<1> HIDE DEF window, n, fit, k, w
<1>10. c \in Estimators
  BY <1>1, <1>4, <1>5, <1>6 DEF Estimators
<1>11. /\ c.fit = fit /\ c.prevTrend = e.prevTrend /\ c.counter = e.counter
       /\ c.hypothesis = e.hypothesis /\ c.aggressive = e.aggressive
       /\ c.deltas = n
  BY <1>1 DEF Estimators
<1> HIDE DEF c, trend
<1>12. Lead(c)
  BY <1>11, <1>13 DEF Lead, EstInv
<1>14. /\ EstInv(Detect(c, trend, delta, now))
       /\ Detect(c, trend, delta, now).hypothesis = "overusing" =>
            c.hypothesis = "overusing" \/ c.counter >= 1
  BY <1>6, <1>7, <1>8, <1>10, <1>11, <1>12, DetectInv
<1>15. c.counter >= 1 => e.aggressive = "over"
  BY <1>11 DEF EstInv, Lead
<1> QED
  BY <1>9, <1>11, <1>14, <1>15

\* A new estimator satisfies the invariant.
LEMMA NewEstimatorInv == EstInv(NewEstimator)
<1>1. NewEstimator \in Estimators
  <2>1. 1250 \in Thresholds
    BY DEF Thresholds, MinThreshold, MaxThreshold
  <2>2. None \in Int /\ NoTimer \in Int /\ << >> \in Seq(Int)
    BY DEF None, NoTimer
  <2> QED
    BY <2>1, <2>2 DEF NewEstimator, Estimators, Usages, Ratios
<1> QED
  BY <1>1 DEF EstInv, Lead, Quiet, NewEstimator

\* The invariant holds in every reachable state: it is what Update and TimeOut
\* preserve.
THEOREM Invariance == Spec => []IInv
<1>1. Init => IInv
  BY NewEstimatorInv DEF Init, IInv, TypeOK, EstInv
<1>2. IInv /\ [Next]_vars => IInv'
  <2> SUFFICES ASSUME IInv, [Next]_vars PROVE IInv'
    OBVIOUS
  <2> USE DEF IInv, TypeOK
  <2>1. CASE Update
    <3>1. PICK step \in ArrivalSteps, slope \in Slopes, delta \in SendDeltas :
            /\ clock + step >= 0
            /\ clock' = clock + step
            /\ est' = UpdateTrendline(est, slope, delta, clock + step)
      BY <2>1 DEF Update
    <3>2. step \in Int /\ slope \in Int /\ delta \in Int
      BY StepsAssumption, SlopesAssumption
    <3>3. EstInv(est')
      BY <3>1, <3>2, UpdateTrendlineInv
    <3>4. clock' \in Nat /\ samples' \in Nat
      BY <2>1, <3>1, <3>2 DEF Update
    <3> QED
      BY <3>3, <3>4 DEF EstInv
  <2>2. CASE TimeOut
    BY <2>2, NewEstimatorInv DEF TimeOut, EstInv
  <2>3. CASE UNCHANGED vars
    BY <2>3 DEF vars, EstInv, Lead, Quiet
  <2> QED
    BY <2>1, <2>2, <2>3 DEF Next
<1> QED
  BY <1>1, <1>2, PTL DEF Spec

\* The members are well formed and the threshold keeps its limits.
THEOREM TypeCorrect == Spec => []TypeOK
<1>1. IInv => TypeOK
  BY DEF IInv
<1> QED
  BY <1>1, Invariance, PTL

\* An overuse the congestion controller hears of is one for the encoder.
THEOREM OveruseShared == Spec => []OveruseReachesEncoder
<1>1. IInv => OveruseReachesEncoder
  BY DEF IInv, EstInv, Lead, OveruseReachesEncoder
<1> QED
  BY <1>1, Invariance, PTL

\* The encoder hears of an overuse at least a sample before the congestion
\* controller.
THEOREM EncoderFirst == Spec => EncoderSignalLeads
<1> DEFINE A == est.hypothesis # "overusing" /\ est'.hypothesis = "overusing" =>
                    est.aggressive = "over"
<1>1. IInv /\ [Next]_vars => [A]_vars
  <2> SUFFICES ASSUME IInv, Next PROVE A
    OBVIOUS
  <2>1. CASE Update
    <3>1. PICK step \in ArrivalSteps, slope \in Slopes, delta \in SendDeltas :
            est' = UpdateTrendline(est, slope, delta, clock + step)
      BY <2>1 DEF Update
    <3>2. clock + step \in Int /\ slope \in Int /\ delta \in Int
      BY StepsAssumption, SlopesAssumption DEF IInv, TypeOK
    <3>3. EstInv(est)
      BY DEF IInv
    <3> QED
      BY <3>1, <3>2, <3>3, UpdateTrendlineInv
  <2>2. CASE TimeOut
    BY <2>2 DEF TimeOut, NewEstimator
  <2> QED
    BY <2>1, <2>2 DEF Next
<1> QED
  BY <1>1, Invariance, PTL DEF Spec, EncoderSignalLeads

\* No usage is reported before a line was fitted to at least two samples.
THEOREM FitFirst == Spec => []UsageRestsOnFit
<1>1. IInv => UsageRestsOnFit
  BY DEF IInv, EstInv, Quiet, UsageRestsOnFit
<1> QED
  BY <1>1, Invariance, PTL

-----------------------------------------------------------------------------
(* InterArrivalDelta *)

\* The history is a number, and the parts of the members that are checked.
DeltaInv ==
    /\ DeltaTypeOK /\ GroupsApart /\ DeltasTelescope
    /\ base \in Int /\ sum \in Int

\* Without packets there are no groups and nothing was reported.
LEMMA DeltaInitInv == DeltaInit => DeltaInv
BY ThresholdsAssumption
   DEF DeltaInit, DeltaInv, DeltaTypeOK, GroupsApart, DeltasTelescope, Groups, NoGroup,
       IsFirstPacket, Infinite

\* A group of one packet is well formed, and not empty.
LEMMA GroupOfOne ==
    ASSUME NEW send \in Nat, NEW arrival \in Nat, NEW system \in Nat
    PROVE  /\ Group(send, arrival, system) \in Groups
           /\ ~IsFirstPacket(Group(send, arrival, system))
           /\ Group(send, arrival, system).first_send_time = send
           /\ Group(send, arrival, system).send_time = send
           /\ Group(send, arrival, system).complete_time = arrival
BY DEF Group, Groups, IsFirstPacket, Infinite

\* One more packet leaves the beginning of a group where it is.
LEMMA JoinedGroup ==
    ASSUME NEW group \in Groups, group.first_send_time <= group.send_time,
           NEW send \in Nat, NEW arrival \in Nat, NEW system \in Nat
    PROVE  LET g == Joined(group, send, arrival, system) IN
           /\ g \in Groups /\ ~IsFirstPacket(g)
           /\ g.first_send_time = group.first_send_time
           /\ g.first_send_time <= g.send_time
<1> DEFINE last == IF send > group.send_time THEN send ELSE group.send_time
           g == Joined(group, send, arrival, system)
<1>1. last \in Int /\ group.first_send_time <= last
  BY DEF Groups
<1>2. g = [group EXCEPT !.send_time = last, !.complete_time = arrival,
                        !.last_system_time = system]
  BY DEF Joined
<1> HIDE DEF last, g
<1>3. group = [first_send_time |-> group.first_send_time,
               send_time |-> group.send_time,
               first_arrival |-> group.first_arrival,
               complete_time |-> group.complete_time,
               last_system_time |-> group.last_system_time]
  BY DEF Groups
<1>4. g = [first_send_time |-> group.first_send_time, send_time |-> last,
           first_arrival |-> group.first_arrival,
           complete_time |-> arrival, last_system_time |-> system]
  BY <1>2, <1>3, Zenon
<1>5. /\ g \in Groups
      /\ g.first_send_time = group.first_send_time
      /\ g.send_time = last /\ g.complete_time = arrival
  BY <1>1, <1>4 DEF Groups
<1> QED
  BY <1>1, <1>5 DEF g, IsFirstPacket, Infinite

\* A packet that starts a group was sent a group length after the current one
\* began.
LEMMA StartsApart ==
    ASSUME DeltaInv, NEW send \in Nat, NEW arrival \in Nat, StartsGroup(send, arrival)
    PROVE  send > current.first_send_time + GroupLength
BY ThresholdsAssumption
   DEF DeltaInv, DeltaTypeOK, Groups, StartsGroup, NewTimestampGroup

\* A reset leads back to the initial state.
LEMMA DeltaResetInv == Reset => DeltaInv'
BY ThresholdsAssumption
   DEF Reset, DeltaInv, DeltaTypeOK, GroupsApart, DeltasTelescope, Groups, NoGroup,
       IsFirstPacket, Infinite

\* Each way a packet is handled preserves the invariant.
LEMMA PacketInv ==
    ASSUME DeltaInv,
           NEW send \in Nat, NEW arrival \in Nat, NEW system \in Nat,
           Packet(send, arrival, system)
    PROVE  DeltaInv'
<1> DEFINE group == Group(send, arrival, system)
<1>1. /\ current \in Groups /\ prev \in Groups
      /\ reordered \in 0..(ReorderedResetThreshold - 1)
      /\ base \in Int /\ sum \in Int
  BY DEF DeltaInv, DeltaTypeOK
<1>2. /\ group \in Groups /\ ~IsFirstPacket(group)
      /\ group.first_send_time = send /\ group.send_time = send
      /\ group.complete_time = arrival
  BY GroupOfOne
<1> HIDE DEF group
<1>3. CASE FirstPacket(send, arrival, system)
  <2>1. IsFirstPacket(current) /\ IsFirstPacket(prev)
    BY <1>3 DEF FirstPacket, DeltaInv, DeltaTypeOK
  <2>2. current' = group /\ prev' = prev /\ reordered' = reordered
        /\ base' = base /\ sum' = sum
    BY <1>3 DEF FirstPacket, group, history
  <2>3. DeltaTypeOK'
    BY <1>1, <1>2, <2>2 DEF DeltaTypeOK, IsFirstPacket
  <2>4. GroupsApart'
    BY <1>2, <2>1, <2>2 DEF GroupsApart, IsFirstPacket
  <2>5. DeltasTelescope'
    BY <2>2 DEF DeltaInv, DeltasTelescope, IsFirstPacket
  <2> QED
    BY <1>1, <2>2, <2>3, <2>4, <2>5 DEF DeltaInv
<1>4. CASE ReorderedPacket(send)
  BY <1>4 DEF ReorderedPacket, members, history, DeltaInv, DeltaTypeOK, GroupsApart,
              DeltasTelescope, IsFirstPacket
<1>5. CASE JoinGroup(send, arrival, system)
  <2> DEFINE joined == Joined(current, send, arrival, system)
  <2>1. /\ joined \in Groups /\ ~IsFirstPacket(joined)
        /\ joined.first_send_time = current.first_send_time
        /\ joined.first_send_time <= joined.send_time
    BY <1>1, JoinedGroup DEF DeltaInv, GroupsApart
  <2>2. current' = joined /\ prev' = prev /\ reordered' = reordered
        /\ base' = base /\ sum' = sum
    BY <1>5 DEF JoinGroup, history
  <2> HIDE DEF joined
  <2>3. DeltaTypeOK'
    BY <1>1, <2>1, <2>2 DEF DeltaTypeOK, IsFirstPacket
  <2>4. GroupsApart'
    BY <2>1, <2>2 DEF DeltaInv, GroupsApart, IsFirstPacket
  <2>5. DeltasTelescope'
    BY <2>2 DEF DeltaInv, DeltasTelescope, IsFirstPacket
  <2> QED
    BY <1>1, <2>2, <2>3, <2>4, <2>5 DEF DeltaInv
<1>6. CASE SecondGroup(send, arrival, system)
  <2>1. /\ ~IsFirstPacket(current) /\ IsFirstPacket(prev)
        /\ send > current.first_send_time + GroupLength
    BY <1>6, StartsApart DEF SecondGroup, StartsGroup
  <2>2. /\ current' = group /\ prev' = current /\ reordered' = reordered
        /\ base' = current.complete_time /\ sum' = sum
    BY <1>6 DEF SecondGroup, group
  <2>3. DeltaTypeOK'
    BY <1>1, <1>2, <2>2 DEF DeltaTypeOK, IsFirstPacket
  <2>4. GroupsApart'
    BY <1>2, <2>1, <2>2 DEF GroupsApart, IsFirstPacket
  <2>5. sum = 0 /\ current.complete_time \in Int
    BY <1>1, <2>1 DEF DeltaInv, DeltasTelescope, Groups
  <2>6. DeltasTelescope'
    BY <2>2, <2>5 DEF DeltasTelescope, IsFirstPacket
  <2> QED
    BY <1>1, <2>2, <2>3, <2>4, <2>5, <2>6 DEF DeltaInv
<1>7. CASE ClockJump(send, arrival)
  BY <1>7, DeltaResetInv DEF ClockJump
<1>8. CASE DisorderedGroup(send, arrival)
  <2>1. CASE Reset
    BY <2>1, DeltaResetInv
  <2>2. CASE ~Reset
    <3>1. /\ reordered' = reordered + 1 /\ reordered + 1 < ReorderedResetThreshold
          /\ current' = current /\ prev' = prev /\ base' = base /\ sum' = sum
      BY <1>1, <1>8, <2>2, ThresholdsAssumption DEF DisorderedGroup
    <3>2. DeltaTypeOK'
      BY <1>1, <3>1, ThresholdsAssumption DEF DeltaInv, DeltaTypeOK, IsFirstPacket
    <3> QED
      BY <3>1, <3>2 DEF DeltaInv, GroupsApart, DeltasTelescope, IsFirstPacket
  <2> QED
    BY <2>1, <2>2
<1>9. CASE ComputeDeltas(send, arrival, system)
  <2>1. /\ ~IsFirstPacket(current) /\ ~IsFirstPacket(prev)
        /\ send > current.first_send_time + GroupLength
    BY <1>9, StartsApart DEF ComputeDeltas, StartsGroup
  <2>2. /\ current' = group /\ prev' = current /\ reordered' = 0
        /\ base' = base
        /\ sum' = sum + (current.complete_time - prev.complete_time)
    BY <1>9 DEF ComputeDeltas, ArrivalDelta, group
  <2>3. DeltaTypeOK'
    BY <1>1, <1>2, <2>2, ThresholdsAssumption DEF DeltaTypeOK, IsFirstPacket
  <2>4. GroupsApart'
    BY <1>2, <2>1, <2>2 DEF GroupsApart, IsFirstPacket
  <2>5. /\ sum = prev.complete_time - base
        /\ current.complete_time \in Int /\ prev.complete_time \in Int
    BY <1>1, <2>1 DEF DeltaInv, DeltasTelescope, Groups
  <2>6. DeltasTelescope'
    BY <1>1, <2>1, <2>2, <2>5 DEF DeltasTelescope, IsFirstPacket
  <2> QED
    BY <1>1, <2>2, <2>3, <2>4, <2>5, <2>6 DEF DeltaInv
<1> QED
  BY <1>3, <1>4, <1>5, <1>6, <1>7, <1>8, <1>9 DEF Packet

\* The inductive invariant holds in every reachable state: whatever packets the
\* feedback reports, in whatever order.
THEOREM DeltaInvariance == DeltaSpec => []DeltaInv
<1>1. ASSUME DeltaInv, [DeltaNext]_deltaVars
      PROVE  DeltaInv'
  <2>1. CASE DeltaNext
    <3>1. PICK send \in SendTimes, arrival \in ArrivalTimes, system \in FeedbackTimes :
              Packet(send, arrival, system)
      BY <2>1 DEF DeltaNext
    <3> QED
      BY <1>1, <3>1, PacketInv, TimesAssumption
  <2>2. CASE UNCHANGED deltaVars
    BY <1>1, <2>2 DEF deltaVars, members, history, DeltaInv, DeltaTypeOK, GroupsApart,
                      DeltasTelescope, IsFirstPacket
  <2> QED
    BY <1>1, <2>1, <2>2
<1> QED
  BY DeltaInitInv, <1>1, PTL DEF DeltaSpec

\* The groups are well formed in every reachable state, and the counter of
\* disordered packets stays below the limit of a reset.
THEOREM DeltaTypeCorrect == DeltaSpec => []DeltaTypeOK
<1>1. DeltaInv => DeltaTypeOK
  BY DEF DeltaInv
<1> QED
  BY DeltaInvariance, <1>1, PTL

\* Groups that are compared began more than a group length apart.
THEOREM Separation == DeltaSpec => []GroupsApart
<1>1. DeltaInv => GroupsApart
  BY DEF DeltaInv
<1> QED
  BY DeltaInvariance, <1>1, PTL

\* ComputeDeltas loses no time between two groups and counts none twice.
THEOREM NothingLost == DeltaSpec => []DeltasTelescope
<1>1. DeltaInv => DeltasTelescope
  BY DEF DeltaInv
<1> QED
  BY DeltaInvariance, <1>1, PTL

================================================================================
