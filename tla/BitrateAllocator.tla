--------------------------- MODULE BitrateAllocator ---------------------------
(***************************************************************************)
(* BitrateAllocator (call/bitrate_allocator): splits the target rate of the *)
(* congestion controller between the send streams, its observers, pauses    *)
(* those that get too little and resumes them with a hysteresis.            *)
(*                                                                         *)
(* Rates are kbps and ratios percent.  What an observer answers, its rate   *)
(* for protection, is an input and kept as the media ratio it leads to.     *)
(* Left out are the pause counter, the stable target, which is split by the *)
(* same function and not kept, and what is passed on unchanged: loss, rtt,  *)
(* period and the overuse signal (TransportControl has that one).           *)
(***************************************************************************)
EXTENDS Integers, Sequences, SequencesExt

CONSTANTS
    Observers,      \* send streams
    Configs,        \* MediaStreamAllocationConfigs
    Targets,        \* target rates, 0 without a network
    StartRates,     \* configured start rates
    Ratios          \* media ratios that follow from an observer's answer

ASSUME ConfigsAssumption ==
    \A c \in Configs :
        /\ c.min \in Nat /\ c.max \in Nat /\ c.min <= c.max
        /\ c.enforce \in BOOLEAN /\ c.weight \in Nat \ {0}
        /\ c.priority \in Nat /\ c.pad \in Nat
ASSUME RatesAssumption == Targets \cup StartRates \subseteq Nat /\ Ratios \subseteq 1..100

DefaultBitrate == 300       \* kDefaultBitrateBps
MinToggleBitrate == 20      \* kMinToggleBitrateBps
New == -1                   \* allocated_bitrate_bps of a new track

Least(x, y) == IF x < y THEN x ELSE y
Most(x, y) == IF x > y THEN x ELSE y

\* The sum of f(t) over the tracks, and f(t) as a function of their observers.
Total(f(_), tracks) == FoldLeft(LAMBDA sum, t : sum + f(t), 0, tracks)
PerObserver(f(_), tracks) ==
    [o \in {tracks[i].observer : i \in DOMAIN tracks} |->
        f(CHOOSE t \in Range(tracks) : t.observer = o)]

\* A stable sort.
Ordered(seq, Before(_, _)) ==
    LET first(i, j) == Before(seq[i], seq[j]) \/ (~Before(seq[j], seq[i]) /\ i < j)
        order == SetToSortSeq(DOMAIN seq, first)
    IN  [k \in DOMAIN seq |-> seq[order[k]]]

TrackOf(observer, config) ==
    [observer |-> observer, config |-> config, allocated |-> New, ratio |-> 100]

-----------------------------------------------------------------------------
(* AllocatableTrack *)
LastAllocatedBitrate(t) == IF t.allocated = New THEN t.config.min ELSE t.allocated

\* kToggleFactor or kMinToggleBitrateBps, whatever is more.
Toggle(min) == Most(min \div 10, MinToggleBitrate)

\* Mutant: no hysteresis for a paused stream.
MinBitrateWithoutHysteresis(t) ==
    t.config.min + (t.config.min * (100 - t.ratio)) \div 100

MinBitrateWithHysteresis(t) ==
    LET min == IF LastAllocatedBitrate(t) = 0
               THEN t.config.min + Toggle(t.config.min) ELSE t.config.min
    IN  min + (min * (100 - t.ratio)) \div 100

-----------------------------------------------------------------------------
(* AllocateBitrates *)
EnoughBitrateForAllObservers(tracks, bitrate) ==
    LET mins == Total(LAMBDA t : t.config.min, tracks)
        extra == (bitrate - mins) \div Len(tracks)
    IN  /\ bitrate >= mins
        /\ \A i \in DOMAIN tracks :
            tracks[i].config.min + extra >= MinBitrateWithHysteresis(tracks[i])

\* Mutant: what a stream takes is not subtracted.
EvenShareForFree(acc, t, multiplier) ==
    LET extra == acc.left \div acc.count
        total == extra + acc.allocation[t.observer]
        given == Least(total, multiplier * t.config.max)
    IN  [allocation |-> [acc.allocation EXCEPT ![t.observer] = given],
         left |-> acc.left + (total - given),
         count |-> acc.count - 1]

\* An even share of what is left; what the track cannot take stays.
EvenShare(acc, t, multiplier) ==
    LET extra == acc.left \div acc.count
        total == extra + acc.allocation[t.observer]
        given == Least(total, multiplier * t.config.max)
    IN  [allocation |-> [acc.allocation EXCEPT ![t.observer] = given],
         left |-> acc.left - extra + (total - given),
         count |-> acc.count - 1]

DistributeBitrateEvenly(tracks, bitrate, includeZero, multiplier, allocation) ==
    LET chosen == SelectSeq(tracks,
                    LAMBDA t : includeZero \/ allocation[t.observer] # 0)
    IN  FoldLeft(LAMBDA acc, t : EvenShare(acc, t, multiplier),
                 [allocation |-> allocation, left |-> bitrate, count |-> Len(chosen)],
                 Ordered(chosen, LAMBDA t, u : t.config.max < u.config.max)).allocation

\* The full capacity as long as the share by weight covers it, then the share.
RelativeShare(acc, t) ==
    LET room == acc.capacity[t.observer]
        part == (t.config.weight * acc.left) \div acc.weights
    IN  IF acc.full /\ t.config.weight * acc.left >= room * acc.weights
        THEN [acc EXCEPT !.allocation[t.observer] = @ + room,
                         !.left = @ - room, !.weights = @ - t.config.weight]
        ELSE [acc EXCEPT !.allocation[t.observer] = @ + part, !.full = FALSE]

DistributeBitrateRelatively(tracks, bitrate, capacity, allocation) ==
    LET sooner(t, u) == capacity[t.observer] * u.config.weight
                            < capacity[u.observer] * t.config.weight
    IN  FoldLeft(RelativeShare,
                 [allocation |-> allocation, capacity |-> capacity,
                  left |-> bitrate, full |-> TRUE,
                  weights |-> Total(LAMBDA t : t.config.weight, tracks)],
                 Ordered(tracks, sooner)).allocation

\* Mutant: less than the minimum, if there is no more.
GiveWhatIsLeft(acc, t) ==
    LET given == Least(acc.left, MinBitrateWithHysteresis(t))
    IN  [allocation |-> [acc.allocation EXCEPT ![t.observer] = given],
         left |-> acc.left - given]

\* The minimum, if there is enough left.
GiveMinimum(acc, t) ==
    LET required == MinBitrateWithHysteresis(t)
    IN  IF acc.left >= required
        THEN [allocation |-> [acc.allocation EXCEPT ![t.observer] = required],
              left |-> acc.left - required]
        ELSE acc

EnforcedMinimum(t) == IF t.config.enforce THEN t.config.min ELSE 0

\* Enforced minimums, then the streams that were active, then the paused ones.
LowRateAllocation(tracks, bitrate) ==
    LET enforced == PerObserver(EnforcedMinimum, tracks)
        round(acc, P(_)) ==
            IF acc.left > 0 THEN FoldLeft(GiveMinimum, acc, SelectSeq(tracks, P))
            ELSE acc
        start == [allocation |-> enforced,
                  left |-> bitrate - Total(EnforcedMinimum, tracks)]
        active == round(start, LAMBDA t : ~t.config.enforce
                                            /\ LastAllocatedBitrate(t) # 0)
        paused == round(active, LAMBDA t : LastAllocatedBitrate(t) = 0)
    IN  IF paused.left > 0
        THEN DistributeBitrateEvenly(tracks, paused.left, FALSE, 1, paused.allocation)
        ELSE paused.allocation

\* What a track misses of its prioritised rate.
Prefer(acc, t) ==
    LET margin == t.config.priority - acc.allocation[t.observer]
        extra == Least(margin, acc.left)
    IN  IF margin > 0 /\ acc.left > 0
        THEN [allocation |-> [acc.allocation EXCEPT ![t.observer] = @ + extra],
              capacity |-> [acc.capacity EXCEPT ![t.observer] = @ - extra],
              left |-> acc.left - extra]
        ELSE acc

\* The minimums, the prioritised rates, the rest by weight.
NormalRateAllocation(tracks, bitrate) ==
    LET preferred == FoldLeft(Prefer,
            [allocation |-> PerObserver(LAMBDA t : t.config.min, tracks),
             capacity |-> PerObserver(LAMBDA t : t.config.max - t.config.min, tracks),
             left |-> bitrate - Total(LAMBDA t : t.config.min, tracks)],
            tracks)
    IN  IF preferred.left > 0
        THEN DistributeBitrateRelatively(tracks, preferred.left, preferred.capacity,
                                         preferred.allocation)
        ELSE preferred.allocation

\* kTransmissionMaxBitrateMultiplier times the maximum for each.
MaxRateAllocation(tracks, bitrate) ==
    DistributeBitrateEvenly(
        tracks, bitrate - Total(LAMBDA t : t.config.max, tracks), TRUE, 2,
        PerObserver(LAMBDA t : t.config.max, tracks))

ZeroRateAllocation(tracks) == PerObserver(LAMBDA t : 0, tracks)

AllocateBitrates(tracks, bitrate) ==
    IF tracks = << >> \/ bitrate = 0 THEN ZeroRateAllocation(tracks)
    ELSE CASE ~EnoughBitrateForAllObservers(tracks, bitrate) ->
                LowRateAllocation(tracks, bitrate)
           [] OTHER ->
                IF bitrate <= Total(LAMBDA t : t.config.max, tracks)
                THEN NormalRateAllocation(tracks, bitrate)
                ELSE MaxRateAllocation(tracks, bitrate)

-----------------------------------------------------------------------------
(***************************************************************************)
(* Specification                                                           *)
(***************************************************************************)
VARIABLES
    tracks,         \* allocatable_tracks_
    lastTarget,     \* last_target_bps_
    lastNonZero,    \* last_non_zero_bitrate_bps_
    limits          \* current_limits_, which the limit observer has

vars == <<tracks, lastTarget, lastNonZero, limits>>

Registered == {tracks[i].observer : i \in DOMAIN tracks}

\* UpdateAllocationLimits: a paused stream is padded up to what resumes it.
AllocationLimits(ts) ==
    [min |-> Total(LAMBDA t : IF t.config.enforce THEN t.config.min ELSE 0, ts),
     max |-> Total(LAMBDA t : t.config.max, ts),
     padding |-> Total(LAMBDA t :
                    IF ~t.config.enforce /\ t.allocated = 0
                    THEN Most(MinBitrateWithHysteresis(t), t.config.pad)
                    ELSE t.config.pad, ts)]

\* The tracks after their observers have been told a new allocation; answers
\* gives the media ratio of each.
Updated(ts, target, answers) ==
    LET allocation == AllocateBitrates(ts, target)
    IN  [i \in DOMAIN ts |->
            LET rate == allocation[ts[i].observer]
            IN  [ts[i] EXCEPT !.allocated = rate,
                              !.ratio = IF rate > 0 THEN answers[ts[i].observer]
                                        ELSE @]]

Init ==
    /\ tracks = << >>
    /\ lastTarget = 0
    /\ lastNonZero = DefaultBitrate
    /\ limits = AllocationLimits(<< >>)

UpdateStartRate(rate) ==
    /\ lastNonZero' = rate
    /\ UNCHANGED <<tracks, lastTarget, limits>>

\* Mutant: a lost network clears the start rate.
OnNetworkEstimateChangedForgets(target, answers) ==
    /\ lastTarget' = target
    /\ lastNonZero' = target
    /\ tracks' = Updated(tracks, target, answers)
    /\ limits' = AllocationLimits(tracks')

OnNetworkEstimateChanged(target, answers) ==
    /\ lastTarget' = target
    /\ lastNonZero' = IF target > 0 THEN target ELSE lastNonZero
    /\ tracks' = Updated(tracks, target, answers)
    /\ limits' = AllocationLimits(tracks')

\* The tracks with a new configuration for the observer, or with a new track.
WithConfig(observer, config) ==
    IF observer \in Registered
    THEN [i \in DOMAIN tracks |->
            IF tracks[i].observer = observer
            THEN [tracks[i] EXCEPT !.config = config] ELSE tracks[i]]
    ELSE Append(tracks, TrackOf(observer, config))

\* Without a target the observer is told 0 and its track keeps no allocation.
AddObserver(observer, config, answers) ==
    /\ tracks' = IF lastTarget > 0
                 THEN Updated(WithConfig(observer, config), lastTarget, answers)
                 ELSE WithConfig(observer, config)
    /\ limits' = AllocationLimits(tracks')
    /\ UNCHANGED <<lastTarget, lastNonZero>>

\* The others keep their allocation until the next estimate.
RemoveObserver(observer) ==
    /\ tracks' = SelectSeq(tracks, LAMBDA t : t.observer # observer)
    /\ limits' = AllocationLimits(tracks')
    /\ UNCHANGED <<lastTarget, lastNonZero>>

\* The rate a stream starts with.
GetStartBitrate(observer) ==
    LET own == SelectSeq(tracks, LAMBDA t : t.observer = observer)
    IN  IF own = << >> THEN lastNonZero \div (Len(tracks) + 1)
        ELSE IF own[1].allocated = New THEN lastNonZero \div Len(tracks)
        ELSE own[1].allocated

Next ==
    \/ \E rate \in StartRates : UpdateStartRate(rate)
    \/ \E target \in Targets, answers \in [Observers -> Ratios] :
        OnNetworkEstimateChanged(target, answers)
    \/ \E observer \in Observers, config \in Configs,
          answers \in [Observers -> Ratios] :
        AddObserver(observer, config, answers)
    \/ \E observer \in Observers : RemoveObserver(observer)

Spec == Init /\ [][Next]_vars

-----------------------------------------------------------------------------
(***************************************************************************)
(* Properties                                                              *)
(***************************************************************************)
Granted(t) == Most(t.allocated, 0)

\* The streams together never get more than the target, or than the minimums
\* they enforce, through every rounding, cap and carry over of the three ways
\* to allocate.
WithinTarget ==
    Total(Granted, tracks) <= Most(lastTarget, limits.min)

\* A stream is paused or gets its minimum, it is never starved in between; and
\* while there is a target a stream with an enforced minimum is not paused.
PausedOrMinimum ==
    \A i \in DOMAIN tracks :
        LET t == tracks[i] IN
        t.allocated > 0 \/ (t.config.enforce /\ lastTarget > 0) =>
            t.allocated >= t.config.min

\* A stream that has not been allocated a rate starts with one above 0, also
\* after the network was lost.
StartRateKnown ==
    \A o \in Observers :
        (\A i \in DOMAIN tracks : tracks[i].observer = o => tracks[i].allocated = New)
            => GetStartBitrate(o) > 0

\* A paused stream of index i that the step resumes gets its minimum and the
\* hysteresis, or its maximum.
ResumedAmply(i, j) ==
    LET before == tracks[i]
        after == tracks'[j]
    IN  before.observer = after.observer /\ ~after.config.enforce
            /\ before.allocated = 0 /\ after.allocated > 0 =>
        after.allocated >= Least(after.config.max,
                                 after.config.min + Toggle(after.config.min))

EqualWeights(ts) ==
    \A i, j \in DOMAIN ts :
        ts[i].config.weight = ts[j].config.weight /\ ts[i].config.priority = 0

\* Among streams of equal weight a paused one is resumed only with the
\* hysteresis above its minimum, whichever way the rate was allocated.
ResumeWithHysteresis ==
    [][EqualWeights(tracks') =>
        \A i \in DOMAIN tracks, j \in DOMAIN tracks' : ResumedAmply(i, j)]_vars

=============================================================================
