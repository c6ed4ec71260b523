--------------------------- MODULE InterArrivalDelta ---------------------------
(***************************************************************************)
(* InterArrivalDelta (modules/congestion_controller/goog_cc): packets that  *)
(* were sent together form a group, and each pair of consecutive groups     *)
(* gives the delay detector one send and one arrival delta.                 *)
(*                                                                         *)
(* Times are milliseconds of finite sets: the send time is the sender's     *)
(* clock, the arrival time the receiver's, the system time the sender's     *)
(* when the feedback came.  Packet sizes are left out: no one reads the     *)
(* size delta.                                                              *)
(***************************************************************************)
EXTENDS Integers

CONSTANTS
    SendTimes,              \* send times of packets
    ArrivalTimes,           \* arrival times of packets, any order of messages
    FeedbackTimes,          \* system times at which feedback comes
    GroupLength,            \* send_time_group_length_
    BurstDeltaThreshold,    \* kBurstDeltaThreshold
    MaxBurstDuration,       \* kMaxBurstDuration
    OffsetThreshold,        \* kArrivalTimeOffsetThreshold
    ReorderedResetThreshold \* kReorderedResetThreshold

ASSUME TimesAssumption ==
    SendTimes \subseteq Nat /\ ArrivalTimes \subseteq Nat /\ FeedbackTimes \subseteq Nat
ASSUME ThresholdsAssumption ==
    /\ {GroupLength, BurstDeltaThreshold, MaxBurstDuration, OffsetThreshold}
            \subseteq Nat
    /\ ReorderedResetThreshold \in Nat \ {0}

Infinite == -1      \* Timestamp::MinusInfinity

Groups ==
    [first_send_time: Int, send_time: Int, first_arrival: Int,
     complete_time: Int, last_system_time: Int]

NoGroup ==
    [first_send_time |-> Infinite, send_time |-> Infinite,
     first_arrival |-> Infinite, complete_time |-> Infinite,
     last_system_time |-> Infinite]

IsFirstPacket(group) == group.complete_time = Infinite

\* A group of one packet.
Group(send, arrival, system) ==
    [first_send_time |-> send, send_time |-> send, first_arrival |-> arrival,
     complete_time |-> arrival, last_system_time |-> system]

\* The group after one more packet.
Joined(group, send, arrival, system) ==
    [group EXCEPT !.send_time = IF send > @ THEN send ELSE @,
                  !.complete_time = arrival,
                  !.last_system_time = system]

\* Packets a bottleneck queued arrive faster than they were sent.
BelongsToBurst(group, send, arrival) ==
    LET arrivalDelta == arrival - group.complete_time
        sendDelta == send - group.send_time
    IN  \/ sendDelta = 0
        \/ /\ arrivalDelta < sendDelta
           /\ arrivalDelta <= BurstDeltaThreshold
           /\ arrival - group.first_arrival < MaxBurstDuration

\* Mutant: the end of the group instead of its beginning.
NewTimestampGroupFromEnd(group, send, arrival) ==
    /\ ~BelongsToBurst(group, send, arrival)
    /\ send - group.send_time > -GroupLength

NewTimestampGroup(group, send, arrival) ==
    /\ ~BelongsToBurst(group, send, arrival)
    /\ send - group.first_send_time > GroupLength

-----------------------------------------------------------------------------
VARIABLES
    current,        \* current_timestamp_group_
    prev,           \* prev_timestamp_group_
    reordered,      \* num_consecutive_reordered_packets_
    feedback,       \* system time and last arrival of the feedback message
    base,           \* history: the end of the first group the deltas start from
    sum             \* history: the arrival deltas reported since then

members == <<current, prev, reordered>>
history == <<base, sum>>
deltaVars == <<members, feedback, history>>

DeltaInit ==
    /\ current = NoGroup /\ prev = NoGroup /\ reordered = 0
    /\ feedback = [time |-> 0, arrival |-> 0]
    /\ base = Infinite /\ sum = 0

ArrivalDelta == current.complete_time - prev.complete_time
SystemDelta == current.last_system_time - prev.last_system_time

\* The clock of the receiver has moved against ours.
OffsetChanged == ArrivalDelta - SystemDelta >= OffsetThreshold

Reset ==
    /\ current' = NoGroup /\ prev' = NoGroup /\ reordered' = 0
    /\ base' = Infinite /\ sum' = 0

FirstPacket(send, arrival, system) ==
    /\ IsFirstPacket(current)
    /\ current' = Group(send, arrival, system)
    /\ UNCHANGED <<prev, reordered, history>>

\* A packet from before the current group is ignored.
ReorderedPacket(send) ==
    /\ ~IsFirstPacket(current)
    /\ current.first_send_time > send
    /\ UNCHANGED <<members, history>>

JoinGroup(send, arrival, system) ==
    /\ ~IsFirstPacket(current)
    /\ current.first_send_time <= send
    /\ ~NewTimestampGroup(current, send, arrival)
    /\ current' = Joined(current, send, arrival, system)
    /\ UNCHANGED <<prev, reordered, history>>

StartsGroup(send, arrival) ==
    /\ ~IsFirstPacket(current)
    /\ current.first_send_time <= send
    /\ NewTimestampGroup(current, send, arrival)

\* The first group is complete; there is nothing to compare it with.
SecondGroup(send, arrival, system) ==
    /\ StartsGroup(send, arrival)
    /\ IsFirstPacket(prev)
    /\ prev' = current
    /\ current' = Group(send, arrival, system)
    /\ base' = current.complete_time
    /\ UNCHANGED <<reordered, sum>>

ClockJump(send, arrival) ==
    /\ StartsGroup(send, arrival)
    /\ ~IsFirstPacket(prev)
    /\ OffsetChanged
    /\ Reset

\* The current group arrived before the previous one: the packet is dropped
\* and both groups stay, so the next packet finds the same pair.
DisorderedGroup(send, arrival) ==
    /\ StartsGroup(send, arrival)
    /\ ~IsFirstPacket(prev)
    /\ ~OffsetChanged
    /\ ArrivalDelta < 0
    /\ IF reordered + 1 >= ReorderedResetThreshold
       THEN Reset
       ELSE /\ reordered' = reordered + 1
            /\ UNCHANGED <<current, prev, base, sum>>

\* Mutant: the previous group stays when deltas were computed.
ComputeDeltasKeepsPrev(send, arrival, system) ==
    /\ StartsGroup(send, arrival)
    /\ ~IsFirstPacket(prev)
    /\ ~OffsetChanged
    /\ ArrivalDelta >= 0
    /\ prev' = prev
    /\ current' = Group(send, arrival, system)
    /\ reordered' = 0
    /\ sum' = sum + ArrivalDelta
    /\ UNCHANGED base

ComputeDeltas(send, arrival, system) ==
    /\ StartsGroup(send, arrival)
    /\ ~IsFirstPacket(prev)
    /\ ~OffsetChanged
    /\ ArrivalDelta >= 0
    /\ prev' = current
    /\ current' = Group(send, arrival, system)
    /\ reordered' = 0
    /\ sum' = sum + ArrivalDelta
    /\ UNCHANGED base

\* One packet of a feedback message; a message lists its packets by arrival.
Packet(send, arrival, system) ==
    /\ \/ system > feedback.time
       \/ system = feedback.time /\ arrival >= feedback.arrival
    /\ feedback' = [time |-> system, arrival |-> arrival]
    /\ \/ FirstPacket(send, arrival, system)
       \/ ReorderedPacket(send)
       \/ JoinGroup(send, arrival, system)
       \/ SecondGroup(send, arrival, system)
       \/ ClockJump(send, arrival)
       \/ DisorderedGroup(send, arrival)
       \/ ComputeDeltas(send, arrival, system)

DeltaNext ==
    \E send \in SendTimes, arrival \in ArrivalTimes, system \in FeedbackTimes :
        Packet(send, arrival, system)

DeltaSpec == DeltaInit /\ [][DeltaNext]_deltaVars

-----------------------------------------------------------------------------
(***************************************************************************)
(* Properties                                                              *)
(***************************************************************************)
\* The members are well formed; a group before the current one exists only
\* with the current one.
DeltaTypeOK ==
    /\ current \in Groups /\ prev \in Groups
    /\ reordered \in 0..(ReorderedResetThreshold - 1)
    /\ IsFirstPacket(current) => IsFirstPacket(prev)

\* The two groups that give a delta began more than a group length apart in
\* send time, and no packet of the current group was sent before it began,
\* whatever was reordered, joined as a burst or reset in between.
GroupsApart ==
    /\ current.first_send_time <= current.send_time
    /\ ~IsFirstPacket(prev) =>
            current.first_send_time > prev.first_send_time + GroupLength

\* The deltas reported since a reset add up to the time that passed at the
\* receiver between the first group and the last one compared: none is lost and
\* none counted twice, which the accumulated delay of the detector rests on.
DeltasTelescope ==
    IF IsFirstPacket(prev) THEN sum = 0
    ELSE sum = prev.complete_time - base

=============================================================================
